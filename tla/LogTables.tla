----------------------------- MODULE LogTables -----------------------------
(***************************************************************************)
(* The five tables of one eventsdb file, as one record, and what the       *)
(* crate's own SQL statements do to them.  Every operator here is a pure   *)
(* function of the tables: the state machines of the other modules decide  *)
(* on which connection, inside which transaction and in which order the    *)
(* statements run.                                                         *)
(*                                                                         *)
(*   events    rows of `events`: position, stream, seq, kind, epoch_ms     *)
(*   autoinc   the AUTOINCREMENT counter SQLite keeps for `position`       *)
(*   next      `stream_seq`: what the next event of a stream is numbered;  *)
(*             1 stands for a stream with no row, since a stored counter   *)
(*             is never below 2                                            *)
(*   ckpt      `checkpoints`: a consumer's cursor, NoRow when it has none  *)
(*   ledger    `retention`: the highest position each removal took; a row  *)
(*             is never removed, so its id is its place                    *)
(*   receipts  `exports`: range, landed, whole; the id is the place again  *)
(***************************************************************************)
EXTENDS Integers, FiniteSets, Sequences

CONSTANTS
  Streams,    \* stream names
  Kinds,      \* event kinds
  Times,      \* values of the column epoch_ms, a signed integer
  Consumers   \* names a checkpoint is kept under

ASSUME TimesAssumption == Times \subseteq Int

NoRow == -1

Row == [pos : Nat \ {0}, stream : Streams, seq : Nat \ {0}, kind : Kinds, at : Times]

Event == [kind : Kinds, at : Times]

\* An empty run returns before it reaches the queue, so runs are not empty.
Run == Seq(Event) \ {<<>>}

Receipt == [from : Nat, thr : Nat, landed : BOOLEAN, whole : BOOLEAN]

Tables == [events   : SUBSET Row,
           autoinc  : Nat,
           next     : [Streams -> Nat \ {0}],
           ckpt     : [Consumers -> Nat \cup {NoRow}],
           ledger   : Seq(Nat),
           receipts : Seq(Receipt)]

\* What the migration ladder leaves behind on a fresh file.
EmptyTables == [events   |-> {},
                autoinc  |-> 0,
                next     |-> [s \in Streams |-> 1],
                ckpt     |-> [c \in Consumers |-> NoRow],
                ledger   |-> <<>>,
                receipts |-> <<>>]

\* SELECT COALESCE(MAX(...), 0)
MaxOrZero(S) == IF S = {} THEN 0 ELSE CHOOSE p \in S : \A q \in S : q <= p

Positions(rows) == {r.pos : r \in rows}

\* ORDER BY: the members of S one after another, where upTo[x] are x and those
\* that come before it.
OrderBy(S, upTo) == [i \in 1..Cardinality(S) |-> CHOOSE x \in S : Cardinality(upTo[x]) = i]

\* Numbers, from the least up.
Ascending(S) == OrderBy(S, [x \in S |-> {y \in S : y <= x}])

-----------------------------------------------------------------------------
(* Appending.                                                              *)

\* Faulty: the number after the stream's last row, which retention can lower.
NextSeqFromRows(d, s) == 1 + MaxOrZero({r.seq : r \in {q \in d.events : q.stream = s}})

NextSeq(d, s) == d.next[s]

SetNextSeq(d, s, n) == [d EXCEPT !.next = [d.next EXCEPT ![s] = n]]

\* UNIQUE (stream, seq) of the events table.
Taken(d, s, seq) == \E r \in d.events : r.stream = s /\ r.seq = seq

\* One stamped insert: the position is the rowid AUTOINCREMENT assigns.
InsertStamped(d, s, seq, e) ==
  [d EXCEPT !.events  = @ \cup {[pos |-> d.autoinc + 1, stream |-> s, seq |-> seq,
                                 kind |-> e.kind, at |-> e.at]},
            !.autoinc = @ + 1]

\* Faulty: a plain rowid, one above the highest row there is.
RunRowsWithoutAutoincrement(d, s, run) ==
  {[pos |-> MaxOrZero(Positions(d.events)) + i, stream |-> s, seq |-> NextSeq(d, s) + i - 1,
    kind |-> run[i].kind, at |-> run[i].at] : i \in DOMAIN run}

\* The rows of a run of events for one stream: one counter read, contiguous
\* sequence numbers, positions in the order given.
RunRows(d, s, run) ==
  {[pos |-> d.autoinc + i, stream |-> s, seq |-> NextSeq(d, s) + i - 1,
    kind |-> run[i].kind, at |-> run[i].at] : i \in DOMAIN run}

RunTaken(d, s, run) == \E i \in DOMAIN run : Taken(d, s, NextSeq(d, s) + i - 1)

AppendRun(d, s, run) ==
  SetNextSeq([d EXCEPT !.events = @ \cup RunRows(d, s, run), !.autoinc = @ + Len(run)],
             s, NextSeq(d, s) + Len(run))

\* The head as the stored counter tells it.  Unwritten is not Seq(0): a caller
\* that expects Seq(0) is refused on an unwritten stream.
Unwritten == -1
CounterHead(d, s) == IF NextSeq(d, s) = 1 THEN Unwritten ELSE NextSeq(d, s) - 1

\* Every number a row carries is behind the counter that would hand it out, no
\* two rows share one, within a stream the two orders agree, and no number
\* behind a counter is missing.
Dense(rows, autoinc, next) ==
  /\ \A r \in rows : r.pos <= autoinc /\ r.seq < next[r.stream]
  /\ \A r, q \in rows : r.pos = q.pos => r = q
  /\ \A r, q \in rows : r.stream = q.stream => (r.seq < q.seq <=> r.pos < q.pos)
  /\ \A n \in 1..autoinc : \E r \in rows : r.pos = n
  /\ \A s \in Streams : \A n \in 1..(next[s] - 1) :
       \E r \in rows : r.stream = s /\ r.seq = n

-----------------------------------------------------------------------------
(* Reading.  A filter is the set of kinds and the set of streams it takes. *)

HeadPosition(d) == MaxOrZero(Positions(d.events))

StreamRows(d, s, kinds) == {r \in d.events : r.stream = s /\ r.kind \in kinds}

\* The rows of S with the n lowest positions: ORDER BY position LIMIT n.
Lowest(S, n) == {r \in S : Cardinality({q \in S : q.pos < r.pos}) < n}

Selected(d, from, kinds, streams) ==
  {r \in d.events : r.pos > from /\ r.kind \in kinds /\ r.stream \in streams}

SelectStored(d, from, kinds, streams, limit) ==
  Lowest(Selected(d, from, kinds, streams), limit)

-----------------------------------------------------------------------------
(* Checkpoints.                                                            *)

LoadCheckpoint(d, c) == IF d.ckpt[c] = NoRow THEN 0 ELSE d.ckpt[c]

SaveCheckpoint(d, c, at) == [d EXCEPT !.ckpt[c] = at]

-----------------------------------------------------------------------------
(* Retention.                                                              *)

Plan == [shape : {"Before"}, pos : Nat]
          \cup [shape : {"OlderThan"}, at : Nat]
          \cup [shape : {"Streams"}, names : SUBSET Streams]

Matches(plan, r) ==
  \/ plan.shape = "Before" /\ r.pos <= plan.pos
  \/ plan.shape = "OlderThan" /\ r.at < plan.at
  \/ plan.shape = "Streams" /\ r.stream \in plan.names

Matching(d, plan) == {r \in d.events : Matches(plan, r)}

HighestMatching(d, plan) == MaxOrZero(Positions(Matching(d, plan)))

Watermark(d) == MaxOrZero({d.ledger[i] : i \in DOMAIN d.ledger})

\* require_complete_from answers Ok.
CompleteFrom(d, from) == ~(from < Watermark(d))

\* The chain of landed, whole receipts, walked in (from, through) order.  The
\* end of the walk is the highest position reachable from 0 by receipts that
\* each start at or below the end of another: the least set closed under them.
Vouching(d) ==
  LET R == d.receipts IN
  {[id |-> i, from |-> R[i].from, thr |-> R[i].thr] :
     i \in {j \in DOMAIN R : R[j].landed /\ R[j].whole}}

ExportedThrough(d) ==
  LET ends == {0} \cup {r.thr : r \in Vouching(d)}
      gap(e) == \A r \in Vouching(d) : r.from <= e => r.thr <= e
  IN  CHOOSE e \in ends : gap(e) /\ \A f \in ends : gap(f) => e <= f

BehindConsumer(d, highest) ==
  \E c \in Consumers : d.ckpt[c] # NoRow /\ d.ckpt[c] < highest

Guards == {"RegisteredConsumers", "Force", "Exported"}

Uncovered(d, plan, guard) ==
  guard = "Exported" /\ HighestMatching(d, plan) > ExportedThrough(d)

Overruns(d, plan, guard) ==
  guard # "Force" /\ BehindConsumer(d, HighestMatching(d, plan))

\* The answer retain gives for a plan under a guard on these tables.
RetainAnswer(d, plan, guard) ==
  IF Matching(d, plan) = {} THEN "nothing"
  ELSE IF Uncovered(d, plan, guard) THEN "NotExported"
  ELSE IF Overruns(d, plan, guard) THEN "ConsumerBehind"
  ELSE "removed"

\* DELETE and the ledger row, which share a transaction.
RemoveMatching(d, plan) ==
  [d EXCEPT !.events = @ \ Matching(d, plan),
            !.ledger = Append(@, HighestMatching(d, plan))]

-----------------------------------------------------------------------------
(* Export receipts.                                                        *)

RecordReceipt(d, from, thr, whole) ==
  [d EXCEPT !.receipts =
     Append(@, [from |-> from, thr |-> thr, landed |-> FALSE, whole |-> whole])]

HasReceipt(d, id) == id \in DOMAIN d.receipts

ConfirmReceipt(d, id) == [d EXCEPT !.receipts[id].landed = TRUE]

=============================================================================
