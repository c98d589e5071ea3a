---------------------------- MODULE StreamStore ----------------------------
(***************************************************************************)
(* One EventStore of a stream on the file, and one in memory, given the    *)
(* same calls.  The first keeps rows that retention may take and numbers   *)
(* them from a stored counter; the second keeps a vector of its own,       *)
(* numbers by its length and is never trimmed.  Numbers are u64 for a      *)
(* caller and i64 in a column.  What is read goes through the chain of      *)
(* upcasters; what is selected, and what is counted, does not.             *)
(***************************************************************************)
EXTENDS LogWriters, SequencesExt

CONSTANTS
  MaxStored,   \* i64::MAX
  Decisions,   \* what append_if is asked for: [stream, kinds, event]
  Reads,       \* what read_kinds and read_last are asked for: [kinds, from, limit]
  Shapeless,   \* what a faulty step makes of an event: no kind, or no version
  Chain        \* the registered steps, each what it makes of an event of a kind

U64 == 0..(2 * MaxStored + 1)

ASSUME StoreAssumption ==
  /\ MaxStored \in Nat
  /\ Decisions \subseteq [stream : Streams, kinds : SUBSET Kinds, event : Event]
  /\ Reads \subseteq [kinds : SUBSET Kinds, from : U64, limit : U64]
  /\ Shapeless \notin Kinds
  /\ Chain \in Seq([Kinds \cup {Shapeless} -> Kinds \cup {Shapeless}])

VARIABLE mem   \* per stream: MemEventStore's events

storeVars == <<db, history, mem>>

StoreInit == LogInit /\ mem = [s \in Streams |-> <<>>]

-----------------------------------------------------------------------------
(* Numbers.                                                                *)

\* `n as i64`, and `n as u64` on the way back.
AsStored(n) == IF n <= MaxStored THEN n ELSE n - 2 * (MaxStored + 1)
AsGiven(n) == IF n < 0 THEN n + 2 * (MaxStored + 1) ELSE n

\* clamp_limit, and what LIMIT makes of it: a negative one takes everything.
ClampLimit(limit) == IF limit <= MaxStored THEN limit ELSE -1
Take(seq, limit) == IF limit < 0 THEN seq ELSE SubSeq(seq, 1, IF limit < Len(seq) THEN limit ELSE Len(seq))

-----------------------------------------------------------------------------
(* Upcasting.                                                              *)

\* apply_chain, of one event: every step, in the order of registration.
ApplyChain(e) == [e EXCEPT !.kind = FoldLeft(LAMBDA kind, step : step[kind], @, Chain)]

\* Current::from_upcasted: one event without its shape fails the whole read.
Answer(stored) ==
  LET now == [i \in DOMAIN stored |-> ApplyChain(stored[i])]
      ok == \A i \in DOMAIN now : now[i].kind # Shapeless
  IN  [ok |-> ok, events |-> IF ok THEN now ELSE <<>>]

\* What is stored of an event.
Read(row) == [seq |-> row.seq, kind |-> row.kind]

-----------------------------------------------------------------------------
(* The stream on the file.                                                 *)

\* The rows of one stream by number, of which there is one each.
BySeq(rows) ==
  LET order == Ascending({r.seq : r \in rows})
  IN  [i \in DOMAIN order |-> Read(CHOOSE r \in rows : r.seq = order[i])]

\* Faulty: the limit counts what is skipped as well.
LimitThenKinds(d, s, kinds, from, limit) ==
  LET stream == BySeq({r \in d.events : r.stream = s /\ r.seq >= AsStored(from)})
  IN  SelectSeq(Take(stream, ClampLimit(limit)), LAMBDA e : e.kind \in kinds)

\* WHERE stream AND seq >= AND kind IN, ORDER BY seq LIMIT.
SelectStream(d, s, kinds, from, limit) ==
  Take(BySeq({r \in StreamRows(d, s, kinds) : r.seq >= AsStored(from)}), ClampLimit(limit))

\* ORDER BY seq DESC LIMIT n, reversed.
ReadLast(d, s, n) == Reverse(Take(Reverse(BySeq(StreamRows(d, s, Kinds))), ClampLimit(n)))

\* MAX(seq), which is NULL for a stream without rows.
HeadSeq(d, s) == {r.seq : r \in {q \in StreamRows(d, s, Kinds) :
                                \A p \in StreamRows(d, s, Kinds) : p.seq <= q.seq}}

Length(d, s) == Cardinality(StreamRows(d, s, Kinds))

-----------------------------------------------------------------------------
(* The stream in memory.                                                   *)

MemNextSeq(events) == Len(events) + 1

MemAppend(events, e) == Append(events, [seq |-> MemNextSeq(events), kind |-> e.kind])

\* One append after another.
MemAppendMany(events, run) ==
  events \o [i \in DOMAIN run |-> [seq |-> Len(events) + i, kind |-> run[i].kind]]

\* What is selected of the vector, in its order, and no more than the limit of it.
Project(events, kinds, from, limit) ==
  LET selected == {i \in DOMAIN events : events[i].seq >= from /\ events[i].kind \in kinds}
      order == Ascending(selected)
  IN  [n \in 1..(IF limit < Len(order) THEN limit ELSE Len(order)) |-> events[order[n]]]

\* The tail from len.saturating_sub(n).
MemReadLast(events, n) ==
  SubSeq(events, 1 + (IF n < Len(events) THEN Len(events) - n ELSE 0), Len(events))

MemHead(events) == IF events = <<>> THEN {} ELSE {Last(events).seq}

-----------------------------------------------------------------------------
(* Calls, each made of both.                                               *)

\* An append with the times its events have, as a backfill and an import give.
AppendBoth(a) ==
  /\ Write([a EXCEPT !.run = [i \in DOMAIN a.run |-> [a.run[i] EXCEPT !.at = AsStored(@)]]])
  /\ mem' = [mem EXCEPT ![a.stream] = MemAppendMany(@, a.run)]

\* append_if, with a decision that records its event if it is shown none now of
\* the event's kind.  It is not asked when the read fails.
DecideBoth(q) ==
  LET decides(stored) == /\ Answer(stored).ok
                         /\ \A i \in DOMAIN stored : Answer(stored).events[i].kind # q.event.kind
      onFile == decides(SelectStream(db, q.stream, q.kinds, 0, 2 * MaxStored + 1))
      inMemory == decides(Project(mem[q.stream], q.kinds, 0, 2 * MaxStored + 1))
  IN  /\ onFile \/ inMemory
      /\ IF onFile THEN Write([stream |-> q.stream, run |-> <<q.event>>])
         ELSE UNCHANGED logVars
      /\ mem' = [mem EXCEPT ![q.stream] = IF inMemory THEN MemAppend(@, q.event) ELSE @]

\* Retention, which there is none of in memory.
TrimStored(r) == Trim(r) /\ UNCHANGED mem

StoreStep ==
  \/ \E a \in Appends : AppendBoth(a)
  \/ \E q \in Decisions : DecideBoth(q)
  \/ \E r \in Removals : TrimStored(r)

-----------------------------------------------------------------------------
(* What must hold.                                                         *)

\* As long as retention has not touched a stream, its store on the file and one
\* in memory cannot be told apart: after the same appends, runs and decisions
\* they answer every read alike, in content, order, numbers and length, whatever
\* kinds and limit are asked for and from any start that a column holds, and number
\* the next event alike.  From a start above i64::MAX they do not: the file answers
\* the whole stream and memory nothing.
MemAgrees ==
  \A s \in Streams : StreamRows(db, s, Kinds) = {r \in history : r.stream = s} =>
    /\ \A q \in Reads :
         /\ Answer(SelectStream(db, s, q.kinds, q.from, q.limit))
              = Answer(Project(mem[s], q.kinds, q.from, q.limit))
         /\ Answer(ReadLast(db, s, q.limit)) = Answer(MemReadLast(mem[s], q.limit))
    /\ HeadSeq(db, s) = MemHead(mem[s]) /\ Length(db, s) = Len(mem[s])
    /\ NextSeq(db, s) = MemNextSeq(mem[s])

\* Plan::OlderThan takes events whose time, as every reader is told it, is before
\* the cutoff, and no other.
OlderIsOlder ==
  [][\A r \in Removals : TrimStored(r) /\ r.plan.shape = "OlderThan" =>
       \A row \in db.events \ db'.events : AsGiven(row.at) < r.plan.at]_storeVars

=============================================================================
