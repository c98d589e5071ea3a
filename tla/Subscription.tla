--------------------------- MODULE Subscription ----------------------------
(***************************************************************************)
(* subscribe and replay: the one loop `paged` is.  A stream keeps a cursor *)
(* and nothing else between pages.  A tailing stream reads the head, then  *)
(* a page above the cursor, on reader connections that see whatever has    *)
(* committed by then; it hands the page to its consumer one event at a     *)
(* time, and after a short page jumps to the head it read first and parks  *)
(* until a wake-up or the poll interval.  A replay ends at the first short *)
(* page.  Commits, wake-ups and removals happen between any two steps.     *)
(***************************************************************************)
EXTENDS LogWakes, Functions

CONSTANTS
  Readers,       \* consumers, each with at most one stream at a time
  HandleAt,      \* the log a consumer's stream is opened on
  FilterOf,      \* what it asks for: [kinds, streams]
  Origins,       \* where a consumer may start
  Batch          \* log.rs: BATCH

ASSUME ReadersAssumption ==
  /\ HandleAt \in [Readers -> Handles]
  /\ FilterOf \in [Readers -> [kinds : SUBSET Kinds, streams : SUBSET Streams]]
  /\ Origins \subseteq Nat
  /\ Batch \in Nat \ {0}

VARIABLES
  reader,    \* per consumer: its stream
  got        \* per consumer: the positions it was handed, in order

vars == <<db, history, notify, unpublished, reader, got>>

Closed == [pc |-> "new", tails |-> FALSE, origin |-> 0, cursor |-> 0, head |-> 0,
           page |-> {}, full |-> FALSE, seen |-> 0, asof |-> 0]

Init ==
  /\ LogInit /\ WakeInit
  /\ reader = [r \in Readers |-> Closed]
  /\ got = [r \in Readers |-> <<>>]

Wanted(r, row) == row.kind \in FilterOf[r].kinds /\ row.stream \in FilterOf[r].streams

Channel(r) == notify[HandleAt[r]]

Handed(r) == Range(got[r])

\* Where the loop starts a round: a replay never asks for the head.
Round(tails) == IF tails THEN "head" ELSE "page"

Reads(r, new) ==
  /\ reader' = [reader EXCEPT ![r] = new]
  /\ UNCHANGED <<logVars, wakeVars>>

\* A consumer opens a stream, to tail the log or to replay it: the first one at
\* an origin of its choice, a later one after the last event it was handed.
Open(r, tails, origin) ==
  LET me == reader[r] IN
  /\ me.pc \in {"new", "ended", "failed"}
  /\ me.pc = "new" \/ origin = me.origin
  /\ Reads(r, [Closed EXCEPT !.pc = Round(tails), !.tails = tails, !.origin = origin,
                             !.cursor = MaxOrZero({origin} \cup Handed(r)),
                             !.seen = Channel(r), !.asof = IF tails THEN 0 ELSE db.autoinc])
  /\ UNCHANGED got

ReadHead(r) ==
  /\ reader[r].pc = "head"
  /\ Reads(r, [reader[r] EXCEPT !.head = HeadPosition(db), !.pc = "page"])
  /\ UNCHANGED got

PageAt(cursor, r) ==
  SelectStored(db, cursor, FilterOf[r].kinds, FilterOf[r].streams, Batch)

\* Faulty: the head is asked for once the batch is in.
PageThenHead(r) ==
  LET page == PageAt(reader[r].cursor, r) IN
  /\ reader[r].pc \in {"page", "late"}
  /\ IF reader[r].pc = "page"
     THEN Reads(r, [reader[r] EXCEPT !.page = page, !.full = Cardinality(page) = Batch,
                                     !.pc = "late"])
     ELSE Reads(r, [reader[r] EXCEPT !.head = HeadPosition(db), !.pc = "hand"])
  /\ UNCHANGED got

ReadPage(r) ==
  LET page == PageAt(reader[r].cursor, r) IN
  /\ reader[r].pc = "page"
  /\ Reads(r, [reader[r] EXCEPT !.page = page, !.full = Cardinality(page) = Batch,
                                !.pc = "hand"])
  /\ UNCHANGED got

\* Faulty: the cursor stays where the page began until the page is done.
HandWithoutCursor(r) ==
  LET me == reader[r] IN
  /\ me.pc = "hand" /\ me.page # {}
  /\ LET next == CHOOSE row \in me.page : \A q \in me.page : row.pos <= q.pos IN
     /\ Reads(r, [me EXCEPT !.page = @ \ {next}])
     /\ got' = [got EXCEPT ![r] = Append(@, next.pos)]

\* One event to the consumer, and the cursor behind it.
Hand(r) ==
  LET me == reader[r] IN
  /\ me.pc = "hand" /\ me.page # {}
  /\ LET next == CHOOSE row \in me.page : \A q \in me.page : row.pos <= q.pos IN
     /\ Reads(r, [me EXCEPT !.page = @ \ {next}, !.cursor = next.pos])
     /\ got' = [got EXCEPT ![r] = Append(@, next.pos)]

\* The round is over: its head and its page go out of scope.
Over(me, pc, cursor) ==
  [me EXCEPT !.pc = pc, !.cursor = cursor, !.head = 0, !.page = {}, !.full = FALSE]

\* The page is used up.  Full: read on.
ReadOn(r) ==
  LET me == reader[r] IN
  /\ me.pc = "hand" /\ me.page = {} /\ me.full
  /\ Reads(r, Over(me, Round(me.tails), me.cursor))
  /\ UNCHANGED got

\* Faulty: a replay ends with its first page.
EndOnAnyPage(r) ==
  LET me == reader[r] IN
  /\ me.pc = "hand" /\ me.page = {} /\ ~me.tails
  /\ Reads(r, Over(me, "ended", me.cursor))
  /\ UNCHANGED got

\* Short, for a replay: the end.
End(r) ==
  LET me == reader[r] IN
  /\ me.pc = "hand" /\ me.page = {} /\ ~me.full /\ ~me.tails
  /\ Reads(r, Over(me, "ended", me.cursor))
  /\ UNCHANGED got

\* Faulty: the channel is marked on the way into the wait, after the reads.
ParkMarked(r) ==
  LET me == reader[r] IN
  /\ me.pc = "hand" /\ me.page = {} /\ ~me.full /\ me.tails
  /\ Reads(r, [Over(me, "wait", MaxOrZero({me.cursor, me.head})) EXCEPT !.seen = Channel(r)])
  /\ UNCHANGED got

\* Short, for a subscription: everything up to the head was looked at.
Park(r) ==
  LET me == reader[r] IN
  /\ me.pc = "hand" /\ me.page = {} /\ ~me.full /\ me.tails
  /\ Reads(r, Over(me, "wait", MaxOrZero({me.cursor, me.head})))
  /\ UNCHANGED got

\* changed() returns at once when a value was published since the last mark,
\* and marks it.
Woken(r) ==
  /\ reader[r].pc = "wait" /\ reader[r].seen # Channel(r)
  /\ Reads(r, [reader[r] EXCEPT !.pc = "head", !.seen = Channel(r)])
  /\ UNCHANGED got

\* Faulty: nothing but a wake-up ends the wait.
NoInterval(r) ==
  /\ reader[r].pc = "wait" /\ reader[r].seen # Channel(r)
  /\ Reads(r, [reader[r] EXCEPT !.pc = "head"])
  /\ UNCHANGED got

\* The poll interval elapses first.
Interval(r) ==
  /\ reader[r].pc = "wait"
  /\ Reads(r, [reader[r] EXCEPT !.pc = "head"])
  /\ UNCHANGED got

\* A read fails: the stream yields the error and ends.  Or the consumer drops
\* the stream, a half-handed page with it.
Fail(r) ==
  /\ reader[r].pc \in {"head", "page"}
  /\ Reads(r, Over(reader[r], "failed", reader[r].cursor))
  /\ UNCHANGED got

Drop(r) ==
  /\ reader[r].pc \in {"head", "page", "hand", "wait"}
  /\ Reads(r, Over(reader[r], "failed", reader[r].cursor))
  /\ UNCHANGED got

Stream(r) ==
  \/ ReadHead(r) \/ ReadPage(r) \/ Hand(r) \/ ReadOn(r) \/ End(r) \/ Park(r)
  \/ Woken(r) \/ Interval(r)

Next ==
  \/ Writers /\ UNCHANGED <<reader, got>>
  \/ \E r \in Readers : \/ Stream(r) \/ Fail(r) \/ Drop(r)
                        \/ \E tails \in BOOLEAN, origin \in Origins : Open(r, tails, origin)

Spec == Init /\ [][Next]_vars

\* The consumer keeps polling its stream, and the timer fires.  Nobody has to
\* write, publish, open a stream or fail.
FairSpec == Spec /\ \A r \in Readers : WF_vars(Stream(r))

-----------------------------------------------------------------------------
(* What must hold.                                                         *)

\* The shape of the state; a page is in hand only while it is being handed out,
\* and a replay never waits and never asks for the head.
TypeOK ==
  /\ WakeTypeOK
  /\ \A r \in Readers : /\ reader[r].page # {} => reader[r].pc = "hand"
                        /\ reader[r].pc \in {"head", "wait"} => reader[r].tails
  /\ reader \in [Readers -> [pc : {"new", "head", "page", "hand", "wait", "ended", "failed"},
                             tails : BOOLEAN, origin : Nat, cursor : Nat, head : Nat,
                             page : SUBSET Row, full : BOOLEAN, seen : Nat, asof : Nat]]
  /\ got \in [Readers -> Seq(Nat)]

\* A consumer is handed events in the order of the log and none of them twice,
\* over all the streams it opens.
InOrderOnce ==
  \A r \in Readers : \A i, j \in DOMAIN got[r] : i < j => got[r][i] < got[r][j]

Asks(r, row) == Wanted(r, row) /\ reader[r].origin < row.pos

\* Everything in the log up to n that the consumer asks for, it was handed.
HandedUpTo(r, n) ==
  \A row \in db.events : Asks(r, row) /\ row.pos <= n => row.pos \in Handed(r)

\* What the cursor has passed is settled: every event it asks for and that is
\* still in the log was handed out, whatever committed or was removed between
\* the head, the page and the jump to the head.
NothingSkipped == \A r \in Readers : HandedUpTo(r, reader[r].cursor)

\* No lost wake-up: a stream that is parked with nothing to wake it has handed
\* out every event its log has published.
NoLostWake ==
  \A r \in Readers :
    reader[r].pc = "wait" /\ reader[r].seen = Channel(r) => HandedUpTo(r, Channel(r))

\* A replay that ended reports the log as it was: nothing it asks for that was
\* committed when it was opened, and is still there, is missing.
ReplayIsWhole ==
  \A r \in Readers : reader[r].pc = "ended" => HandedUpTo(r, reader[r].asof)

Live(p) == \E row \in db.events : row.pos = p

AskedFor(r, p) == \E row \in db.events : row.pos = p /\ Asks(r, row)

Tailing(r) == reader[r].tails /\ reader[r].pc \in {"head", "page", "hand", "wait"}

\* A running subscription is handed every event it asks for, including those
\* committed through another log, which nobody wakes it for, unless retention
\* takes the event first.
EventuallyHanded ==
  \A r \in Readers : \A p \in 1..MaxEvents :
    (Tailing(r) /\ AskedFor(r, p)) ~> (p \in Handed(r) \/ ~Live(p) \/ ~Tailing(r))

=============================================================================
