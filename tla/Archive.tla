------------------------------ MODULE Archive ------------------------------
(***************************************************************************)
(* Archiving: history leaves for a sink, page by page, and only what the   *)
(* sink is known to hold is removed.  archive_then_retain and a caller's   *)
(* own export loop are sequences of separate calls on the log - the reach  *)
(* of the plan and the pages come off readers, receipts and confirmations  *)
(* are statements on the writer, the sink is the caller's - and appends,   *)
(* other archives and other removals commit between any two of them.  A    *)
(* call may fail, be dropped or die with its process after any step, and   *)
(* the machine may lose power, which takes back what had not reached the   *)
(* disk (synchronous = NORMAL).  A sink writes lines, or imports each page *)
(* into another log and keeps that log's reports; what it took is on a     *)
(* disk too, and only a writer that syncs has it there when write returns. *)
(***************************************************************************)
EXTENDS LogWriters, ReceiptWalk

CONSTANTS
  Archivers,     \* tasks that archive, each with a sink of its own
  LogSinks,      \* those whose sink is another log; the others write lines
  SyncSinks,     \* those whose lines go to a writer that syncs
  Plans,         \* what they archive
  Exports,       \* pages exported by hand: [from, kinds, whole]
  PageSize,
  Bounds         \* bound: which tasks there are, calls made and power losses

ASSUME ArchiveAssumption ==
  /\ LogSinks \subseteq Archivers
  /\ SyncSinks \subseteq Archivers \ LogSinks
  /\ Plans \subseteq Plan
  /\ Exports \subseteq [from : Nat, kinds : SUBSET Kinds, whole : BOOLEAN]
  /\ \A x \in Exports : x.whole => x.kinds = Kinds
  /\ \A r \in Removals : r.guard = "Exported"
  /\ PageSize \in Nat \ {0}
  /\ Bounds \subseteq [tasks : SUBSET Archivers, calls : Nat, losses : Nat]

VARIABLES
  archiver,    \* per task: the call it is in
  sinks,       \* per task: what its sink holds and lost, and what a LogSink reports
  late,        \* pages on their way into another log, whose caller is gone
  disk,        \* what of the log would survive a power loss
  left         \* what Bounds leave to do

vars == <<db, history, archiver, sinks, late, disk, left>>

CONSTANT NoPlan
ASSUME NoPlanAssumption == NoPlan \notin Plans

Idle == [pc |-> "idle", plan |-> NoPlan, kinds |-> {}, whole |-> FALSE, target |-> 0,
         cursor |-> 0, page |-> {}, id |-> 0]

\* One event in a sink: its place there, and the position it was exported with;
\* 0 is an event this log does not have.
Held == [at : Nat, pos : Nat]

\* LogSink::imported and LogSink::reproduced_coordinates; what is there, what of
\* it would survive a power loss, and the positions a loss took from a writer
\* that does not sync.
Sink == [holds : SUBSET Held, synced : SUBSET Held, lost : SUBSET Nat,
         imported : Nat, reproduced : BOOLEAN]

\* A new sink over a place where something may be already.
NewSink(held, synced, lost) ==
  [holds |-> held, synced |-> synced, lost |-> lost, imported |-> 0, reproduced |-> TRUE]

\* Where the events of a page land: behind everything that is there, in the
\* order of their positions.
Landing(s, page) ==
  {[at |-> Cardinality(s.holds) + Cardinality({q \in page : q.pos <= row.pos}),
    pos |-> row.pos] : row \in page}

Receives(s, page) == [s EXCEPT !.holds = s.holds \cup Landing(s, page)]

\* import's report of a page, kept by the sink.
Reports(s, page) ==
  [s EXCEPT !.imported = @ + Cardinality(page),
            !.reproduced = @ /\ \A h \in Landing(s, page) : h.at = h.pos]

Init ==
  /\ LogInit
  /\ archiver = [a \in Archivers |-> Idle]
  /\ \E there \in {{}, {[at |-> 1, pos |-> 0]}} :
       sinks = [a \in Archivers |-> LET held == IF a \in LogSinks THEN there ELSE {}
                                    IN NewSink(held, held, {})]
  /\ late = {}
  /\ disk = [db |-> db, history |-> history]
  /\ left \in Bounds

sinkVars == <<sinks, late>>

Goes(a, new) == archiver' = [archiver EXCEPT ![a] = new]

At(a, pc) == archiver[a].pc = pc

-----------------------------------------------------------------------------
Calls(a) ==
  /\ At(a, "idle") /\ a \in left.tasks
  /\ left.calls > 0 /\ left' = [left EXCEPT !.calls = @ - 1]

Archive(a, plan) ==
  /\ Calls(a)
  /\ Goes(a, [Idle EXCEPT !.pc = "reach", !.plan = plan, !.kinds = Kinds, !.whole = TRUE])
  /\ UNCHANGED <<logVars, sinkVars, disk>>

\* export_recorded by hand, from wherever the caller likes.
ExportByHand(a, x) ==
  /\ Calls(a)
  /\ Goes(a, [Idle EXCEPT !.pc = "page", !.cursor = x.from, !.kinds = x.kinds,
                          !.whole = x.whole])
  /\ UNCHANGED <<logVars, sinkVars, disk>>

\* plan_reach: how far the plan reaches now.  Nothing to do ends the call.
Reach(a) ==
  /\ At(a, "reach")
  /\ Goes(a, IF Matching(db, archiver[a].plan) = {} THEN Idle
             ELSE [archiver[a] EXCEPT !.pc = "through",
                                      !.target = HighestMatching(db, archiver[a].plan)])
  /\ UNCHANGED <<logVars, sinkVars, disk, left>>

\* while cursor < target
Turn(me, cursor) ==
  [me EXCEPT !.pc = IF cursor < me.target THEN "page" ELSE "apply",
             !.cursor = cursor, !.page = {}, !.id = 0]

Through(a) ==
  /\ At(a, "through")
  /\ Goes(a, Turn(archiver[a], ExportedThrough(db)))
  /\ UNCHANGED <<logVars, sinkVars, disk, left>>

\* The page, off a reader.
ReadPage(a) ==
  LET me == archiver[a] IN
  /\ At(a, "page")
  /\ Goes(a, [me EXCEPT !.pc = "record",
                        !.page = SelectStored(db, me.cursor, me.kinds, Streams, PageSize)])
  /\ UNCHANGED <<logVars, sinkVars, disk, left>>

\* The last position of the page; the start of the range when it is empty.
PageEnd(me) == MaxOrZero({me.cursor} \cup Positions(me.page))

\* Faulty: an empty page records nothing and takes one more turn of the loop.
RecordAndSpin(a) ==
  LET me == archiver[a] IN
  /\ At(a, "record")
  /\ db' = IF me.page # {} THEN RecordReceipt(db, me.cursor, PageEnd(me), me.whole) ELSE db
  /\ Goes(a, IF me.page # {}
             THEN [me EXCEPT !.pc = "sink", !.id = Len(db.receipts) + 1]
             ELSE IF me.plan = NoPlan THEN Idle ELSE Turn(me, me.cursor))
  /\ UNCHANGED <<history, sinkVars, disk, left>>

\* The receipt, on the writer, once the page has been read.  An empty page
\* ends the loop: the log ran dry below the reach.
Record(a) ==
  LET me == archiver[a] IN
  /\ At(a, "record")
  /\ db' = RecordReceipt(db, me.cursor, PageEnd(me), me.whole)
  /\ Goes(a, IF me.page # {}
             THEN [me EXCEPT !.pc = "sink", !.id = Len(db.receipts) + 1]
             ELSE IF me.plan = NoPlan THEN Idle ELSE [me EXCEPT !.pc = "apply"])
  /\ UNCHANGED <<history, sinkVars, disk, left>>

\* All a sink holds is on its disk.
Synced(s) == [s EXCEPT !.synced = s.holds]

\* Faulty: the page is confirmed on its way to the sink.
ConfirmThenWrite(a) ==
  LET me == archiver[a] IN
  /\ At(a, "sink")
  /\ IF db.receipts[me.id].landed
     THEN sinks' = [sinks EXCEPT ![a] = Receives(@, me.page)]
          /\ Goes(a, [me EXCEPT !.pc = "confirm"]) /\ UNCHANGED db
     ELSE db' = ConfirmReceipt(db, me.id) /\ UNCHANGED <<sinks, archiver>>
  /\ UNCHANGED <<history, late, disk, left>>

\* Faulty: the page is reported as it goes out.
ReportThenWrite(a) ==
  LET me == archiver[a] IN
  /\ At(a, "sink")
  /\ sinks' = [sinks EXCEPT ![a] = Reports(@, me.page)]
  /\ Goes(a, [me EXCEPT !.pc = "confirm"])
  /\ UNCHANGED <<logVars, late, disk, left>>

\* The page, written out and flushed, or imported and reported.
WriteSink(a) ==
  LET me == archiver[a] IN
  /\ At(a, "sink")
  /\ sinks' = [sinks EXCEPT ![a] =
                 IF a \in LogSinks THEN Receives(Reports(@, me.page), me.page)
                 ELSE IF a \in SyncSinks THEN Synced(Receives(@, me.page))
                 ELSE Receives(@, me.page)]
  /\ Goes(a, [me EXCEPT !.pc = "confirm"])
  /\ UNCHANGED <<logVars, late, disk, left>>

\* The sink refuses: after some first lines of the page went out, or with
\* nothing of it imported, since that is one transaction.
SinkFails(a) ==
  /\ At(a, "sink")
  /\ \E n \in 0..Cardinality(archiver[a].page) :
       /\ a \in LogSinks => n = 0
       /\ sinks' = [sinks EXCEPT ![a] = Receives(@, Lowest(archiver[a].page, n))]
  /\ Goes(a, Idle)
  /\ UNCHANGED <<logVars, late, disk, left>>

\* confirm_export, and the next turn of the loop.
Confirm(a) ==
  LET me == archiver[a] IN
  /\ At(a, "confirm")
  /\ db' = IF HasReceipt(db, me.id) THEN ConfirmReceipt(db, me.id) ELSE db
  /\ Goes(a, IF me.plan = NoPlan THEN Idle ELSE Turn(me, PageEnd(me)))
  /\ UNCHANGED <<history, sinkVars, disk, left>>

\* Faulty: the removal trusts the loop above it.
ApplyUnguarded(a) ==
  LET plan == archiver[a].plan IN
  /\ At(a, "apply")
  /\ db' = IF Matching(db, plan) # {} THEN RemoveMatching(db, plan) ELSE db
  /\ Goes(a, Idle)
  /\ UNCHANGED <<history, sinkVars, disk, left>>

\* The plan again, under the write lock and Guard::Exported.
Apply(a) ==
  LET plan == archiver[a].plan IN
  /\ At(a, "apply")
  /\ db' = IF RetainAnswer(db, plan, "Exported") = "removed" THEN RemoveMatching(db, plan) ELSE db
  /\ Goes(a, Idle)
  /\ UNCHANGED <<history, sinkVars, disk, left>>

\* A statement fails, or the call is dropped.  An import that was under way is a
\* job of the other log and may still run.
Stops(a) ==
  /\ ~At(a, "idle")
  /\ Goes(a, Idle)
  /\ late' = IF At(a, "sink") /\ a \in LogSinks
             THEN late \cup {[to |-> a, id |-> archiver[a].id, page |-> archiver[a].page]}
             ELSE late
  /\ UNCHANGED <<logVars, sinks, disk, left>>

\* It runs, and nobody takes its report.
Lands(l) ==
  /\ sinks' = [sinks EXCEPT ![l.to] = Receives(@, l.page)]
  /\ late' = late \ {l}
  /\ UNCHANGED <<logVars, archiver, disk, left>>

\* The task's process dies, with its sink and with the jobs of the other log it
\* had open.  It comes back with a new sink over the same place.
Dies(a) ==
  /\ ~At(a, "idle")
  /\ Goes(a, Idle)
  /\ sinks' = [sinks EXCEPT ![a] = NewSink(@.holds, @.synced, @.lost)]
  /\ late' = {l \in late : l.to # a}
  /\ UNCHANGED <<logVars, disk, left>>

\* The write-ahead log reaches the disk.
Sync ==
  /\ left.losses > 0 /\ disk # [db |-> db, history |-> history]
  /\ disk' = [db |-> db, history |-> history]
  /\ UNCHANGED <<logVars, archiver, sinkVars, left>>

\* The system, or a checkpoint of the other log, writes out what a sink took.
SinkSyncs(a) ==
  /\ left.losses > 0 /\ sinks[a].synced # sinks[a].holds
  /\ sinks' = [sinks EXCEPT ![a] = Synced(@)]
  /\ UNCHANGED <<logVars, archiver, late, disk, left>>

\* Faulty: receipts are kept somewhere that loses nothing.
KeepReceipts == [disk.db EXCEPT !.receipts = db.receipts]

Survives == disk.db

\* After a power loss: an event that never was is none of this log's.
Known(held) == {[h EXCEPT !.pos = IF @ \in Positions(disk.history) THEN @ ELSE 0] : h \in held}

\* What a sink without a syncing writer had taken and its disk had not.
Loses(a) ==
  IF a \in SyncSinks THEN {}
  ELSE Positions(disk.history) \cap
         (sinks[a].lost \cup ({h.pos : h \in sinks[a].holds} \ {h.pos : h \in sinks[a].synced}))

\* The machine loses power.  The last commits are gone, and every task with
\* them; of the sinks there is what had reached their disks.
PowerLoss ==
  /\ left.losses > 0 /\ left' = [left EXCEPT !.losses = @ - 1]
  /\ db' = Survives /\ history' = disk.history
  /\ archiver' = [a \in Archivers |-> Idle]
  /\ sinks' = [a \in Archivers |->
       NewSink(Known(sinks[a].synced), Known(sinks[a].synced), Loses(a))]
  /\ late' = {}
  /\ UNCHANGED disk

-----------------------------------------------------------------------------
Step(a) ==
  \/ Reach(a) \/ Through(a) \/ ReadPage(a) \/ Record(a) \/ WriteSink(a) \/ Confirm(a)
  \/ Apply(a)

Others ==
  /\ \/ \E x \in Appends : Write(x)
     \/ \E r \in Removals : Trim(r)
  /\ UNCHANGED <<archiver, sinkVars, disk, left>>

Next ==
  \/ Others \/ Sync \/ PowerLoss
  \/ \E l \in late : Lands(l)
  \/ \E a \in Archivers : \/ Step(a) \/ SinkFails(a) \/ Stops(a) \/ Dies(a) \/ SinkSyncs(a)
                          \/ \E plan \in Plans : Archive(a, plan)
                          \/ \E x \in Exports : ExportByHand(a, x)

Spec == Init /\ [][Next]_vars

\* The caller polls its call, and the sink and the log answer.
FairSpec == Spec /\ \A a \in Archivers : WF_vars(Step(a))

-----------------------------------------------------------------------------
(* What must hold.                                                         *)

Pages == [pc : {"idle", "reach", "through", "page", "record", "sink", "confirm", "apply"},
          plan : Plans \cup {NoPlan}, kinds : SUBSET Kinds, whole : BOOLEAN, target : Nat,
          cursor : Nat, page : SUBSET Row, id : Nat]

\* The shape of the state: a sink whose writer syncs never counts anything as
\* lost, and the page on its way to a sink has a receipt that is not confirmed by
\* anybody else.
TypeOK ==
  /\ LogTypeOK
  /\ archiver \in [Archivers -> Pages]
  /\ sinks \in [Archivers -> Sink]
  /\ \A a \in SyncSinks : sinks[a].lost = {}
  /\ late \subseteq [to : LogSinks, id : Nat, page : SUBSET Row]
  /\ disk \in [db : Tables, history : SUBSET Row]
  /\ left \in [tasks : SUBSET Archivers, calls : Nat, losses : Nat]
  /\ \A a \in Archivers : At(a, "sink") =>
       /\ HasReceipt(db, archiver[a].id)
       /\ db.receipts[archiver[a].id] =
            [from |-> archiver[a].cursor, thr |-> PageEnd(archiver[a]),
             landed |-> FALSE, whole |-> archiver[a].whole]

\* The positions that some sink holds, and those a power loss took from a sink
\* whose writer does not sync; a syncing sink never loses what it confirmed.
Kept == UNION {{h.pos : h \in sinks[a].holds} : a \in Archivers}
Lost == UNION {sinks[a].lost : a \in Archivers}

\* Every event that is gone was shown to a sink first, and is held there still
\* unless that sink's writer does not sync and lost it with the power: no crash,
\* failed sink, concurrent archive or filtered or out-of-order export, and no
\* loss of the log's own last commits, lets a removal under Guard::Exported take
\* any other event.
GoneIsArchived == \A row \in history \ db.events : row.pos \in Kept \cup Lost

\* The chain of confirmed receipts vouches for no other position either,
\* positions without an event left included, also after a power loss took back
\* some receipts and left others.  What it cannot see is a sink that lost a page:
\* the receipt stays.
ChainIsHeld ==
  \A row \in history : row.pos <= ExportedThrough(db) => row.pos \in Kept \cup Lost

\* The walk over the receipts finds the end of the chain, in whatever order pages
\* were recorded and landed, overlapping, doubled and empty ones included.
WalkFindsTheEnd == Walk(Vouching(db)) = ExportedThrough(db)

\* A LogSink whose reports account for everything the other log holds, and that
\* answers reproduced_coordinates, has made a copy position for position: pages
\* that fail, land late or unreported, or are sent again never hide behind it.
ReportIsTruth ==
  \A a \in LogSinks :
    sinks[a].reproduced /\ sinks[a].imported = Cardinality(sinks[a].holds)
      => \A h \in sinks[a].holds : h.at = h.pos

\* A call that is polled ends, also when what it was going to export is removed
\* under it.
ArchiveEnds == \A a \in Archivers : ~At(a, "idle") ~> At(a, "idle")

=============================================================================
