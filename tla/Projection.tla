---------------------------- MODULE Projection -----------------------------
(***************************************************************************)
(* Projection runners.  A runner folds the log into a read model that      *)
(* lives in the same file, a batch to a transaction; the batch, the model  *)
(* rows and the checkpoint commit together.  The transaction is a job on   *)
(* the writer's queue and the projection value travels with it: a runner   *)
(* that is dropped meanwhile frees its name at once, while the job runs    *)
(* on.  A log refuses a second live runner of a name; another log on the   *)
(* same file does not know.  Appends and retention commit between any two  *)
(* transactions.                                                           *)
(***************************************************************************)
EXTENDS LogWakes, Functions

CONSTANTS
  Runners,      \* places a runner may be made
  NameOf,       \* the projection a runner runs; its name keys its checkpoint
  HandleAt,     \* the log it runs on
  VerbsOf,      \* the calls made on it
  KindsOf,      \* Projection::kinds
  Tolerant,     \* projections whose tolerates_truncation is true
  Batch,        \* with_batch
  MaxQueue      \* bound: jobs already at a writer when a call is made

ASSUME RunnersAssumption ==
  /\ NameOf \in [Runners -> Consumers]
  /\ HandleAt \in [Runners -> Handles]
  /\ VerbsOf \in [Runners -> SUBSET {"run_once", "catch_up", "follow", "rebuild"}]
  /\ KindsOf \in [Consumers -> SUBSET Kinds]
  /\ Tolerant \subseteq Consumers
  /\ Batch \in Nat \ {0} /\ MaxQueue \in Nat

CONSTANT Nobody
ASSUME NobodyAssumption == Nobody \notin Runners

VARIABLES
  model,     \* per projection: the positions its read model was fed, in order
  runner,    \* per place: the runner and what it is doing
  queue      \* per log: the runner jobs at its writer

vars == <<db, history, notify, unpublished, model, runner, queue>>

Verbs == {"run_once", "catch_up", "follow", "rebuild"}

\* st: "none", "ready", "busy" (a job is out), "back" (its answer is in),
\* "wait" (a follow is parked), "lost" (the projection was not handed back).
None == [st |-> "none", verb |-> "run_once", seen |-> 0, ans |-> "ok"]

Init ==
  /\ LogInit /\ WakeInit
  /\ model = [c \in Consumers |-> <<>>]
  /\ runner = [r \in Runners |-> None]
  /\ queue = [h \in Handles |-> <<>>]

Channel(r) == notify[HandleAt[r]]

-----------------------------------------------------------------------------
(* What the transactions do to the tables.                                 *)

\* The completeness check of a fold that would start above `cursor`.
Refuses(c, cursor) == c \notin Tolerant /\ ~CompleteFrom(db, cursor)

Cursor(c) == LoadCheckpoint(db, c)

Page(c) == SelectStored(db, Cursor(c), KindsOf[c], Streams, Batch)

\* A short page means everything up to the head was offered.
SeenThrough(c) ==
  LET last == MaxOrZero({Cursor(c)} \cup Positions(Page(c))) IN
  IF Cardinality(Page(c)) = Batch THEN last ELSE MaxOrZero({last, HeadPosition(db)})

\* The positions of a page, in the order the events are applied.
InOrder(rows) == Ascending(Positions(rows))

\* Faulty: the checkpoint has a transaction of its own, which may not come.
FoldOnly(c) ==
  /\ model' = [model EXCEPT ![c] = @ \o InOrder(Page(c))]
  /\ \/ db' = SaveCheckpoint(db, c, SeenThrough(c))
     \/ UNCHANGED db

\* One batch: applied, and the cursor moved, in one transaction.
Fold(c) ==
  /\ model' = [model EXCEPT ![c] = @ \o InOrder(Page(c))]
  /\ db' = IF SeenThrough(c) > Cursor(c) THEN SaveCheckpoint(db, c, SeenThrough(c)) ELSE db

\* reset, init and the rewind of a rebuild, in one transaction.
Reset(c) == model' = [model EXCEPT ![c] = <<>>] /\ db' = SaveCheckpoint(db, c, 0)

-----------------------------------------------------------------------------
(* The runner's side.                                                      *)

Sets(r, new) == runner' = [runner EXCEPT ![r] = new]

Submit(r, op) ==
  queue' = [queue EXCEPT ![HandleAt[r]] =
              Append(@, [owner |-> r, name |-> NameOf[r], op |-> op])]

\* ProjectionRunner::new: refused while a live runner of this log has the name.
Make(r) ==
  /\ runner[r].st = "none"
  /\ \A q \in Runners : runner[q].st # "none" /\ HandleAt[q] = HandleAt[r] => NameOf[q] # NameOf[r]
  /\ Sets(r, [None EXCEPT !.st = "ready"])
  /\ UNCHANGED <<logVars, wakeVars, model, queue>>

\* A call: its first job is queued; a follow has subscribed and marked before.
Begin(r, verb) ==
  /\ runner[r].st = "ready" /\ Len(queue[HandleAt[r]]) < MaxQueue
  /\ Sets(r, [None EXCEPT !.st = "busy", !.verb = verb,
                          !.seen = IF verb = "follow" THEN Channel(r) ELSE 0])
  /\ Submit(r, IF verb = "rebuild" THEN "reset" ELSE "fold")
  /\ UNCHANGED <<logVars, wakeVars, model>>

\* What the loops do with an answer: another batch while the last one applied
\* something.
More(me) ==
  \/ me.verb \in {"catch_up", "follow"} /\ me.ans = "applied"
  \/ me.verb = "rebuild" /\ me.ans = "ok"

GoOn(r) ==
  /\ runner[r].st = "back" /\ More(runner[r])
  /\ Sets(r, [runner[r] EXCEPT !.st = "busy", !.ans = "ok",
                               !.verb = IF @ = "rebuild" THEN "catch_up" ELSE @])
  /\ Submit(r, "fold")
  /\ UNCHANGED <<logVars, wakeVars, model>>

\* Faulty: the channel is marked after the reads.
ParkMarked(r) ==
  /\ runner[r].st = "back" /\ runner[r].verb = "follow" /\ runner[r].ans = "ok"
  /\ Sets(r, [runner[r] EXCEPT !.st = "wait", !.seen = Channel(r)])
  /\ UNCHANGED <<logVars, wakeVars, model, queue>>

\* A follow that is caught up parks.
Park(r) ==
  /\ runner[r].st = "back" /\ runner[r].verb = "follow" /\ runner[r].ans = "ok"
  /\ Sets(r, [runner[r] EXCEPT !.st = "wait"])
  /\ UNCHANGED <<logVars, wakeVars, model, queue>>

\* The call returns: done, or its first error.  A panic took the projection.
Finish(r) ==
  LET me == runner[r] IN
  /\ me.st = "back" /\ ~More(me)
  /\ me.verb = "follow" => me.ans # "ok"
  /\ Sets(r, [None EXCEPT !.st = IF me.ans = "lost" THEN "lost" ELSE "ready"])
  /\ UNCHANGED <<logVars, wakeVars, model, queue>>

\* Faulty: a follow looks again only when it is woken.
OnlyWhenWoken(r) ==
  /\ runner[r].st = "wait" /\ runner[r].seen # Channel(r)
  /\ Sets(r, [runner[r] EXCEPT !.st = "busy", !.seen = Channel(r)])
  /\ Submit(r, "fold")
  /\ UNCHANGED <<logVars, wakeVars, model>>

\* A wake-up, or the poll interval: the next round marks, then reads.
NextRound(r) ==
  /\ runner[r].st = "wait"
  /\ Sets(r, [runner[r] EXCEPT !.st = "busy", !.seen = Channel(r)])
  /\ Submit(r, "fold")
  /\ UNCHANGED <<logVars, wakeVars, model>>

\* Faulty: the job a dropped runner has out is still its own.
DropForgets(r) ==
  /\ runner[r].st # "none"
  /\ Sets(r, None)
  /\ UNCHANGED <<logVars, wakeVars, model, queue>>

\* A job whose caller is gone belongs to nobody, and still runs.
Disown(r) ==
  queue' = [queue EXCEPT ![HandleAt[r]] =
              [i \in DOMAIN @ |-> IF @[i].owner = r THEN [@[i] EXCEPT !.owner = Nobody]
                                  ELSE @[i]]]

\* The future of a call is dropped.  Parked, a follow leaves the runner as it
\* was; with a job out the projection has travelled into it, and is lost.
Abandon(r) ==
  /\ runner[r].st \in {"busy", "back", "wait"}
  /\ Sets(r, [None EXCEPT !.st = IF runner[r].st = "wait" THEN "ready" ELSE "lost"])
  /\ Disown(r)
  /\ UNCHANGED <<logVars, wakeVars, model>>

\* The runner is dropped, with a call in flight or without: its name is free.
Drop(r) ==
  /\ runner[r].st # "none"
  /\ Sets(r, None)
  /\ Disown(r)
  /\ UNCHANGED <<logVars, wakeVars, model>>

-----------------------------------------------------------------------------
(* The writer's side.                                                      *)

Answered(h, ans) ==
  LET owner == Head(queue[h]).owner IN
  /\ queue' = [queue EXCEPT ![h] = Tail(@)]
  /\ IF owner = Nobody THEN UNCHANGED runner
     ELSE Sets(owner, [runner[owner] EXCEPT !.st = "back", !.ans = ans])
  /\ UNCHANGED <<history, wakeVars>>

Job(h, op) == queue[h] # <<>> /\ Head(queue[h]).op = op

\* run_once's transaction.
RunBatch(h) ==
  LET c == Head(queue[h]).name IN
  /\ Job(h, "fold")
  /\ IF Refuses(c, Cursor(c))
     THEN Answered(h, "refused") /\ UNCHANGED <<db, model>>
     ELSE Fold(c) /\ Answered(h, IF Page(c) = {} THEN "ok" ELSE "applied")

\* Faulty: a rebuild empties the model and leaves it to the replay to find out.
ResetUnchecked(h) ==
  LET c == Head(queue[h]).name IN
  Job(h, "reset") /\ Reset(c) /\ Answered(h, "ok")

\* rebuild's first transaction.
RunReset(h) ==
  LET c == Head(queue[h]).name IN
  /\ Job(h, "reset")
  /\ IF Refuses(c, 0)
     THEN Answered(h, "refused") /\ UNCHANGED <<db, model>>
     ELSE Reset(c) /\ Answered(h, "ok")

\* The transaction rolls back: apply failed, the file was busy, or the
\* projection panicked and is gone.
RollsBack(h, ans) ==
  /\ queue[h] # <<>>
  /\ Answered(h, ans)
  /\ UNCHANGED <<db, model>>

\* The process dies.
Crash(h) ==
  /\ queue' = [queue EXCEPT ![h] = <<>>]
  /\ runner' = [r \in Runners |-> IF HandleAt[r] = h THEN None ELSE runner[r]]
  /\ unpublished' = [unpublished EXCEPT ![h] = {}]
  /\ UNCHANGED <<logVars, notify, model>>

-----------------------------------------------------------------------------
RunnerStep(r) == GoOn(r) \/ Park(r) \/ Finish(r) \/ NextRound(r)

WriterStep(h) == RunBatch(h) \/ RunReset(h)

Next ==
  \/ Writers /\ UNCHANGED <<model, runner, queue>>
  \/ \E r \in Runners : \/ Make(r) \/ RunnerStep(r) \/ Abandon(r) \/ Drop(r)
                        \/ \E verb \in VerbsOf[r] : Begin(r, verb)
  \/ \E h \in Handles : \/ WriterStep(h) \/ Crash(h)
                        \/ \E ans \in {"failed", "lost"} : RollsBack(h, ans)

Spec == Init /\ [][Next]_vars

\* Writers serve their queues and runners that are polled go on.
FairSpec ==
  /\ Spec
  /\ \A r \in Runners : WF_vars(RunnerStep(r))
  /\ \A h \in Handles : WF_vars(WriterStep(h))

-----------------------------------------------------------------------------
(* What must hold.                                                         *)

\* The shape of the state: a runner waits for a job of its own, or has none out.
TypeOK ==
  /\ WakeTypeOK
  /\ model \in [Consumers -> Seq(Nat)]
  /\ runner \in [Runners -> [st : {"none", "ready", "busy", "back", "wait", "lost"},
                             verb : Verbs, seen : Nat,
                             ans : {"ok", "applied", "refused", "failed", "lost"}]]
  /\ queue \in [Handles -> Seq([owner : Runners \cup {Nobody}, name : Consumers,
                                op : {"fold", "reset"}])]
  /\ \A h \in Handles : \A i \in DOMAIN queue[h] :
       queue[h][i].owner # Nobody => runner[queue[h][i].owner].st = "busy"

\* What a projection was due up to its cursor.
Due(c, rows) == {row.pos : row \in {q \in rows : q.kind \in KindsOf[c] /\ q.pos <= Cursor(c)}}

\* A read model and its cursor agree, always: the model was fed, in order and
\* once each, exactly the events of its kinds up to the cursor, out of the
\* whole history and not of what retention left.  Only a projection that says
\* it tolerates truncation may miss some, and then only removed ones.
ExactlyOnce ==
  \A c \in Consumers :
    LET fed == Range(model[c]) IN
    /\ \A i, j \in DOMAIN model[c] : i < j => model[c][i] < model[c][j]
    /\ fed \subseteq Due(c, history)
    /\ Due(c, IF c \in Tolerant THEN db.events ELSE history) \subseteq fed

\* A projection that has saved a cursor can always go on from it.  Only a
\* forced removal strands one: no guarded removal does, whether it meets the
\* projection between batches or in the middle of a rebuild, and no batch moves
\* a cursor to where the next one is refused.
Stranded(c) == db.ckpt[c] # NoRow /\ Refuses(c, Cursor(c))

OnlyForceStrands ==
  [][(\E c \in Consumers : ~Stranded(c) /\ Stranded(c)')
       => \E r \in Removals : r.guard = "Force" /\ Trim(r)]_vars

\* Another log's runner of the same name may rewind the cursor they share.
Rewound(r) ==
  \E q \in Runners : NameOf[q] = NameOf[r] /\ HandleAt[q] # HandleAt[r] /\ "rebuild" \in VerbsOf[q]

\* A follow that is parked with nothing to wake it has folded every event of
\* its kinds that its log has published, whatever its wake-ups and its reads
\* crossed.  (A rewind by another log's runner of the
\* name wakes nobody, and is left to the poll interval.)
FollowIsCurrent ==
  \A r \in Runners :
    LET c == NameOf[r] IN
    runner[r].st = "wait" /\ runner[r].seen = Channel(r) /\ ~Rewound(r)
      => \A row \in db.events :
           row.kind \in KindsOf[c] /\ row.pos <= Channel(r) => row.pos <= Cursor(c)

Following(r) == runner[r].verb = "follow" /\ runner[r].st \in {"busy", "back", "wait"}

\* A runner that follows, and keeps following, folds whatever commits, through
\* whichever log.
EventuallyFolded ==
  \A r \in Runners : \A p \in 1..MaxEvents :
    (Following(r) /\ \E row \in db.events : row.pos = p)
      ~> (Cursor(NameOf[r]) >= p \/ ~(\E row \in db.events : row.pos = p) \/ ~Following(r))

=============================================================================
