----------------------------- MODULE WritePath -----------------------------
(***************************************************************************)
(* How an append reaches the file.  A handle is one open SqliteEventLog:   *)
(* its writer connection lives on one thread (the isle) that takes jobs    *)
(* off a queue, one at a time.  Several handles, in one process or in      *)
(* several, may be open on one file; SQLite's write lock is what they      *)
(* share.  A job opens an IMMEDIATE transaction, so it holds that lock     *)
(* from BEGIN to COMMIT; a handle that finds the lock taken for longer     *)
(* than busy_timeout gets Busy.  The caller awaits the job's answer on the *)
(* async side: there the retry loop of write_retrying runs, and there,     *)
(* after the commit and as a step of its own, subscribers are woken.       *)
(***************************************************************************)
EXTENDS LogTables

CONSTANTS
  Handles,          \* open logs on the file
  Clients,          \* tasks that make calls
  HandleOf,         \* which handle a client's store belongs to
  Requests,         \* the calls a client may make
  Detachable,       \* the appends that may be queued without waiting
  MaxBusyRetries,   \* shared.rs: MAX_BUSY_RETRIES
  MaxCalls,         \* bound: calls made in a behaviour
  SwallowErrors,    \* a transaction closure may ignore an import's error
  None

\* What a transaction's closure hands to append_many, for one stream, or to
\* import_many; ok is whether import_many would accept the event.
Item == [stream : Streams, kind : Kinds, at : Times, ok : BOOLEAN]
TxnCall ==
  {call \in [verb : {"append", "import"}, items : Seq(Item) \ {<<>>}] :
     call.verb = "append" => \A i \in DOMAIN call.items : call.items[i].stream = call.items[1].stream}

Request ==
  [op : {"append"}, stream : Streams, run : Run]
    \cup [op : {"expect"}, stream : Streams, expected : Int, run : Run]
    \cup [op : {"decide"}, stream : Streams, kinds : SUBSET Kinds, run : Run]
    \cup [op : {"retain"}, plan : Plan, guard : Guards]
    \cup [op : {"txn"}, calls : Seq(TxnCall)]

ASSUME RequestsAssumption == Requests \subseteq Request /\ Detachable \subseteq Requests
ASSUME HandleOfAssumption == HandleOf \in [Clients -> Handles]
ASSUME BoundsAssumption ==
  MaxBusyRetries \in Nat /\ MaxCalls \in Nat /\ SwallowErrors \in BOOLEAN
ASSUME NoneAssumption == None \notin Handles /\ None \notin Clients

VARIABLES
  db,        \* the committed tables
  history,   \* every row ever committed
  lock,      \* the handle whose transaction is open, or None
  queue,     \* per handle: jobs the isle has not taken yet
  txn,       \* per handle: the job it is running and its working tables
  task,      \* per client: where its call is
  notify,    \* per handle: the watch channel's value
  mode,      \* per handle: "open", "draining", "closed"
  ids        \* how many calls have been made

vars == <<db, history, lock, queue, txn, task, notify, mode, ids>>

Idle == [st |-> "idle", id |-> 0, req |-> None, tries |-> 0, ans |-> None]
Asked(id, req) == [st |-> "waiting", id |-> id, req |-> req, tries |-> 0, ans |-> None]

Answer(tag) == [tag |-> tag, positions |-> {}]
Landed(positions) == [tag |-> "ok", positions |-> positions]

\* Nothing is cached for a stream an import has not met yet.
Unseen == [s \in Streams |-> 0]

Start(job) == [job |-> job, tables |-> db, phase |-> "open", call |-> 1, item |-> 1,
               seen |-> Unseen, pub |-> {}, ans |-> None]

Init ==
  /\ db = EmptyTables
  /\ history = {}
  /\ lock = None
  /\ queue = [h \in Handles |-> <<>>]
  /\ txn = [h \in Handles |-> None]
  /\ task = [c \in Clients |-> Idle]
  /\ notify = [h \in Handles |-> 0]
  /\ mode = [h \in Handles |-> "open"]
  /\ ids = 0

-----------------------------------------------------------------------------
(* The caller's side.                                                      *)

Enqueue(h, job) == queue' = [queue EXCEPT ![h] = Append(@, job)]

\* A call queues its job and starts to wait.
Call(c, req) ==
  LET h == HandleOf[c] IN
  /\ task[c] = Idle
  /\ mode[h] = "open"
  /\ ids < MaxCalls
  /\ ids' = ids + 1
  /\ task' = [task EXCEPT ![c] = Asked(ids + 1, req)]
  /\ Enqueue(h, [id |-> ids + 1, client |-> c, req |-> req])
  /\ UNCHANGED <<db, history, lock, txn, notify, mode>>

\* detach_append: onto the same queue, and nobody waits.
Detach(h, req) ==
  /\ mode[h] = "open"
  /\ ids < MaxCalls
  /\ ids' = ids + 1
  /\ Enqueue(h, [id |-> ids + 1, client |-> None, req |-> req])
  /\ UNCHANGED <<db, history, lock, txn, task, notify, mode>>

\* The call has its answer.
Settle(c, ans) == task' = [task EXCEPT ![c] = [task[c] EXCEPT !.st = "answered", !.ans = ans]]

\* The calls that go through write_retrying.  A decision and a transaction
\* closure are FnOnce, and retain has no loop around it.
Retried(req) == req # None /\ req.op \in {"append", "expect"}

\* Faulty: the bound is tested after the attempt it should prevent.
RetriesOnceMore(t) ==
  t.st = "answered" /\ t.ans.tag = "busy" /\ Retried(t.req) /\ t.tries <= MaxBusyRetries

WillRetry(t) ==
  t.st = "answered" /\ t.ans.tag = "busy" /\ Retried(t.req) /\ t.tries < MaxBusyRetries

BackOff(c) ==
  /\ WillRetry(task[c])
  /\ task' = [task EXCEPT ![c] = [task[c] EXCEPT !.st = "backoff", !.tries = @ + 1,
                                                !.ans = None]]
  /\ UNCHANGED <<db, history, lock, queue, txn, notify, mode, ids>>

\* Faulty: the job of the first attempt was consumed, and nothing is queued.
ResubmitLost(c) ==
  /\ task[c].st = "backoff"
  /\ task' = [task EXCEPT ![c] = [task[c] EXCEPT !.st = "waiting"]]
  /\ UNCHANGED <<db, history, lock, queue, txn, notify, mode, ids>>

\* After the sleep the job is built afresh and joins the queue at its tail.
Resubmit(c) ==
  LET h == HandleOf[c] IN
  /\ task[c].st = "backoff"
  /\ IF mode[h] = "open"
     THEN /\ task' = [task EXCEPT ![c] = [task[c] EXCEPT !.st = "waiting"]]
          /\ Enqueue(h, [id |-> task[c].id, client |-> c, req |-> task[c].req])
     ELSE /\ Settle(c, Answer("closed"))
          /\ UNCHANGED queue
  /\ UNCHANGED <<db, history, lock, txn, notify, mode, ids>>

\* Faulty: the channel takes whatever was published last.
PublishLatest(h, positions) ==
  notify' = [notify EXCEPT ![h] = IF positions = {} THEN @ ELSE MaxOrZero(positions)]

\* publish: only ever forward.
Publish(h, positions) ==
  notify' = [notify EXCEPT ![h] = MaxOrZero({@} \cup positions)]

\* The answer is final: wake subscribers if something landed, and return.
Return(c) ==
  /\ task[c].st = "answered" /\ ~WillRetry(task[c])
  /\ Publish(HandleOf[c], task[c].ans.positions)
  /\ task' = [task EXCEPT ![c] = Idle]
  /\ UNCHANGED <<db, history, lock, queue, txn, mode, ids>>

\* A job once nobody awaits its answer.
Orphaned(job, c) == IF job.client = c THEN [job EXCEPT !.client = None] ELSE job

\* The caller's future is dropped.  The job is the isle's and still runs.
Cancel(c) ==
  LET h == HandleOf[c] IN
  /\ task[c] # Idle
  /\ task' = [task EXCEPT ![c] = Idle]
  /\ queue' = [queue EXCEPT ![h] = [i \in DOMAIN queue[h] |-> Orphaned(queue[h][i], c)]]
  /\ txn' = [txn EXCEPT ![h] =
               IF txn[h] = None THEN None
               ELSE [txn[h] EXCEPT !.job = Orphaned(txn[h].job, c)]]
  /\ UNCHANGED <<db, history, lock, notify, mode, ids>>

-----------------------------------------------------------------------------
(* The isle's side: one job at a time, in queue order.                     *)

Reply(job, ans) ==
  IF job.client = None THEN task' = task ELSE Settle(job.client, ans)

\* Faulty: a deferred BEGIN takes its snapshot without the write lock.
BeginDeferred(h) ==
  /\ txn[h] = None /\ queue[h] # <<>>
  /\ lock' = h
  /\ txn' = [txn EXCEPT ![h] = Start(Head(queue[h]))]
  /\ queue' = [queue EXCEPT ![h] = Tail(@)]
  /\ UNCHANGED <<db, history, task, notify, mode, ids>>

\* Faulty: a handle that is shutting down takes nothing more off its queue.
BeginWhileOpen(h) ==
  /\ mode[h] = "open"
  /\ txn[h] = None /\ queue[h] # <<>>
  /\ lock = None
  /\ lock' = h
  /\ txn' = [txn EXCEPT ![h] = Start(Head(queue[h]))]
  /\ queue' = [queue EXCEPT ![h] = Tail(@)]
  /\ UNCHANGED <<db, history, task, notify, mode, ids>>

\* BEGIN IMMEDIATE with the lock free.
Begin(h) ==
  /\ txn[h] = None /\ queue[h] # <<>>
  /\ lock = None
  /\ lock' = h
  /\ txn' = [txn EXCEPT ![h] = Start(Head(queue[h]))]
  /\ queue' = [queue EXCEPT ![h] = Tail(@)]
  /\ UNCHANGED <<db, history, task, notify, mode, ids>>

\* BEGIN IMMEDIATE with another connection's transaction open for longer than
\* busy_timeout.
Contend(h) ==
  /\ txn[h] = None /\ queue[h] # <<>>
  /\ lock # None
  /\ queue' = [queue EXCEPT ![h] = Tail(@)]
  /\ Reply(Head(queue[h]), Answer("busy"))
  /\ UNCHANGED <<db, history, lock, txn, notify, mode, ids>>

\* The transaction is dropped uncommitted and the job answers.
Rollback(h, ans) ==
  /\ lock' = None
  /\ txn' = [txn EXCEPT ![h] = None]
  /\ Reply(txn[h].job, ans)
  /\ UNCHANGED <<db, history, queue, notify, mode, ids>>

\* Faulty: the job publishes what it inserted before it commits.
StageAndPublish(h, tables, ans) ==
  /\ txn' = [txn EXCEPT ![h] = [txn[h] EXCEPT !.tables = tables, !.phase = "ready",
                                              !.ans = ans]]
  /\ Publish(h, ans.positions)
  /\ UNCHANGED <<db, history, lock, queue, task, mode, ids>>

\* The statements ran; what remains is COMMIT.
Stage(h, tables, ans) ==
  /\ txn' = [txn EXCEPT ![h] = [txn[h] EXCEPT !.tables = tables, !.phase = "ready",
                                              !.ans = ans]]
  /\ UNCHANGED <<db, history, lock, queue, task, notify, mode, ids>>

Running(h, op) ==
  txn[h] # None /\ txn[h].phase = "open" /\ txn[h].job.req.op = op

\* Counter read, stamp, inserts, counter write.
AppendOrFail(h, s, run) ==
  LET d == txn[h].tables IN
  IF RunTaken(d, s, run)
  THEN Rollback(h, Answer("failed"))
  ELSE Stage(h, AppendRun(d, s, run), Landed(Positions(RunRows(d, s, run))))

ExecAppend(h) ==
  LET req == txn[h].job.req IN
  /\ Running(h, "append")
  /\ AppendOrFail(h, req.stream, req.run)

ExecExpect(h) ==
  LET req == txn[h].job.req IN
  /\ Running(h, "expect")
  /\ IF CounterHead(txn[h].tables, req.stream) = req.expected
     THEN AppendOrFail(h, req.stream, req.run)
     ELSE Rollback(h, Answer("mismatch"))

\* A decision that records its event only if the rows it is shown are none.
ExecDecide(h) ==
  LET req == txn[h].job.req IN
  /\ Running(h, "decide")
  /\ IF StreamRows(txn[h].tables, req.stream, req.kinds) = {}
     THEN AppendOrFail(h, req.stream, req.run)
     ELSE Rollback(h, Answer("none"))

ExecRetain(h) ==
  LET req == txn[h].job.req
      ans == RetainAnswer(txn[h].tables, req.plan, req.guard) IN
  /\ Running(h, "retain")
  /\ IF ans = "removed"
     THEN Stage(h, RemoveMatching(txn[h].tables, req.plan), Answer("removed"))
     ELSE Rollback(h, Answer(ans))

Commit(h) ==
  /\ txn[h] # None /\ txn[h].phase = "ready"
  /\ db' = txn[h].tables
  /\ history' = history \cup txn[h].tables.events
  /\ lock' = None
  /\ txn' = [txn EXCEPT ![h] = None]
  /\ Reply(txn[h].job, txn[h].ans)
  /\ UNCHANGED <<queue, notify, mode, ids>>

\* A statement, or COMMIT itself, fails for a reason that is not contention.
StatementFails(h) ==
  /\ txn[h] # None
  /\ Rollback(h, Answer("failed"))

-----------------------------------------------------------------------------
(* with_transaction: the closure calls TxnContext, one call after another. *)

InBody(h) == Running(h, "txn") /\ txn[h].call <= Len(txn[h].job.req.calls)

ThisCall(h) == txn[h].job.req.calls[txn[h].call]

NextCall(t) == [t EXCEPT !.call = @ + 1, !.item = 1, !.seen = Unseen]

StepTxn(h, t) ==
  /\ txn' = [txn EXCEPT ![h] = t]
  /\ UNCHANGED <<db, history, lock, queue, task, notify, mode, ids>>

\* TxnContext::append_many: the same statements as an ordinary append, and the
\* positions remembered for publishing.
TxnAppend(h) ==
  LET t == txn[h]
      items == ThisCall(h).items
      s == items[1].stream IN
  /\ InBody(h) /\ ThisCall(h).verb = "append"
  /\ IF RunTaken(t.tables, s, items)
     THEN Rollback(h, Answer("failed"))
     ELSE StepTxn(h, [NextCall(t) EXCEPT
                        !.tables = AppendRun(t.tables, s, items),
                        !.pub = @ \cup Positions(RunRows(t.tables, s, items))])

\* import_many keeps the next number of each stream in a map of its own, read
\* from the counter on first sight.
CachedNext(t, s) == IF t.seen[s] = 0 THEN NextSeq(t.tables, s) ELSE t.seen[s]

Importing(h) ==
  InBody(h) /\ ThisCall(h).verb = "import" /\ txn[h].item <= Len(ThisCall(h).items)

\* One event of the run: restamp and insert; the counter is not written yet.
ImportItem(h) ==
  LET t == txn[h]
      e == ThisCall(h).items[t.item]
      n == CachedNext(t, e.stream) IN
  /\ Importing(h) /\ e.ok
  /\ IF Taken(t.tables, e.stream, n)
     THEN Rollback(h, Answer("failed"))
     ELSE StepTxn(h, [t EXCEPT !.tables = InsertStamped(@, e.stream, n, e),
                               !.seen = [t.seen EXCEPT ![e.stream] = n + 1],
                               !.item = @ + 1])

\* A malformed event: import_many returns its error, and the closure passes it
\* on, or goes on without it.
ImportRefused(h) ==
  LET t == txn[h] IN
  /\ Importing(h) /\ ~ThisCall(h).items[t.item].ok
  /\ IF SwallowErrors
     THEN StepTxn(h, NextCall(t))
     ELSE Rollback(h, Answer("err"))

\* The end of the run: every counter it touched, written once.
ImportFlush(h) ==
  LET t == txn[h] IN
  /\ InBody(h) /\ ThisCall(h).verb = "import" /\ t.item > Len(ThisCall(h).items)
  /\ StepTxn(h, [NextCall(t) EXCEPT
                   !.tables = [t.tables EXCEPT !.next = [s \in Streams |-> CachedNext(t, s)]],
                   !.pub = @ \cup (t.tables.autoinc - Len(ThisCall(h).items) + 1 .. t.tables.autoinc)])

\* The closure returns Ok: positions collected, then COMMIT.
BodyOk(h) ==
  /\ Running(h, "txn") /\ txn[h].call > Len(txn[h].job.req.calls)
  /\ Stage(h, txn[h].tables, Landed(txn[h].pub))

\* The closure returns Err, or panics, between two of its calls.
BodyErr(h) ==
  /\ Running(h, "txn") /\ txn[h].item = 1
  /\ Rollback(h, Answer("err"))

-----------------------------------------------------------------------------
(* The life of a handle.                                                   *)

\* shutdown: no new jobs, the queue drains, the thread is joined.
Shutdown(h) ==
  /\ mode[h] = "open"
  /\ mode' = [mode EXCEPT ![h] = "draining"]
  /\ UNCHANGED <<db, history, lock, queue, txn, task, notify, ids>>

Drained(h) ==
  /\ mode[h] = "draining" /\ queue[h] = <<>> /\ txn[h] = None
  /\ mode' = [mode EXCEPT ![h] = "closed"]
  /\ UNCHANGED <<db, history, lock, queue, txn, task, notify, ids>>

\* The process dies: what SQLite committed stays, everything else is gone.
Crash(h) ==
  /\ mode[h] # "closed"
  /\ mode' = [mode EXCEPT ![h] = "closed"]
  /\ lock' = IF lock = h THEN None ELSE lock
  /\ queue' = [queue EXCEPT ![h] = <<>>]
  /\ txn' = [txn EXCEPT ![h] = None]
  /\ task' = [c \in Clients |-> IF HandleOf[c] = h THEN Idle ELSE task[c]]
  /\ UNCHANGED <<db, history, notify, ids>>

\* A new handle on the file, its channel seeded with the newest position.
Reopen(h) ==
  /\ mode[h] = "closed"
  /\ \A c \in Clients : HandleOf[c] = h => task[c] = Idle
  /\ mode' = [mode EXCEPT ![h] = "open"]
  /\ notify' = [notify EXCEPT ![h] = HeadPosition(db)]
  /\ UNCHANGED <<db, history, lock, queue, txn, task, ids>>

-----------------------------------------------------------------------------
IsleStep(h) ==
  \/ Begin(h) \/ Contend(h) \/ Commit(h)
  \/ ExecAppend(h) \/ ExecExpect(h) \/ ExecDecide(h) \/ ExecRetain(h)
  \/ TxnAppend(h) \/ ImportItem(h) \/ ImportRefused(h) \/ ImportFlush(h) \/ BodyOk(h)

CallerStep(c) == BackOff(c) \/ Resubmit(c) \/ Return(c)

Next ==
  \/ \E c \in Clients : CallerStep(c) \/ Cancel(c) \/ \E req \in Requests : Call(c, req)
  \/ \E h \in Handles : \/ IsleStep(h) \/ StatementFails(h) \/ BodyErr(h)
                        \/ Shutdown(h) \/ Drained(h) \/ Crash(h) \/ Reopen(h)
                        \/ \E req \in Detachable : Detach(h, req)

Spec == Init /\ [][Next]_vars

\* The isle threads run, a caller that is polled goes on, and a thread that was
\* told to stop and has nothing left stops.  Nothing else is owed a step: no
\* call has to be made, no future dropped, nothing has to fail or crash.
FairSpec ==
  /\ Spec
  /\ \A h \in Handles : WF_vars(IsleStep(h)) /\ WF_vars(Drained(h))
  /\ \A c \in Clients : WF_vars(CallerStep(c))

-----------------------------------------------------------------------------
(* What must hold.                                                         *)

Modes == {"open", "draining", "closed"}

Tags == {"ok", "busy", "failed", "closed", "mismatch", "none", "err",
         "removed", "nothing", "NotExported", "ConsumerBehind"}

Ans == [tag : Tags, positions : SUBSET Nat]

Job == [id : Nat, client : Clients \cup {None}, req : Requests]

Txn == [job : Job, tables : Tables, phase : {"open", "ready"},
        call : Nat \ {0}, item : Nat \ {0}, seen : [Streams -> Nat],
        pub : SUBSET Nat, ans : Ans \cup {None}]

ASSUME NoTxnAssumption == None \notin Txn

Task == [st : {"idle", "waiting", "answered", "backoff"}, id : Nat,
         req : Requests \cup {None}, tries : 0..MaxBusyRetries, ans : Ans \cup {None}]

\* The shape of the state; the fields of a call keep to the requests there are.
TypeOK ==
  /\ db \in Tables
  /\ history \subseteq Row
  /\ lock \in Handles \cup {None}
  /\ queue \in [Handles -> Seq(Job)]
  /\ txn \in [Handles -> Txn \cup {None}]
  /\ task \in [Clients -> Task]
  /\ notify \in [Handles -> Nat]
  /\ mode \in [Handles -> Modes]
  /\ ids \in Nat

\* Whatever retention removes and however transactions fail, contend or are
\* killed, the whole history is numbered without a gap and without a number
\* used twice: positions 1, 2, 3... over the log, sequence numbers 1, 2, 3...
\* in each stream, and the counters kept in the file stand right behind them.
HistoryDense ==
  /\ db.events \subseteq history
  /\ Dense(history, db.autoinc, db.next)

\* A subscriber is never woken at a position the committed log has not
\* reached: positions are published after the commit that makes them real.
WakeAfterCommit == \A h \in Handles : notify[h] <= db.autoinc

\* A row becomes visible only above every row that was ever visible before it,
\* whichever handle wrote it: nobody who read up to a position has to go back.
AppendsAtTheEnd ==
  [][\A r \in db'.events \ db.events : r.pos > db.autoinc]_vars

\* A call that returns has woken the subscribers of its handle at everything
\* it landed, and calls that return in another order than they committed never
\* take the channel back.
ReturnedIsPublished ==
  [][/\ \A c \in Clients :
          Return(c) => \A p \in task[c].ans.positions : notify'[HandleOf[c]] >= p
     /\ \A h \in Handles : mode'[h] = mode[h] => notify'[h] >= notify[h]]_vars

\* The counter is the truth of a stream's existence: a stream that holds an
\* event has one, and it stands behind the event.
CounterIsTruth == \A r \in db.events : r.seq < NextSeq(db, r.stream)

\* Every call ends: the queue is served in turn, a contended append is retried
\* a bounded number of times, and a shutdown drains the queue rather than
\* dropping what is in it.
CallsEnd == \A c \in Clients : task[c].st = "waiting" ~> task[c].st = "idle"

\* A handle told to shut down runs what is queued and closes.
ShutdownCompletes == \A h \in Handles : mode[h] = "draining" ~> mode[h] = "closed"

=============================================================================
