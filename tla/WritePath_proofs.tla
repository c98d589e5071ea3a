-------------------------- MODULE WritePath_proofs --------------------------
(***************************************************************************)
(* The write path, for any number of handles, clients and calls.           *)
(*                                                                         *)
(* HistoryDense is not inductive: a commit replaces the tables by the ones *)
(* a transaction has been building, so the invariant also says what those  *)
(* are at every moment.  That in turn needs the write lock (nobody else    *)
(* commits while a transaction is open) and, inside an import, that the    *)
(* import's own map of counters stands behind the rows it has inserted     *)
(* while the stored counters do not yet.                                   *)
(*                                                                         *)
(* The refinement of LinearLog needs two things more.  One is what an open *)
(* transaction means: its tables are the committed ones with the first so  *)
(* many of its items appended, however the importer holds back counters    *)
(* and rows.  The other is who waits for what: the jobs of all handles,    *)
(* the running ones first, and the calls in flight are matched one to one, *)
(* so that the end of a job is one step of one call, or of an orphan.      *)
(***************************************************************************)
EXTENDS WritePathLinear, LogTables_proofs

\* The number each stream's next event gets, the import's map included.
EffNext(t) == [s \in Streams |-> CachedNext(t, s)]

MidImport(t) ==
  /\ t.phase = "open" /\ t.job.req.op = "txn"
  /\ t.call <= Len(t.job.req.calls)
  /\ t.job.req.calls[t.call].verb = "import"

\* What an open transaction has built, over the committed tables d.
Sound(d, hist, t) ==
  /\ Dense(hist \cup t.tables.events, t.tables.autoinc, EffNext(t))
  /\ d.autoinc <= t.tables.autoinc
  /\ \A r \in t.tables.events : r \in d.events \/ r.pos > d.autoinc
  /\ t.pub \subseteq 1..t.tables.autoinc
  /\ t.phase = "ready" => t.ans \in Ans /\ t.ans.positions \subseteq 1..t.tables.autoinc
  /\ t.seen # Unseen => MidImport(t)
  /\ t.item - 1 <= t.tables.autoinc
  /\ t.phase = "open" /\ t.job.req.op # "txn" => t.tables = d

LockHeld == \A h \in Handles : txn[h] # None <=> lock = h

WorkSound == \A h \in Handles : txn[h] # None => Sound(db, history, txn[h])

AnswersReal ==
  \A c \in Clients :
    /\ task[c].st = "answered" =>
         task[c].ans \in Ans /\ task[c].ans.positions \subseteq 1..db.autoinc
    /\ task[c].st = "backoff" => task[c].req \in Requests

IInv == TypeOK /\ HistoryDense /\ WakeAfterCommit /\ LockHeld /\ WorkSound /\ AnswersReal

-----------------------------------------------------------------------------
(* Facts about one transaction.                                            *)

\* The fields a request has, by its operation.
LEMMA RequestShape ==
  ASSUME NEW req \in Requests
  PROVE  /\ req.op \in {"append", "expect", "decide"} =>
              req.stream \in Streams /\ req.run \in Seq(Event) /\ Len(req.run) >= 1
         /\ req.op = "retain" => req.plan \in Plan
         /\ req.op = "txn" => req.calls \in Seq(TxnCall)
<1>1. req \in Request
  BY RequestsAssumption
<1>2. \A run \in Run : run \in Seq(Event) /\ Len(run) >= 1
  BY DEF Run
<1> QED BY <1>1, <1>2 DEF Request

\* With nothing cached, the counters that count are the stored ones.
LEMMA EffNextUnseen ==
  ASSUME NEW t \in Txn, t.seen = Unseen
  PROVE  EffNext(t) = t.tables.next
<1>1. t.tables \in Tables /\ t.tables.next \in [Streams -> Nat \ {0}]
  BY DEF Txn, Tables
<1>2. \A s \in Streams : CachedNext(t, s) = t.tables.next[s]
  BY DEF CachedNext, Unseen, NextSeq
<1> QED BY <1>1, <1>2 DEF EffNext

\* Appending a run inside a transaction keeps it sound.
LEMMA AppendSound ==
  ASSUME NEW d \in Tables, NEW hist \in SUBSET Row, NEW t \in Txn, NEW u \in Txn,
         NEW s \in Streams, NEW run, IsRun(run),
         Sound(d, hist, t), t.seen = Unseen, u.seen = Unseen, u.item \in {1, t.item},
         u.phase = "ready" \/ u.job.req.op = "txn",
         u.tables = AppendRun(t.tables, s, run),
         u.pub \subseteq t.pub \cup Positions(RunRows(t.tables, s, run)),
         u.phase = "ready" =>
           u.ans \in Ans /\ u.ans.positions \subseteq Positions(RunRows(t.tables, s, run))
  PROVE  Sound(d, hist, u)
<1> DEFINE v == t.tables
           new == RunRows(v, s, run)
           l == Len(run)
<1>1. v \in Tables /\ v.events \in SUBSET Row /\ v.autoinc \in Nat /\ d.autoinc \in Nat /\ l \in Nat
  BY DEF Txn, Tables, IsRun
<1>2. /\ new \subseteq Row
      /\ u.tables.events = v.events \cup new
      /\ u.tables.autoinc = v.autoinc + l
      /\ u.tables.next = [v.next EXCEPT ![s] = v.next[s] + l]
      /\ \A r \in new : v.autoinc < r.pos /\ r.pos <= v.autoinc + l
  <2>1. u.tables = AppendRun(v, s, run)
    OBVIOUS
  <2> HIDE DEF v
  <2>2. /\ RunRows(v, s, run) \subseteq Row
        /\ AppendRun(v, s, run).events = v.events \cup RunRows(v, s, run)
        /\ AppendRun(v, s, run).autoinc = v.autoinc + Len(run)
        /\ AppendRun(v, s, run).next = [v.next EXCEPT ![s] = v.next[s] + Len(run)]
        /\ \A r \in RunRows(v, s, run) : v.autoinc < r.pos /\ r.pos <= v.autoinc + Len(run)
    BY <1>1, AppendRunType
  <2> QED BY <2>1, <2>2
<1>3. EffNext(t) = v.next /\ EffNext(u) = u.tables.next
  BY EffNextUnseen
<1>4. Dense(hist \cup v.events, v.autoinc, v.next)
  BY <1>3 DEF Sound
<1>5. Dense((hist \cup v.events) \cup new, v.autoinc + l, [v.next EXCEPT ![s] = v.next[s] + l])
  <2>1. hist \cup v.events \in SUBSET Row
    BY <1>1
  <2> QED BY <2>1, <1>1, <1>4, AppendRunDense
<1>6. (hist \cup v.events) \cup new = hist \cup u.tables.events
  BY <1>2
<1>7. Dense(hist \cup u.tables.events, u.tables.autoinc, EffNext(u))
  BY <1>2, <1>3, <1>5, <1>6
<1>8. /\ d.autoinc <= v.autoinc
      /\ \A r \in v.events : r \in d.events \/ r.pos > d.autoinc
      /\ t.pub \subseteq 1..v.autoinc
  BY DEF Sound
<1>9. \A r \in new : r.pos \in Nat
  BY <1>2 DEF Row
<1>10. Positions(new) \subseteq 1..u.tables.autoinc
  <2> SUFFICES ASSUME NEW r \in new PROVE r.pos \in 1..u.tables.autoinc
    BY DEF Positions
  <2> QED BY <1>1, <1>2, <1>9
<1>11. d.autoinc <= u.tables.autoinc /\ 1..v.autoinc \subseteq 1..u.tables.autoinc
  <2> HIDE DEF v, l, new
  <2> QED BY <1>1, <1>2, <1>8
<1>12. \A r \in u.tables.events : r \in d.events \/ r.pos > d.autoinc
  <2> HIDE DEF v, l, new
  <2>1. \A r \in new : r.pos > d.autoinc
    BY <1>1, <1>2, <1>8, <1>9
  <2> QED BY <2>1, <1>2, <1>8
<1>13. u.item - 1 <= u.tables.autoinc
  <2>1. t.item \in Nat /\ t.item - 1 <= v.autoinc
    BY DEF Sound, Txn
  <2> HIDE DEF v, l, new
  <2> QED BY <2>1, <1>1, <1>2
<1> HIDE DEF v, l, new
<1>14. /\ u.pub \subseteq 1..u.tables.autoinc
       /\ u.phase = "ready" => u.ans \in Ans /\ u.ans.positions \subseteq 1..u.tables.autoinc
  BY <1>8, <1>10, <1>11 DEF v, new
<1> QED BY <1>7, <1>11, <1>12, <1>13, <1>14 DEF Sound

\* Importing one event keeps it sound.
LEMMA ImportSound ==
  ASSUME NEW d \in Tables, NEW hist \in SUBSET Row, NEW t \in Txn, Sound(d, hist, t),
         MidImport(t), NEW e \in Item,
         NEW u, u = [t EXCEPT !.tables = InsertStamped(@, e.stream, CachedNext(t, e.stream), e),
                              !.seen = [t.seen EXCEPT ![e.stream] = CachedNext(t, e.stream) + 1],
                              !.item = @ + 1]
  PROVE  u \in Txn /\ Sound(d, hist, u)
<1> DEFINE v == t.tables
           s == e.stream
           n == CachedNext(t, s)
           w == [pos |-> v.autoinc + 1, stream |-> s, seq |-> n, kind |-> e.kind, at |-> e.at]
           nx == EffNext(t)
<1>1. /\ v \in Tables /\ v.events \in SUBSET Row /\ v.autoinc \in Nat /\ d.autoinc \in Nat
      /\ v.next \in [Streams -> Nat \ {0}] /\ t.seen \in [Streams -> Nat] /\ t.item \in Nat \ {0}
      /\ s \in Streams /\ e.kind \in Kinds /\ e.at \in Times
  BY DEF Txn, Tables, Item
<1>2. nx \in [Streams -> Nat \ {0}] /\ n \in Nat \ {0} /\ nx[s] = n
  <2>1. \A q \in Streams : CachedNext(t, q) \in Nat \ {0}
    BY <1>1 DEF CachedNext, NextSeq
  <2> QED BY <2>1, <1>1 DEF EffNext
<1>3. w \in Row /\ w.pos = v.autoinc + 1 /\ w.stream = s /\ w.seq = nx[w.stream]
  <2>1. v.autoinc + 1 \in Nat \ {0}
    BY <1>1, Positive
  <2> QED BY <2>1, <1>1, <1>2 DEF Row
<1>4. /\ u.tables = InsertStamped(v, s, n, e)
      /\ u.seen = [t.seen EXCEPT ![s] = n + 1]
      /\ u.item = t.item + 1
      /\ u.job = t.job /\ u.phase = t.phase /\ u.call = t.call /\ u.pub = t.pub /\ u.ans = t.ans
  BY DEF Txn
<1>5. /\ u.tables.events = v.events \cup {w}
      /\ u.tables.autoinc = v.autoinc + 1
      /\ u.tables.next = v.next
      /\ u.tables \in Tables
  <2>1. v.autoinc + 1 \in Nat /\ v.events \cup {w} \in SUBSET Row
    BY <1>1, <1>3
  <2>2. InsertStamped(v, s, n, e) =
          [v EXCEPT !.events = v.events \cup {w}, !.autoinc = v.autoinc + 1]
    BY DEF InsertStamped
  <2> DEFINE ev == v.events \cup {w}
             ai == v.autoinc + 1
             x == [v EXCEPT !.events = ev, !.autoinc = ai]
  <2>3. u.tables = x
    BY <2>2, <1>4
  <2> HIDE DEF v, w, n, s, ev, ai
  <2>4. x \in Tables /\ x.events = ev /\ x.autoinc = ai /\ x.next = v.next
    BY <2>1, <1>1 DEF Tables, ev, ai
  <2> HIDE DEF x
  <2> QED BY <2>3, <2>4 DEF ev, ai
<1>6. u \in Txn
  <2>1. n + 1 \in Nat /\ t.item + 1 \in Nat \ {0}
    BY <1>1, <1>2, Positive
  <2> HIDE DEF v, w, n, s
  <2>2. u.seen \in [Streams -> Nat]
    <3>1. [t.seen EXCEPT ![s] = n + 1] \in [Streams -> Nat]
      BY <2>1, <1>1
    <3> QED BY <3>1, <1>4
  <2>3. u.item \in Nat \ {0}
    BY <2>1, <1>4
  <2> QED BY <2>2, <2>3, <1>4, <1>5 DEF Txn
<1>7. EffNext(u) = [nx EXCEPT ![w.stream] = nx[w.stream] + 1]
  <2>1. \A q \in Streams : CachedNext(u, q) = IF q = s THEN n + 1 ELSE CachedNext(t, q)
    <3>1. n + 1 # 0
      BY <1>2
    <3>2. /\ u.seen[s] = n + 1
          /\ \A q \in Streams : q # s => u.seen[q] = t.seen[q]
          /\ \A q \in Streams : NextSeq(u.tables, q) = NextSeq(t.tables, q)
      BY <1>1, <1>4, <1>5 DEF NextSeq
    <3> QED BY <3>1, <3>2, <1>1 DEF CachedNext
  <2> QED BY <2>1, <1>1, <1>2, <1>3 DEF EffNext
<1>8. Dense(hist \cup u.tables.events, u.tables.autoinc, EffNext(u))
  <2>1. Dense(hist \cup v.events, v.autoinc, nx)
    BY DEF Sound
  <2>2. hist \cup v.events \in SUBSET Row
    BY <1>1
  <2>3. (hist \cup v.events) \cup {w} = hist \cup u.tables.events
    BY <1>5
  <2> HIDE DEF w, nx, v, n, s
  <2>4. Dense((hist \cup v.events) \cup {w}, v.autoinc + 1, [nx EXCEPT ![w.stream] = nx[w.stream] + 1])
    BY <2>1, <2>2, <1>1, <1>2, <1>3, InsertDense
  <2> QED BY <2>3, <2>4, <1>5, <1>7
<1>9. /\ d.autoinc <= v.autoinc
      /\ \A r \in v.events : r \in d.events \/ r.pos > d.autoinc
      /\ t.pub \subseteq 1..v.autoinc
      /\ t.item - 1 <= v.autoinc
  BY DEF Sound
<1>10. MidImport(u)
  BY <1>4 DEF MidImport
<1> HIDE DEF v, w, n, s, nx
<1>11. 1..v.autoinc \subseteq 1..u.tables.autoinc
  BY <1>1, <1>5
<1>12. \A r \in u.tables.events : r \in d.events \/ r.pos > d.autoinc
  BY <1>1, <1>3, <1>5, <1>9
<1>13. d.autoinc <= u.tables.autoinc /\ u.item - 1 <= u.tables.autoinc
  BY <1>1, <1>4, <1>5, <1>9
<1>14. u.pub \subseteq 1..u.tables.autoinc
  BY <1>4, <1>9, <1>11
<1> QED BY <1>6, <1>8, <1>10, <1>12, <1>13, <1>14 DEF Sound, MidImport

-----------------------------------------------------------------------------
(* Steps that end a job or move it forward.                                *)

AnswersWithin(n) ==
  \A c \in Clients :
    /\ task[c].st = "answered" => task[c].ans \in Ans /\ task[c].ans.positions \subseteq 1..n
    /\ task[c].st = "backoff" => task[c].req \in Requests

\* An answer given to whoever still awaits it.
LEMMA ReplyTyped ==
  ASSUME task \in [Clients -> Task], NEW n \in Nat, AnswersWithin(n),
         NEW job \in Job, NEW ans \in Ans, ans.positions \subseteq 1..n, Reply(job, ans)
  PROVE  task' \in [Clients -> Task] /\ AnswersWithin(n)'
<1>1. CASE job.client = None
  BY <1>1 DEF Reply, AnswersWithin
<1>2. CASE job.client # None
  <2> DEFINE c == job.client
             new == [task[c] EXCEPT !.st = "answered", !.ans = ans]
  <2>1. c \in Clients
    BY <1>2 DEF Job
  <2>2. task' = [task EXCEPT ![c] = new]
    BY <1>2 DEF Reply, Settle
  <2>3. new \in Task /\ new.st = "answered" /\ new.ans = ans
    BY <2>1 DEF Task
  <2> HIDE DEF c, new
  <2> QED BY <2>1, <2>2, <2>3 DEF AnswersWithin
<1> QED BY <1>1, <1>2

\* A transaction that builds on goes from sound to sound, and nobody sees it.
LEMMA WorkStep ==
  ASSUME IInv, NEW h \in Handles, txn[h] # None, NEW t \in Txn,
         Sound(db, history, t), txn' = [txn EXCEPT ![h] = t],
         UNCHANGED <<db, history, lock, queue, task, notify, mode, ids>>
  PROVE  IInv'
<1>1. TypeOK' /\ HistoryDense' /\ WakeAfterCommit' /\ AnswersReal'
  BY DEF IInv, TypeOK, HistoryDense, WakeAfterCommit, AnswersReal
<1>2. \A g \in Handles : txn'[g] = IF g = h THEN t ELSE txn[g]
  BY DEF IInv, TypeOK
<1>3. LockHeld'
  BY <1>2, NoTxnAssumption DEF IInv, LockHeld
<1>4. WorkSound'
  BY <1>2 DEF IInv, WorkSound
<1> QED BY <1>1, <1>3, <1>4 DEF IInv

\* A transaction dropped uncommitted leaves nothing behind.
LEMMA RollbackStep ==
  ASSUME IInv, NEW h \in Handles, txn[h] # None, NEW tag \in Tags, Rollback(h, Answer(tag))
  PROVE  IInv'
<1>1. Answer(tag) \in Ans /\ Answer(tag).positions = {}
  BY DEF Answer, Ans
<1>2. txn[h] \in Txn /\ txn[h].job \in Job /\ db.autoinc \in Nat
  BY DEF IInv, TypeOK, Txn, Tables
<1>3. task' \in [Clients -> Task] /\ AnswersWithin(db.autoinc)'
  <2>1. task \in [Clients -> Task] /\ AnswersWithin(db.autoinc)
    BY DEF IInv, TypeOK, AnswersReal, AnswersWithin
  <2>2. Reply(txn[h].job, Answer(tag)) /\ UNCHANGED db
    BY DEF Rollback
  <2>3. task' \in [Clients -> Task]
    BY <1>1, <1>2, <2>1, <2>2, ReplyTyped
  <2>4. \A c \in Clients :
         /\ task'[c].st = "answered" =>
              task'[c].ans \in Ans /\ task'[c].ans.positions \subseteq 1..db.autoinc
         /\ task'[c].st = "backoff" => task'[c].req \in Requests
    BY <1>1, <1>2, <2>1, <2>2, ReplyTyped DEF AnswersWithin
  <2> QED BY <2>2, <2>3, <2>4 DEF AnswersWithin
<1>4. /\ UNCHANGED <<db, history, queue, notify, mode, ids>>
      /\ lock' = None /\ txn' = [txn EXCEPT ![h] = None]
  BY DEF Rollback
<1>5. \A g \in Handles : txn'[g] = IF g = h THEN None ELSE txn[g]
  BY <1>4 DEF IInv, TypeOK
<1>6. TypeOK'
  BY <1>3, <1>4 DEF IInv, TypeOK
<1>7. HistoryDense' /\ WakeAfterCommit' /\ AnswersReal'
  BY <1>3, <1>4 DEF IInv, HistoryDense, WakeAfterCommit, AnswersReal, AnswersWithin
<1>8. \A g \in Handles : txn'[g] = None
  BY <1>5 DEF IInv, LockHeld
<1>9. LockHeld' /\ WorkSound'
  BY <1>4, <1>8, NoneAssumption DEF LockHeld, WorkSound
<1> QED BY <1>6, <1>7, <1>9 DEF IInv

-----------------------------------------------------------------------------
(* One lemma per kind of step.                                             *)

\* What IInv says of the transaction a handle is running.
LEMMA RunningTxn ==
  ASSUME IInv, NEW h \in Handles, txn[h] # None
  PROVE  /\ txn[h] \in Txn /\ Sound(db, history, txn[h])
         /\ txn[h].job \in Job /\ txn[h].job.req \in Requests /\ txn[h].tables \in Tables
         /\ db \in Tables /\ history \in SUBSET Row /\ lock = h
BY DEF IInv, TypeOK, WorkSound, LockHeld, Txn, Job

\* An append's statements, staged for COMMIT or refused by UNIQUE.
LEMMA AppendStep ==
  ASSUME IInv, NEW h \in Handles, txn[h] # None, txn[h].seen = Unseen,
         NEW s \in Streams, NEW run \in Seq(Event), AppendOrFail(h, s, run)
  PROVE  IInv'
<1> DEFINE t == txn[h]
           d == t.tables
           ans == Landed(Positions(RunRows(d, s, run)))
           tables == AppendRun(d, s, run)
           u == [t EXCEPT !.tables = tables, !.phase = "ready", !.ans = ans]
<1>1. CASE RunTaken(d, s, run)
  <2>1. Rollback(h, Answer("failed")) /\ "failed" \in Tags
    BY <1>1 DEF AppendOrFail, Tags
  <2> QED BY <2>1, RollbackStep
<1>2. CASE ~RunTaken(d, s, run)
  <2>1. Stage(h, tables, ans)
    BY <1>2 DEF AppendOrFail
  <2>2. t \in Txn /\ Sound(db, history, t) /\ d \in Tables /\ db \in Tables /\ history \in SUBSET Row
    BY RunningTxn
  <2>3. tables \in Tables /\ RunRows(d, s, run) \subseteq Row
    <3> HIDE DEF d
    <3> QED BY <2>2, EventsAreRun, AppendRunType
  <2>4. ans \in Ans /\ ans.positions = Positions(RunRows(d, s, run))
    BY <2>3 DEF Landed, Ans, Positions, Row, Tags
  <2>5. /\ u \in Txn /\ u.tables = tables /\ u.seen = Unseen /\ u.item = t.item
        /\ u.pub = t.pub /\ u.ans = ans /\ u.phase = "ready"
    <3> HIDE DEF ans, tables, d
    <3> QED BY <2>2, <2>3, <2>4 DEF Txn
  <2>6. Sound(db, history, u)
    <3> HIDE DEF u, ans
    <3> QED BY <2>2, <2>4, <2>5, EventsAreRun, AppendSound
  <2>7. /\ txn' = [txn EXCEPT ![h] = u]
        /\ UNCHANGED <<db, history, lock, queue, task, notify, mode, ids>>
    BY <2>1 DEF Stage
  <2> HIDE DEF u
  <2> QED BY <2>5, <2>6, <2>7, WorkStep
<1> QED BY <1>1, <1>2

\* Outside a transaction closure nothing is cached.
LEMMA NoCache ==
  ASSUME IInv, NEW h \in Handles, txn[h] # None, txn[h].seen # Unseen
  PROVE  MidImport(txn[h])
BY DEF IInv, WorkSound, Sound

\* An append, an expectation or a decision runs.
LEMMA RunsStep ==
  ASSUME IInv, NEW h \in Handles, ExecAppend(h) \/ ExecExpect(h) \/ ExecDecide(h)
  PROVE  IInv'
<1> DEFINE req == txn[h].job.req
<1>1. /\ txn[h] # None /\ req.op \in {"append", "expect", "decide"}
      /\ txn[h].job.req \in Requests
  BY RunningTxn DEF ExecAppend, ExecExpect, ExecDecide, Running
<1>2. req.stream \in Streams /\ req.run \in Seq(Event)
  BY <1>1, RequestShape
<1>3. txn[h].seen = Unseen
  BY <1>1, NoCache DEF MidImport
<1>4. CASE AppendOrFail(h, req.stream, req.run)
  BY <1>1, <1>2, <1>3, <1>4, AppendStep
<1>5. CASE Rollback(h, Answer("mismatch")) \/ Rollback(h, Answer("none"))
  <2>1. "mismatch" \in Tags /\ "none" \in Tags
    BY DEF Tags
  <2> QED BY <1>1, <1>5, <2>1, RollbackStep
<1> QED BY <1>4, <1>5 DEF ExecAppend, ExecExpect, ExecDecide

\* A removal takes rows out of the live tables and leaves the counters alone.
LEMMA RetainStep ==
  ASSUME IInv, NEW h \in Handles, ExecRetain(h)
  PROVE  IInv'
<1> DEFINE t == txn[h]
           d == t.tables
           plan == t.job.req.plan
           tag == RetainAnswer(d, plan, t.job.req.guard)
           tables == RemoveMatching(d, plan)
           ans == Answer("removed")
           u == [t EXCEPT !.tables = tables, !.phase = "ready", !.ans = ans]
<1>1. t # None /\ t.job.req.op = "retain"
  BY DEF ExecRetain, Running
<1>2. /\ t \in Txn /\ Sound(db, history, t) /\ d \in Tables /\ db \in Tables
      /\ history \in SUBSET Row
  BY <1>1, RunningTxn
<1>3. t.seen = Unseen
  BY <1>1, NoCache DEF MidImport
<1>4. CASE tag # "removed"
  <2>1. Rollback(h, Answer(tag))
    BY <1>4 DEF ExecRetain
  <2>2. tag \in Tags
    BY DEF RetainAnswer, Tags
  <2> HIDE DEF tag
  <2> QED BY <1>1, <2>1, <2>2, RollbackStep
<1>5. CASE tag = "removed"
  <2>1. Stage(h, tables, ans)
    BY <1>5 DEF ExecRetain
  <2>2. EffNext(t) = d.next
    BY <1>2, <1>3, EffNextUnseen
  <2>3. Dense(history \cup d.events, d.autoinc, d.next)
    BY <1>2, <2>2 DEF Sound
  <2>4. HighestMatching(d, plan) \in Nat
    <3>1. /\ Matching(d, plan) \in SUBSET d.events /\ d.events \in SUBSET Row
          /\ d.autoinc \in Nat
      BY <1>2 DEF Matching, Tables
    <3>2. \A r \in d.events : r.pos \in Nat /\ r.pos <= d.autoinc
      BY <3>1, <2>3 DEF Dense, Row
    <3>3. Positions(Matching(d, plan)) \in SUBSET (0..d.autoinc)
      BY <3>1, <3>2 DEF Positions
    <3> HIDE DEF d, plan
    <3> QED BY <3>1, <3>3, MaxOrZeroBound DEF HighestMatching
  <2>5. /\ tables \in Tables /\ tables.events \subseteq d.events
        /\ tables.autoinc = d.autoinc /\ tables.next = d.next
    <3> DEFINE ev == d.events \ Matching(d, plan)
               le == Append(d.ledger, HighestMatching(d, plan))
    <3>1. tables = [d EXCEPT !.events = ev, !.ledger = le]
      BY DEF RemoveMatching
    <3>2. ev \in SUBSET Row /\ ev \subseteq d.events /\ le \in Seq(Nat)
      BY <1>2, <2>4 DEF Tables
    <3> HIDE DEF d, plan, ev, le, tables
    <3> QED BY <3>1, <3>2, <1>2 DEF Tables
  <2>6. ans \in Ans /\ ans.positions = {}
    BY DEF Answer, Ans, Tags
  <2> HIDE DEF tables, ans
  <2>7. /\ u \in Txn /\ u.tables = tables /\ u.seen = Unseen /\ u.item = t.item
        /\ u.pub = t.pub /\ u.ans = ans /\ u.phase = "ready"
    BY <1>2, <1>3, <2>5, <2>6 DEF Txn
  <2> HIDE DEF u
  <2>8. EffNext(u) = d.next
    BY <2>5, <2>7, EffNextUnseen
  <2>9. Dense(history \cup u.tables.events, u.tables.autoinc, EffNext(u))
    <3>1. t.phase = "open" /\ d = db
      BY <1>1, <1>2 DEF ExecRetain, Running, Sound
    <3>2. db.events \subseteq history
      BY DEF IInv, HistoryDense
    <3>3. history \cup u.tables.events = history /\ history \cup d.events = history
      BY <2>5, <2>7, <3>1, <3>2
    <3> QED BY <2>3, <2>5, <2>7, <2>8, <3>3
  <2>10. Sound(db, history, u)
    BY <1>2, <2>5, <2>6, <2>7, <2>9 DEF Sound
  <2>11. /\ txn' = [txn EXCEPT ![h] = u]
         /\ UNCHANGED <<db, history, lock, queue, task, notify, mode, ids>>
    BY <2>1 DEF Stage, u
  <2> QED BY <1>1, <2>7, <2>10, <2>11, WorkStep
<1> QED BY <1>4, <1>5

\* A transaction takes the lock.
LEMMA BeginStep ==
  ASSUME IInv, NEW h \in Handles, Begin(h)
  PROVE  IInv'
<1> DEFINE job == Head(queue[h])
           u == Start(job)
<1>1. queue[h] \in Seq(Job) /\ queue[h] # <<>> /\ txn[h] = None
  BY DEF Begin, IInv, TypeOK
<1>2. job \in Job /\ Tail(queue[h]) \in Seq(Job)
  BY <1>1
<1>3. db \in Tables /\ history \in SUBSET Row /\ Unseen \in [Streams -> Nat]
  BY DEF IInv, TypeOK, Unseen
<1>4. /\ u \in Txn /\ u.job = job /\ u.tables = db /\ u.seen = Unseen /\ u.pub = {}
      /\ u.item = 1 /\ u.phase = "open"
  <2> HIDE DEF job
  <2> QED BY <1>2, <1>3 DEF Start, Txn
<1> HIDE DEF u, job
<1>5. EffNext(u) = db.next
  BY <1>4, EffNextUnseen
<1>6. Sound(db, history, u)
  <2>1. history \cup db.events = history /\ Dense(history, db.autoinc, db.next)
    BY DEF IInv, HistoryDense
  <2>2. db.autoinc \in Nat
    BY <1>3 DEF Tables
  <2>3. Dense(history \cup u.tables.events, u.tables.autoinc, EffNext(u))
    BY <2>1, <1>4, <1>5
  <2>4. u.item - 1 <= u.tables.autoinc /\ db.autoinc <= u.tables.autoinc
    BY <2>2, <1>4
  <2>5. /\ \A r \in u.tables.events : r \in db.events \/ r.pos > db.autoinc
        /\ u.pub \subseteq 1..u.tables.autoinc
        /\ u.phase # "ready"
    BY <1>4
  <2> QED BY <2>3, <2>4, <2>5, <1>4 DEF Sound
<1>7. /\ lock = None /\ lock' = h
      /\ txn' = [txn EXCEPT ![h] = u] /\ queue' = [queue EXCEPT ![h] = Tail(queue[h])]
      /\ UNCHANGED <<db, history, task, notify, mode, ids>>
  BY DEF Begin, u, job
<1>8. \A g \in Handles : txn[g] = None
  BY <1>7, NoneAssumption DEF IInv, LockHeld
<1>9. \A g \in Handles : txn'[g] = IF g = h THEN u ELSE None
  BY <1>7, <1>8 DEF IInv, TypeOK
<1>10. TypeOK'
  BY <1>2, <1>4, <1>7 DEF IInv, TypeOK
<1>11. HistoryDense' /\ WakeAfterCommit' /\ AnswersReal'
  BY <1>7 DEF IInv, HistoryDense, WakeAfterCommit, AnswersReal
<1>12. LockHeld' /\ WorkSound'
  BY <1>4, <1>6, <1>7, <1>9, NoTxnAssumption DEF LockHeld, WorkSound
<1> QED BY <1>10, <1>11, <1>12 DEF IInv

\* A transaction is refused the lock.
LEMMA ContendStep ==
  ASSUME IInv, NEW h \in Handles, Contend(h)
  PROVE  IInv'
<1> DEFINE job == Head(queue[h])
           ans == Answer("busy")
<1>1. queue[h] \in Seq(Job) /\ queue[h] # <<>>
  BY DEF Contend, IInv, TypeOK
<1>2. job \in Job /\ Tail(queue[h]) \in Seq(Job)
  BY <1>1
<1>3. ans \in Ans /\ ans.positions = {}
  BY DEF Answer, Ans, Tags
<1>4. /\ db.autoinc \in Nat /\ task \in [Clients -> Task] /\ AnswersWithin(db.autoinc)
  BY DEF IInv, TypeOK, Tables, AnswersReal, AnswersWithin
<1>5. /\ Reply(job, ans) /\ queue' = [queue EXCEPT ![h] = Tail(queue[h])]
      /\ UNCHANGED <<db, history, lock, txn, notify, mode, ids>>
  BY DEF Contend
<1> HIDE DEF job, ans
<1>6. task' \in [Clients -> Task] /\ AnswersWithin(db.autoinc)'
  <2>1. task' \in [Clients -> Task]
    BY <1>2, <1>3, <1>4, <1>5, ReplyTyped
  <2>2. \A c \in Clients :
         /\ task'[c].st = "answered" =>
              task'[c].ans \in Ans /\ task'[c].ans.positions \subseteq 1..db.autoinc
         /\ task'[c].st = "backoff" => task'[c].req \in Requests
    BY <1>2, <1>3, <1>4, <1>5, ReplyTyped DEF AnswersWithin
  <2> QED BY <1>5, <2>1, <2>2 DEF AnswersWithin
<1>7. TypeOK'
  BY <1>2, <1>5, <1>6 DEF IInv, TypeOK
<1>8. HistoryDense' /\ WakeAfterCommit' /\ LockHeld' /\ WorkSound' /\ AnswersReal'
  BY <1>5, <1>6 DEF IInv, HistoryDense, WakeAfterCommit, LockHeld, WorkSound, AnswersReal,
                    AnswersWithin
<1> QED BY <1>7, <1>8 DEF IInv

\* The tables a transaction built become the file's, and the history grows.
LEMMA CommitStep ==
  ASSUME IInv, NEW h \in Handles, Commit(h)
  PROVE  IInv'
<1> DEFINE t == txn[h]
<1>1. t # None /\ t.phase = "ready"
  BY DEF Commit
<1>2. /\ t \in Txn /\ t.tables \in Tables /\ t.job \in Job /\ Sound(db, history, t)
      /\ history \in SUBSET Row /\ lock = h
  BY <1>1, RunningTxn
<1>3. t.seen = Unseen
  BY <1>1, NoCache DEF MidImport
<1>4. /\ db' = t.tables /\ history' = history \cup t.tables.events /\ lock' = None
      /\ txn' = [txn EXCEPT ![h] = None] /\ Reply(t.job, t.ans)
      /\ UNCHANGED <<queue, notify, mode, ids>>
  BY DEF Commit
<1>5. HistoryDense'
  <2>1. Dense(history \cup t.tables.events, t.tables.autoinc, t.tables.next)
    BY <1>2, <1>3, EffNextUnseen DEF Sound
  <2> QED BY <2>1, <1>4 DEF HistoryDense
<1>6. db.autoinc \in Nat /\ db'.autoinc \in Nat /\ db.autoinc <= db'.autoinc
  BY <1>2, <1>4 DEF IInv, TypeOK, Tables, Sound
<1>7. WakeAfterCommit'
  <2>1. \A g \in Handles : notify[g] \in Nat /\ notify[g] <= db.autoinc
    BY DEF IInv, TypeOK, WakeAfterCommit
  <2> QED BY <2>1, <1>4, <1>6 DEF WakeAfterCommit
<1>8. t.ans \in Ans /\ t.ans.positions \subseteq 1..db'.autoinc
  BY <1>1, <1>2, <1>4 DEF Sound
<1>9. task' \in [Clients -> Task] /\ AnswersReal'
  <2>1. PICK n \in Nat : n = db'.autoinc
    BY <1>6
  <2>2. task \in [Clients -> Task] /\ AnswersWithin(n) /\ t.ans.positions \subseteq 1..n
    BY <1>6, <1>8, <2>1 DEF IInv, TypeOK, AnswersReal, AnswersWithin
  <2>3. task' \in [Clients -> Task]
    BY <1>2, <1>4, <1>8, <2>2, ReplyTyped
  <2>4. \A c \in Clients :
         /\ task'[c].st = "answered" =>
              task'[c].ans \in Ans /\ task'[c].ans.positions \subseteq 1..n
         /\ task'[c].st = "backoff" => task'[c].req \in Requests
    BY <1>2, <1>4, <1>8, <2>2, ReplyTyped DEF AnswersWithin
  <2> QED BY <2>1, <2>3, <2>4 DEF AnswersReal
<1>10. \A g \in Handles : txn'[g] = None
  BY <1>2, <1>4 DEF IInv, TypeOK, LockHeld
<1>11. TypeOK'
  <2>1. t.tables.events \in SUBSET Row
    BY <1>2 DEF Tables
  <2> HIDE DEF t
  <2> QED BY <2>1, <1>2, <1>4, <1>9 DEF IInv, TypeOK
<1>12. LockHeld' /\ WorkSound'
  BY <1>4, <1>10, NoneAssumption DEF LockHeld, WorkSound
<1> QED BY <1>5, <1>7, <1>9, <1>11, <1>12 DEF IInv

\* A transaction that fails between its first statement and its COMMIT.
LEMMA FailStep ==
  ASSUME IInv, NEW h \in Handles, StatementFails(h) \/ BodyErr(h)
  PROVE  IInv'
<1>1. "failed" \in Tags /\ "err" \in Tags
  BY DEF Tags
<1>2. CASE StatementFails(h)
  BY <1>1, <1>2, RollbackStep DEF StatementFails
<1>3. CASE BodyErr(h)
  BY <1>1, <1>3, RollbackStep DEF BodyErr, Running
<1> QED BY <1>2, <1>3

-----------------------------------------------------------------------------
(* The steps of a transaction closure.                                     *)

\* The call a closure is about to make.
LEMMA BodyShape ==
  ASSUME IInv, NEW h \in Handles, InBody(h)
  PROVE  /\ txn[h] # None /\ txn[h].phase = "open" /\ txn[h].job.req.op = "txn"
         /\ ThisCall(h) \in TxnCall /\ ThisCall(h).items \in Seq(Item)
         /\ Len(ThisCall(h).items) >= 1
         /\ txn[h].call \in Nat \ {0} /\ txn[h].call + 1 \in Nat \ {0}
<1>1. txn[h] # None /\ txn[h].phase = "open" /\ txn[h].job.req.op = "txn"
      /\ txn[h].call <= Len(txn[h].job.req.calls)
  BY DEF InBody, Running
<1>2. txn[h] \in Txn /\ txn[h].job.req \in Requests
  BY <1>1, RunningTxn
<1>3. txn[h].job.req.calls \in Seq(TxnCall) /\ txn[h].call \in Nat \ {0}
  BY <1>1, <1>2, RequestShape DEF Txn
<1>4. ThisCall(h) \in TxnCall
  <2> DEFINE cs == txn[h].job.req.calls
             k == txn[h].call
  <2>1. k \in 1..Len(cs)
    BY <1>1, <1>3
  <2>2. cs[k] \in TxnCall
    <3> HIDE DEF cs, k
    <3>1. cs \in Seq(TxnCall)
      BY <1>3 DEF cs
    <3> QED BY <2>1, <3>1
  <2> QED BY <2>2 DEF ThisCall
<1>5. ThisCall(h).items \in Seq(Item) /\ Len(ThisCall(h).items) >= 1
  <2> DEFINE items == ThisCall(h).items
  <2>1. items \in Seq(Item) /\ items # <<>>
    BY <1>4 DEF TxnCall
  <2> HIDE DEF items
  <2>2. Len(items) \in Nat /\ Len(items) # 0
    BY <2>1
  <2> QED BY <2>1, <2>2 DEF items
<1>6. txn[h].call + 1 \in Nat \ {0}
  BY <1>3, Positive
<1> QED BY <1>1, <1>3, <1>4, <1>5, <1>6

\* The closure's next call starts with nothing cached and nothing imported.
LEMMA NextCallTyped ==
  ASSUME NEW t \in Txn
  PROVE  LET n == NextCall(t) IN
         /\ n \in Txn /\ n.seen = Unseen /\ n.item = 1 /\ n.job = t.job /\ n.phase = t.phase
         /\ n.pub = t.pub /\ n.tables = t.tables /\ n.ans = t.ans
<1>1. Unseen \in [Streams -> Nat] /\ 1 \in Nat \ {0}
  BY DEF Unseen
<1>2. t.call \in Nat /\ t.call >= 1
  BY Positive DEF Txn
<1>3. t.call + 1 \in Nat \ {0}
  BY <1>2, Positive
<1> DEFINE k == t.call + 1
           n == [t EXCEPT !.call = k, !.item = 1, !.seen = Unseen]
<1> HIDE DEF k
<1>4. NextCall(t) = n
  BY DEF NextCall, k
<1>5. /\ n \in Txn /\ n.seen = Unseen /\ n.item = 1 /\ n.job = t.job /\ n.phase = t.phase
      /\ n.pub = t.pub /\ n.tables = t.tables /\ n.ans = t.ans
  BY <1>1, <1>3 DEF Txn, k
<1> QED BY <1>4, <1>5

\* A closure appends.
LEMMA TxnAppendStep ==
  ASSUME IInv, NEW h \in Handles, TxnAppend(h)
  PROVE  IInv'
<1> DEFINE t == txn[h]
           items == ThisCall(h).items
           s == items[1].stream
           new == Positions(RunRows(t.tables, s, items))
           u == [NextCall(t) EXCEPT !.tables = AppendRun(t.tables, s, items),
                                    !.pub = @ \cup new]
<1>1. InBody(h) /\ ThisCall(h).verb = "append"
  BY DEF TxnAppend
<1>2. /\ t # None /\ t.phase = "open" /\ t.job.req.op = "txn"
      /\ items \in Seq(Item) /\ Len(items) >= 1 /\ t.call + 1 \in Nat \ {0}
  BY <1>1, BodyShape
<1>3. /\ t \in Txn /\ Sound(db, history, t) /\ t.tables \in Tables
      /\ db \in Tables /\ history \in SUBSET Row
  BY <1>2, RunningTxn
<1>4. t.seen = Unseen
  BY <1>1, <1>2, NoCache DEF MidImport, ThisCall
<1>5. IsRun(items) /\ s \in Streams
  <2>1. /\ Len(items) \in Nat /\ DOMAIN items = 1..Len(items)
        /\ \A i \in 1..Len(items) : items[i] \in Item
    BY <1>2
  <2> HIDE DEF items
  <2>2. 1 \in 1..Len(items)
    BY <1>2, <2>1
  <2> QED BY <2>1, <2>2 DEF IsRun, Item
<1>6. CASE RunTaken(t.tables, s, items)
  <2>1. Rollback(h, Answer("failed")) /\ "failed" \in Tags
    BY <1>6 DEF TxnAppend, Tags
  <2> QED BY <1>2, <2>1, RollbackStep
<1>7. CASE ~RunTaken(t.tables, s, items)
  <2>1. StepTxn(h, u)
    BY <1>7 DEF TxnAppend
  <2>2. /\ AppendRun(t.tables, s, items) \in Tables
        /\ RunRows(t.tables, s, items) \subseteq Row
    <3> HIDE DEF s, items, t
    <3> QED BY <1>3, <1>5, AppendRunType
  <2>3. new \in SUBSET Nat
    BY <2>2 DEF Positions, Row
  <2> DEFINE tables == AppendRun(t.tables, s, items)
             n == NextCall(t)
  <2> HIDE DEF s, items, new, tables
  <2>5. /\ n \in Txn /\ n.seen = Unseen /\ n.item = 1 /\ n.job = t.job /\ n.phase = t.phase
        /\ n.pub = t.pub
    <3> HIDE DEF t
    <3> QED BY <1>3, NextCallTyped DEF n
  <2>6. u = [n EXCEPT !.tables = tables, !.pub = n.pub \cup new]
    BY DEF tables
  <2> HIDE DEF u, n
  <2>7. tables \in Tables /\ n.pub \cup new \in SUBSET Nat
    BY <2>2, <2>3, <2>5 DEF Txn, tables
  <2>8. /\ u \in Txn /\ u.tables = tables /\ u.seen = Unseen /\ u.item = 1
        /\ u.job = t.job /\ u.phase = t.phase /\ u.pub = t.pub \cup new
    BY <2>5, <2>6, <2>7 DEF Txn
  <2>9. Sound(db, history, u)
    <3> HIDE DEF t
    <3> QED BY <1>2, <1>3, <1>4, <1>5, <2>8, AppendSound DEF new, tables
  <2> QED BY <1>2, <2>1, <2>8, <2>9, WorkStep DEF StepTxn
<1> QED BY <1>6, <1>7

\* A closure imports an event of a run.
LEMMA ImportItemStep ==
  ASSUME IInv, NEW h \in Handles, ImportItem(h)
  PROVE  IInv'
<1> DEFINE t == txn[h]
           e == ThisCall(h).items[t.item]
           n == CachedNext(t, e.stream)
           u == [t EXCEPT !.tables = InsertStamped(@, e.stream, n, e),
                          !.seen = [t.seen EXCEPT ![e.stream] = n + 1],
                          !.item = @ + 1]
<1>1. InBody(h) /\ ThisCall(h).verb = "import" /\ t.item <= Len(ThisCall(h).items)
  BY DEF ImportItem, Importing
<1>2. t # None /\ t.phase = "open" /\ t.job.req.op = "txn" /\ ThisCall(h).items \in Seq(Item)
  BY <1>1, BodyShape
<1>3. /\ t \in Txn /\ Sound(db, history, t) /\ db \in Tables /\ history \in SUBSET Row
      /\ t.item \in Nat \ {0}
  BY <1>2, RunningTxn DEF Txn
<1>4. e \in Item
  <2> DEFINE items == ThisCall(h).items
             k == t.item
  <2>1. items \in Seq(Item) /\ k \in 1..Len(items)
    BY <1>1, <1>2, <1>3
  <2> HIDE DEF items, k
  <2>2. items[k] \in Item
    BY <2>1
  <2> QED BY <2>2 DEF items, k
<1>5. MidImport(t)
  BY <1>1, <1>2 DEF MidImport, InBody, ThisCall
<1>6. CASE Taken(t.tables, e.stream, n)
  <2>1. Rollback(h, Answer("failed")) /\ "failed" \in Tags
    BY <1>6 DEF ImportItem, Tags
  <2> QED BY <1>2, <2>1, RollbackStep
<1>7. CASE ~Taken(t.tables, e.stream, n)
  <2>1. StepTxn(h, u)
    BY <1>7 DEF ImportItem
  <2>2. u \in Txn /\ Sound(db, history, u)
    <3> HIDE DEF t, e
    <3> QED BY <1>3, <1>4, <1>5, ImportSound
  <2> HIDE DEF u
  <2> QED BY <1>2, <2>1, <2>2, WorkStep DEF StepTxn
<1> QED BY <1>6, <1>7

\* A refused import, when the closure passes the error on.
LEMMA ImportRefusedStep ==
  ASSUME IInv, SwallowErrors = FALSE, NEW h \in Handles, ImportRefused(h)
  PROVE  IInv'
<1>1. txn[h] # None
  BY BodyShape DEF ImportRefused, Importing
<1>2. Rollback(h, Answer("err")) /\ "err" \in Tags
  BY DEF ImportRefused, Tags
<1> QED BY <1>1, <1>2, RollbackStep

\* The map's counters become the stored ones, and nothing is cached any more.
LEMMA ImportFlushStep ==
  ASSUME IInv, NEW h \in Handles, ImportFlush(h)
  PROVE  IInv'
<1> DEFINE t == txn[h]
           d == t.tables
           len == Len(ThisCall(h).items)
           nx == [s \in Streams |-> CachedNext(t, s)]
           tables == [d EXCEPT !.next = nx]
           done == d.autoinc - len + 1 .. d.autoinc
           n == NextCall(t)
           u == [n EXCEPT !.tables = tables, !.pub = @ \cup done]
<1>1. InBody(h) /\ t.item > len
  BY DEF ImportFlush
<1>2. /\ t # None /\ t.phase = "open" /\ t.job.req.op = "txn"
      /\ ThisCall(h).items \in Seq(Item) /\ len >= 1
  BY <1>1, BodyShape
<1>3. /\ t \in Txn /\ Sound(db, history, t) /\ d \in Tables /\ db \in Tables
      /\ history \in SUBSET Row
  BY <1>2, RunningTxn
<1>4. len \in Nat /\ t.item \in Nat /\ d.autoinc \in Nat /\ db.autoinc \in Nat
  BY <1>2, <1>3 DEF Txn, Tables
<1>5. nx \in [Streams -> Nat \ {0}] /\ EffNext(t) = nx
  <2>1. \A s \in Streams : CachedNext(t, s) \in Nat \ {0}
    BY <1>3 DEF CachedNext, NextSeq, Txn, Tables
  <2> QED BY <2>1 DEF EffNext
<1>6. done \subseteq 1..d.autoinc
  <2>1. t.item - 1 <= d.autoinc
    BY <1>3 DEF Sound
  <2>2. d.autoinc - len + 1 >= 1
    BY <2>1, <1>1, <1>4
  <2> QED BY <2>2, <1>4
<1>7. StepTxn(h, u)
  BY DEF ImportFlush
<1> HIDE DEF nx
<1>8. tables \in Tables /\ tables.events = d.events /\ tables.autoinc = d.autoinc /\ tables.next = nx
  <2> HIDE DEF d
  <2> QED BY <1>3, <1>5 DEF Tables
<1>9. /\ n \in Txn /\ n.seen = Unseen /\ n.item = 1 /\ n.job = t.job /\ n.phase = t.phase
      /\ n.pub = t.pub
  BY <1>3, NextCallTyped
<1> HIDE DEF n, tables, done
<1>10. done \in SUBSET Nat
  BY <1>6
<1>11. /\ u \in Txn /\ u.tables = tables /\ u.seen = Unseen /\ u.item = 1
       /\ u.job = t.job /\ u.phase = t.phase /\ u.pub = t.pub \cup done
  <2>1. n.pub \cup done \in SUBSET Nat
    BY <1>9, <1>10 DEF Txn
  <2> QED BY <2>1, <1>8, <1>9 DEF Txn
<1> HIDE DEF u
<1>12. EffNext(u) = nx
  BY <1>8, <1>11, EffNextUnseen
<1>13. Sound(db, history, u)
  <2>1. Dense(history \cup u.tables.events, u.tables.autoinc, EffNext(u))
    BY <1>3, <1>5, <1>8, <1>11, <1>12 DEF Sound
  <2>2. u.pub \subseteq 1..u.tables.autoinc
    BY <1>3, <1>6, <1>8, <1>11 DEF Sound
  <2>3. /\ db.autoinc <= u.tables.autoinc
        /\ \A r \in u.tables.events : r \in db.events \/ r.pos > db.autoinc
    BY <1>3, <1>8, <1>11 DEF Sound
  <2>4. u.item - 1 <= u.tables.autoinc
    BY <1>4, <1>8, <1>11
  <2> QED BY <2>1, <2>2, <2>3, <2>4, <1>2, <1>11 DEF Sound
<1> QED BY <1>2, <1>7, <1>11, <1>13, WorkStep DEF StepTxn

\* A closure returns Ok.
LEMMA BodyOkStep ==
  ASSUME IInv, NEW h \in Handles, BodyOk(h)
  PROVE  IInv'
<1> DEFINE t == txn[h]
           ans == Landed(t.pub)
           u == [t EXCEPT !.tables = t.tables, !.phase = "ready", !.ans = ans]
<1>1. /\ t # None /\ t.phase = "open" /\ t.job.req.op = "txn"
      /\ t.call > Len(t.job.req.calls) /\ Stage(h, t.tables, ans)
  BY DEF BodyOk, Running
<1>2. /\ t \in Txn /\ Sound(db, history, t) /\ db \in Tables /\ history \in SUBSET Row
      /\ t.job.req \in Requests
  BY <1>1, RunningTxn
<1>3. t.seen = Unseen
  <2>1. t.call \in Nat /\ Len(t.job.req.calls) \in Nat
    BY <1>1, <1>2, RequestShape DEF Txn
  <2>2. ~ MidImport(t)
    BY <2>1, <1>1 DEF MidImport
  <2> QED BY <2>2, <1>1, NoCache
<1>4. ans \in Ans /\ ans.positions = t.pub
  BY <1>2 DEF Landed, Ans, Tags, Txn
<1> HIDE DEF ans
<1>5. /\ u \in Txn /\ u.tables = t.tables /\ u.seen = Unseen /\ u.item = t.item
      /\ u.job = t.job /\ u.phase = "ready" /\ u.pub = t.pub /\ u.ans = ans
  BY <1>2, <1>3, <1>4 DEF Txn
<1>6. /\ txn' = [txn EXCEPT ![h] = u]
      /\ UNCHANGED <<db, history, lock, queue, task, notify, mode, ids>>
  BY <1>1 DEF Stage
<1> HIDE DEF u
<1>7. Sound(db, history, u)
  <2>1. EffNext(u) = EffNext(t)
    BY <1>2, <1>3, <1>5, EffNextUnseen
  <2> QED BY <2>1, <1>2, <1>4, <1>5 DEF Sound
<1> QED BY <1>1, <1>5, <1>6, <1>7, WorkStep

-----------------------------------------------------------------------------
(* The callers' steps, and the life of a handle.                           *)

\* A step that changes neither the tables nor any transaction keeps what is
\* said of them.
LEMMA OutsideStep ==
  ASSUME IInv, TypeOK', AnswersReal', WakeAfterCommit', UNCHANGED <<db, history, lock, txn>>
  PROVE  IInv'
BY DEF IInv, HistoryDense, LockHeld, WorkSound

\* A client calls.
LEMMA CallStep ==
  ASSUME IInv, NEW c \in Clients, NEW req \in Requests, Call(c, req)
  PROVE  IInv'
<1> DEFINE h == HandleOf[c]
           new == Asked(ids + 1, req)
           job == [id |-> ids + 1, client |-> c, req |-> req]
<1>1. h \in Handles /\ ids \in Nat /\ ids + 1 \in Nat
  BY HandleOfAssumption DEF IInv, TypeOK
<1>2. new \in Task /\ new.st = "waiting" /\ job \in Job
  <2>1. 0 \in 0..MaxBusyRetries
    BY BoundsAssumption
  <2> QED BY <2>1, <1>1 DEF Asked, Task, Job
<1>3. /\ task' = [task EXCEPT ![c] = new] /\ ids' = ids + 1
      /\ queue' = [queue EXCEPT ![h] = Append(queue[h], job)]
      /\ UNCHANGED <<db, history, lock, txn, notify, mode>>
  BY DEF Call, Enqueue
<1> HIDE DEF h, new, job
<1>4. TypeOK'
  <2>1. Append(queue[h], job) \in Seq(Job)
    BY <1>1, <1>2 DEF IInv, TypeOK
  <2> QED BY <2>1, <1>1, <1>2, <1>3 DEF IInv, TypeOK
<1>5. AnswersReal' /\ WakeAfterCommit'
  BY <1>2, <1>3 DEF IInv, TypeOK, AnswersReal, WakeAfterCommit
<1> QED BY <1>3, <1>4, <1>5, OutsideStep

\* An append is detached.
LEMMA DetachStep ==
  ASSUME IInv, NEW h \in Handles, NEW req \in Detachable, Detach(h, req)
  PROVE  IInv'
<1> DEFINE job == [id |-> ids + 1, client |-> None, req |-> req]
<1>1. ids \in Nat /\ ids + 1 \in Nat /\ req \in Requests
  BY RequestsAssumption DEF IInv, TypeOK
<1>2. job \in Job
  BY <1>1 DEF Job
<1>3. /\ ids' = ids + 1 /\ queue' = [queue EXCEPT ![h] = Append(queue[h], job)]
      /\ UNCHANGED <<db, history, lock, txn, task, notify, mode>>
  BY DEF Detach, Enqueue
<1> HIDE DEF job
<1>4. TypeOK'
  <2>1. Append(queue[h], job) \in Seq(Job)
    BY <1>2 DEF IInv, TypeOK
  <2> QED BY <2>1, <1>1, <1>3 DEF IInv, TypeOK
<1>5. AnswersReal' /\ WakeAfterCommit'
  BY <1>3 DEF IInv, AnswersReal, WakeAfterCommit
<1> QED BY <1>3, <1>4, <1>5, OutsideStep

\* A refused call waits, or queues again.
LEMMA RetryStep ==
  ASSUME IInv, NEW c \in Clients, BackOff(c) \/ Resubmit(c)
  PROVE  IInv'
<1> DEFINE h == HandleOf[c]
<1>0. h \in Handles /\ task[c] \in Task
  BY HandleOfAssumption DEF IInv, TypeOK
<1>1. CASE BackOff(c)
  <2> DEFINE k == task[c].tries + 1
             new == [task[c] EXCEPT !.st = "backoff", !.tries = k, !.ans = None]
  <2>1. k \in 0..MaxBusyRetries
    <3>1. task[c].tries \in 0..MaxBusyRetries /\ task[c].tries < MaxBusyRetries
      BY <1>0, <1>1 DEF BackOff, WillRetry, Task
    <3> QED BY <3>1, BoundsAssumption
  <2>2. task' = [task EXCEPT ![c] = new]
        /\ UNCHANGED <<db, history, lock, queue, txn, notify, mode, ids>>
    BY <1>1 DEF BackOff
  <2> HIDE DEF k
  <2>3. new \in Task /\ new.st = "backoff" /\ new.req \in Requests
    BY <1>0, <1>1, <2>1 DEF Task, BackOff, WillRetry, Retried
  <2> HIDE DEF new
  <2>4. TypeOK' /\ AnswersReal' /\ WakeAfterCommit'
    BY <2>2, <2>3 DEF IInv, TypeOK, AnswersReal, WakeAfterCommit
  <2> QED BY <2>2, <2>4, OutsideStep
<1>2. CASE Resubmit(c) /\ mode[h] = "open"
  <2> DEFINE job == [id |-> task[c].id, client |-> c, req |-> task[c].req]
             new == [task[c] EXCEPT !.st = "waiting"]
  <2>1. /\ task' = [task EXCEPT ![c] = new] /\ task[c].st = "backoff"
        /\ queue' = [queue EXCEPT ![h] = Append(queue[h], job)]
        /\ UNCHANGED <<db, history, lock, txn, notify, mode, ids>>
    BY <1>2 DEF Resubmit, Enqueue
  <2>2. new \in Task /\ new.st = "waiting"
    BY <1>0 DEF Task
  <2>3. job \in Job
    BY <1>0, <2>1 DEF IInv, AnswersReal, Task, Job
  <2> HIDE DEF h, job, new
  <2>4. TypeOK'
    <3>1. Append(queue[h], job) \in Seq(Job)
      BY <1>0, <2>3 DEF IInv, TypeOK
    <3> QED BY <3>1, <1>0, <2>1, <2>2 DEF IInv, TypeOK
  <2>5. AnswersReal' /\ WakeAfterCommit'
    BY <2>1, <2>2 DEF IInv, TypeOK, AnswersReal, WakeAfterCommit
  <2> QED BY <2>1, <2>4, <2>5, OutsideStep
<1>3. CASE Resubmit(c) /\ mode[h] # "open"
  <2> DEFINE ans == Answer("closed")
             new == [task[c] EXCEPT !.st = "answered", !.ans = ans]
  <2>1. /\ task' = [task EXCEPT ![c] = new]
        /\ UNCHANGED <<db, history, lock, queue, txn, notify, mode, ids>>
    BY <1>3 DEF Resubmit, Settle
  <2>2. ans \in Ans /\ ans.positions = {}
    BY DEF Answer, Ans, Tags
  <2> HIDE DEF ans
  <2>3. new \in Task /\ new.st = "answered" /\ new.ans = ans
    BY <1>0, <2>2 DEF Task
  <2> HIDE DEF new
  <2>4. TypeOK' /\ AnswersReal' /\ WakeAfterCommit'
    BY <2>1, <2>2, <2>3 DEF IInv, TypeOK, AnswersReal, WakeAfterCommit
  <2> QED BY <2>1, <2>4, OutsideStep
<1> QED BY <1>1, <1>2, <1>3

\* Publishing takes the channel to a committed position, never past it.
LEMMA ReturnStep ==
  ASSUME IInv, NEW c \in Clients, Return(c)
  PROVE  /\ IInv'
         /\ \A p \in task[c].ans.positions : notify'[HandleOf[c]] >= p
         /\ \A g \in Handles : notify'[g] >= notify[g]
<1> DEFINE h == HandleOf[c]
           ps == task[c].ans.positions
           top == MaxOrZero({notify[h]} \cup ps)
<1>1. /\ h \in Handles /\ db.autoinc \in Nat /\ notify \in [Handles -> Nat]
      /\ \A g \in Handles : notify[g] \in Nat /\ notify[g] <= db.autoinc
  BY HandleOfAssumption DEF IInv, TypeOK, Tables, WakeAfterCommit
<1>2. ps \subseteq 1..db.autoinc
  BY DEF IInv, AnswersReal, Return
<1>3. top \in 0..db.autoinc /\ top >= notify[h] /\ \A p \in ps : top >= p
  <2>1. {notify[h]} \cup ps \in SUBSET (0..db.autoinc)
    BY <1>1, <1>2
  <2> DEFINE S == {notify[h]} \cup ps
  <2>2. \A p \in S : p \in Nat
    BY <1>1, <1>2
  <2> HIDE DEF ps, h, S
  <2>3. MaxOrZero(S) \in 0..db.autoinc /\ \A p \in S : p <= MaxOrZero(S)
    BY <1>1, <2>1, MaxOrZeroBound DEF S
  <2>4. \A p \in S : MaxOrZero(S) >= p
    BY <2>2, <2>3, <1>1
  <2> QED BY <2>3, <2>4 DEF S
<1>4. /\ notify' = [notify EXCEPT ![h] = top] /\ task' = [task EXCEPT ![c] = Idle]
      /\ UNCHANGED <<db, history, lock, queue, txn, mode, ids>>
  BY DEF Return, Publish
<1>5. Idle \in Task /\ Idle.st = "idle"
  <2>1. 0 \in 0..MaxBusyRetries
    BY BoundsAssumption
  <2> QED BY <2>1 DEF Idle, Task
<1> HIDE DEF h, ps, top
<1>6. \A g \in Handles : notify'[g] = IF g = h THEN top ELSE notify[g]
  BY <1>1, <1>4
<1>7. TypeOK'
  <2>1. top \in Nat
    BY <1>1, <1>3
  <2> QED BY <2>1, <1>1, <1>4, <1>5 DEF IInv, TypeOK
<1>8. WakeAfterCommit'
  <2>1. top <= db.autoinc
    BY <1>1, <1>3
  <2> QED BY <2>1, <1>1, <1>4, <1>6 DEF WakeAfterCommit
<1>9. AnswersReal'
  BY <1>4, <1>5 DEF IInv, TypeOK, AnswersReal
<1>10. IInv'
  BY <1>4, <1>7, <1>8, <1>9, OutsideStep
<1>11. \A g \in Handles : notify'[g] >= notify[g]
  BY <1>1, <1>3, <1>6
<1> QED BY <1>1, <1>3, <1>6, <1>10, <1>11 DEF h, ps

\* Nobody awaits the job any more; it stays where it is.
LEMMA CancelStep ==
  ASSUME IInv, NEW c \in Clients, Cancel(c)
  PROVE  IInv'
<1> DEFINE h == HandleOf[c]
           q == [i \in DOMAIN queue[h] |-> Orphaned(queue[h][i], c)]
<1>1. h \in Handles /\ queue[h] \in Seq(Job) /\ txn[h] \in Txn \cup {None}
  BY HandleOfAssumption DEF IInv, TypeOK
<1>2. ASSUME NEW job \in Job
      PROVE  /\ Orphaned(job, c) \in Job /\ Orphaned(job, c).req = job.req
  BY DEF Orphaned, Job
<1>3. q \in Seq(Job)
  <2>1. /\ Len(queue[h]) \in Nat /\ DOMAIN queue[h] = 1..Len(queue[h])
        /\ \A i \in 1..Len(queue[h]) : queue[h][i] \in Job
    BY <1>1
  <2>2. q \in [1..Len(queue[h]) -> Job]
    BY <2>1, <1>2
  <2> HIDE DEF q
  <2> QED BY <2>1, <2>2
<1>4. Idle \in Task /\ Idle.st = "idle"
  <2>1. 0 \in 0..MaxBusyRetries
    BY BoundsAssumption
  <2> QED BY <2>1 DEF Idle, Task
<1> DEFINE t == txn[h]
           u == [t EXCEPT !.job = Orphaned(t.job, c)]
<1>5. ASSUME t # None PROVE u \in Txn /\ Sound(db, history, u)
  <2>1. t \in Txn /\ Sound(db, history, t)
    BY <1>1, <1>5, RunningTxn
  <2>2. t.job \in Job
    BY <2>1 DEF Txn
  <2> DEFINE j == Orphaned(t.job, c)
  <2>3. j \in Job /\ j.req = t.job.req
    BY <1>2, <2>2
  <2> HIDE DEF t, j
  <2>4. /\ u \in Txn /\ u.job = j /\ u.tables = t.tables /\ u.phase = t.phase /\ u.call = t.call
        /\ u.item = t.item /\ u.seen = t.seen /\ u.pub = t.pub /\ u.ans = t.ans
    BY <2>1, <2>3 DEF Txn, j
  <2> HIDE DEF u
  <2>5. EffNext(u) = EffNext(t) /\ (MidImport(t) => MidImport(u))
    BY <2>3, <2>4 DEF EffNext, CachedNext, MidImport
  <2> QED BY <2>1, <2>3, <2>4, <2>5 DEF Sound
<1> DEFINE v == IF t = None THEN None ELSE u
<1>6. /\ task' = [task EXCEPT ![c] = Idle] /\ queue' = [queue EXCEPT ![h] = q]
      /\ txn' = [txn EXCEPT ![h] = v]
      /\ UNCHANGED <<db, history, lock, notify, mode, ids>>
  BY DEF Cancel
<1>7. v \in Txn \cup {None} /\ (v # None <=> t # None) /\ (v # None => Sound(db, history, v))
  BY <1>5, NoTxnAssumption
<1> HIDE DEF h, q, v
<1>8. \A g \in Handles : txn'[g] = IF g = h THEN v ELSE txn[g]
  BY <1>1, <1>6 DEF IInv, TypeOK
<1>9. TypeOK'
  BY <1>1, <1>3, <1>4, <1>6, <1>7 DEF IInv, TypeOK
<1>10. LockHeld' /\ WorkSound'
  BY <1>6, <1>7, <1>8 DEF IInv, LockHeld, WorkSound
<1>11. AnswersReal' /\ HistoryDense' /\ WakeAfterCommit'
  BY <1>4, <1>6 DEF IInv, TypeOK, AnswersReal, HistoryDense, WakeAfterCommit
<1> QED BY <1>9, <1>10, <1>11 DEF IInv

\* A process dies.
LEMMA CrashStep ==
  ASSUME IInv, NEW h \in Handles, Crash(h)
  PROVE  IInv'
<1>1. /\ mode' = [mode EXCEPT ![h] = "closed"]
      /\ lock' = IF lock = h THEN None ELSE lock
      /\ queue' = [queue EXCEPT ![h] = <<>>]
      /\ txn' = [txn EXCEPT ![h] = None]
      /\ task' = [c \in Clients |-> IF HandleOf[c] = h THEN Idle ELSE task[c]]
      /\ UNCHANGED <<db, history, notify, ids>>
  BY DEF Crash
<1>2. Idle \in Task /\ Idle.st = "idle"
  <2>1. 0 \in 0..MaxBusyRetries
    BY BoundsAssumption
  <2> QED BY <2>1 DEF Idle, Task
<1>3. TypeOK'
  <2>1. task' \in [Clients -> Task]
    BY <1>1, <1>2 DEF IInv, TypeOK
  <2>2. <<>> \in Seq(Job)
    OBVIOUS
  <2> QED BY <1>1, <2>1, <2>2 DEF IInv, TypeOK, Modes
<1>4. \A g \in Handles : txn'[g] = IF g = h THEN None ELSE txn[g]
  BY <1>1 DEF IInv, TypeOK
<1>5. LockHeld' /\ WorkSound'
  BY <1>1, <1>4, NoneAssumption DEF IInv, LockHeld, WorkSound
<1>6. AnswersReal' /\ HistoryDense' /\ WakeAfterCommit'
  BY <1>1, <1>2 DEF IInv, TypeOK, AnswersReal, HistoryDense, WakeAfterCommit
<1> QED BY <1>3, <1>5, <1>6 DEF IInv

\* A handle is shut down.
LEMMA ModeStep ==
  ASSUME IInv, NEW h \in Handles, Shutdown(h) \/ Drained(h)
  PROVE  IInv'
<1>1. /\ mode' = [mode EXCEPT ![h] = "draining"] \/ mode' = [mode EXCEPT ![h] = "closed"]
      /\ UNCHANGED <<db, history, lock, queue, txn, task, notify, ids>>
  BY DEF Shutdown, Drained
<1>2. TypeOK'
  BY <1>1 DEF IInv, TypeOK, Modes
<1>3. AnswersReal' /\ WakeAfterCommit'
  BY <1>1 DEF IInv, AnswersReal, WakeAfterCommit
<1> QED BY <1>1, <1>2, <1>3, OutsideStep

\* The log is opened again.
LEMMA ReopenStep ==
  ASSUME IInv, NEW h \in Handles, Reopen(h)
  PROVE  IInv'
<1> DEFINE top == HeadPosition(db)
<1>1. /\ mode' = [mode EXCEPT ![h] = "open"] /\ notify' = [notify EXCEPT ![h] = top]
      /\ UNCHANGED <<db, history, lock, queue, txn, task, ids>>
  BY DEF Reopen
<1>2. db.autoinc \in Nat /\ top \in 0..db.autoinc
  <2>1. db.autoinc \in Nat /\ db.events \in SUBSET Row
    BY DEF IInv, TypeOK, Tables
  <2>2. \A r \in db.events : r.pos \in Nat /\ r.pos <= db.autoinc
    BY <2>1 DEF IInv, HistoryDense, Dense, Row
  <2>3. Positions(db.events) \in SUBSET (0..db.autoinc)
    BY <2>1, <2>2 DEF Positions
  <2>4. \A n \in Nat : n = db.autoinc => MaxOrZero(Positions(db.events)) \in 0..n
    BY <2>3, MaxOrZeroBound
  <2> QED BY <2>1, <2>4 DEF HeadPosition
<1> HIDE DEF top
<1>3. TypeOK'
  BY <1>1, <1>2 DEF IInv, TypeOK, Modes
<1>4. AnswersReal' /\ WakeAfterCommit'
  BY <1>1, <1>2 DEF IInv, TypeOK, AnswersReal, WakeAfterCommit
<1> QED BY <1>1, <1>3, <1>4, OutsideStep

-----------------------------------------------------------------------------
(* The theorems.                                                           *)

\* The invariant holds at the beginning.
LEMMA InitInv == ASSUME Init PROVE IInv
<1>1. Idle \in Task /\ Idle.st = "idle"
  <2>1. 0 \in 0..MaxBusyRetries
    BY BoundsAssumption
  <2> QED BY <2>1 DEF Idle, Task
<1>2. EmptyTables \in Tables
  BY DEF EmptyTables, Tables, NoRow
<1>3. TypeOK
  BY <1>1, <1>2 DEF Init, TypeOK, Modes
<1>4. HistoryDense
  BY DEF Init, HistoryDense, Dense, EmptyTables
<1>5. WakeAfterCommit /\ LockHeld /\ WorkSound /\ AnswersReal
  BY <1>1, NoneAssumption DEF Init, WakeAfterCommit, LockHeld, WorkSound, AnswersReal, EmptyTables
<1> QED BY <1>3, <1>4, <1>5 DEF IInv

\* Every step keeps the invariant.
LEMMA NextInv ==
  ASSUME SwallowErrors = FALSE, IInv, [Next]_vars
  PROVE  IInv'
<1>1. CASE UNCHANGED vars
  <2>1. TypeOK' /\ AnswersReal' /\ WakeAfterCommit'
    BY <1>1 DEF vars, IInv, TypeOK, AnswersReal, WakeAfterCommit
  <2> QED BY <1>1, <2>1, OutsideStep DEF vars
<1>2. ASSUME NEW h \in Handles, IsleStep(h) PROVE IInv'
  BY <1>2, BeginStep, ContendStep, CommitStep, RunsStep, RetainStep, TxnAppendStep,
     ImportItemStep, ImportRefusedStep, ImportFlushStep, BodyOkStep DEF IsleStep
<1>3. ASSUME NEW c \in Clients, CallerStep(c) PROVE IInv'
  BY <1>3, RetryStep, ReturnStep DEF CallerStep
<1>4. ASSUME NEW c \in Clients, Cancel(c) \/ \E req \in Requests : Call(c, req) PROVE IInv'
  BY <1>4, CancelStep, CallStep
<1>5. ASSUME NEW h \in Handles,
             \/ StatementFails(h) \/ BodyErr(h) \/ Shutdown(h) \/ Drained(h) \/ Crash(h)
             \/ Reopen(h) \/ \E req \in Detachable : Detach(h, req)
      PROVE IInv'
  BY <1>5, FailStep, ModeStep, CrashStep, ReopenStep, DetachStep
<1> QED BY <1>1, <1>2, <1>3, <1>4, <1>5 DEF Next

\* The strengthened invariant holds of every reachable state, when no closure
\* goes on after a refused import.
THEOREM Invariance == ASSUME SwallowErrors = FALSE PROVE Spec => []IInv
<1>1. Init => IInv
  BY InitInv
<1>2. IInv /\ [Next]_vars => IInv'
  BY NextInv
<1> QED BY <1>1, <1>2, PTL DEF Spec

\* Every variable keeps its type.
THEOREM TypeCorrect == ASSUME SwallowErrors = FALSE PROVE Spec => []TypeOK
<1>1. IInv => TypeOK
  BY DEF IInv
<1> QED BY <1>1, Invariance, PTL

\* However many handles and callers append, retry, transact, remove, fail and
\* crash, the history is numbered without a gap and without a repeat.
THEOREM HistoryIsDense == ASSUME SwallowErrors = FALSE PROVE Spec => []HistoryDense
<1>1. IInv => HistoryDense
  BY DEF IInv
<1> QED BY <1>1, Invariance, PTL

\* Subscribers are woken only at committed positions.
THEOREM WakesAreCommitted == ASSUME SwallowErrors = FALSE PROVE Spec => []WakeAfterCommit
<1>1. IInv => WakeAfterCommit
  BY DEF IInv
<1> QED BY <1>1, Invariance, PTL

\* Only a commit changes the committed tables and the history.
LEMMA OnlyCommitsWrite ==
  ASSUME [Next]_vars
  PROVE  (\E h \in Handles : Commit(h)) \/ UNCHANGED <<db, history>>
<1>1. ASSUME NEW h \in Handles, IsleStep(h) PROVE Commit(h) \/ UNCHANGED <<db, history>>
  <2>1. CASE Begin(h) \/ Contend(h) \/ ExecAppend(h) \/ ExecExpect(h) \/ ExecDecide(h)
    BY <2>1 DEF Begin, Contend, ExecAppend, ExecExpect, ExecDecide, AppendOrFail, Stage, Rollback
  <2>2. CASE ExecRetain(h) \/ TxnAppend(h) \/ ImportItem(h)
    BY <2>2 DEF ExecRetain, TxnAppend, ImportItem, Stage, Rollback, StepTxn
  <2>3. CASE ImportRefused(h) \/ ImportFlush(h) \/ BodyOk(h)
    BY <2>3 DEF ImportRefused, ImportFlush, BodyOk, Stage, Rollback, StepTxn
  <2> QED BY <1>1, <2>1, <2>2, <2>3 DEF IsleStep
<1>2. ASSUME NEW h \in Handles,
             \/ StatementFails(h) \/ BodyErr(h) \/ Shutdown(h) \/ Drained(h) \/ Crash(h)
             \/ Reopen(h) \/ \E req \in Detachable : Detach(h, req)
      PROVE  UNCHANGED <<db, history>>
  BY <1>2 DEF StatementFails, BodyErr, Rollback, Shutdown, Drained, Crash, Reopen, Detach
<1>3. ASSUME NEW c \in Clients, CallerStep(c) \/ Cancel(c) \/ \E req \in Requests : Call(c, req)
      PROVE  UNCHANGED <<db, history>>
  BY <1>3 DEF CallerStep, BackOff, Resubmit, Return, Cancel, Call
<1>4. CASE UNCHANGED vars
  BY <1>4 DEF vars
<1> QED BY <1>1, <1>2, <1>3, <1>4 DEF Next

\* A step that changes the committed tables is a commit, and what it adds is
\* above everything there was.
LEMMA CommitsAtTheEnd ==
  ASSUME IInv, [Next]_vars, NEW r \in db'.events \ db.events
  PROVE  r.pos > db.autoinc
<1>1. CASE UNCHANGED db
  BY <1>1
<1>2. ASSUME NEW h \in Handles, Commit(h) PROVE r.pos > db.autoinc
  BY <1>2, RunningTxn DEF Commit, Sound
<1>3. (\E h \in Handles : Commit(h)) \/ UNCHANGED db
  BY OnlyCommitsWrite
<1> QED BY <1>1, <1>2, <1>3

\* What becomes visible is above everything that ever was: a reader that has
\* read up to a position never has to go back.
THEOREM VisibleInOrder == ASSUME SwallowErrors = FALSE PROVE Spec => AppendsAtTheEnd
<1>1. IInv /\ [Next]_vars => [\A r \in db'.events \ db.events : r.pos > db.autoinc]_vars
  BY CommitsAtTheEnd
<1> QED BY <1>1, Invariance, PTL DEF Spec, AppendsAtTheEnd

\* The watch channel of an open handle only goes forward.
LEMMA NotifyForward ==
  ASSUME IInv, [Next]_vars, NEW g \in Handles, mode'[g] = mode[g]
  PROVE  notify'[g] >= notify[g]
<1>1. notify[g] \in Nat /\ notify \in [Handles -> Nat] /\ mode \in [Handles -> Modes]
  BY DEF IInv, TypeOK
<1>2. CASE UNCHANGED notify
  BY <1>1, <1>2
<1>3. ASSUME NEW c \in Clients, Return(c) PROVE notify'[g] >= notify[g]
  BY <1>3, ReturnStep
<1>4. ASSUME NEW h \in Handles, Reopen(h) PROVE notify'[g] >= notify[g]
  <2>1. g # h
    BY <1>1, <1>4 DEF Reopen
  <2>2. notify'[g] = notify[g]
    BY <1>1, <1>4, <2>1 DEF Reopen
  <2> QED BY <1>1, <2>2
<1>5. UNCHANGED notify \/ (\E c \in Clients : Return(c)) \/ (\E h \in Handles : Reopen(h))
  <2>1. ASSUME NEW h \in Handles, IsleStep(h) PROVE UNCHANGED notify
    <3>1. CASE Begin(h) \/ Contend(h) \/ Commit(h) \/ ExecAppend(h) \/ ExecExpect(h) \/ ExecDecide(h)
      BY <3>1 DEF Begin, Contend, Commit, ExecAppend, ExecExpect, ExecDecide, AppendOrFail, Stage,
                  Rollback
    <3>2. CASE ExecRetain(h) \/ TxnAppend(h) \/ ImportItem(h)
      BY <3>2 DEF ExecRetain, TxnAppend, ImportItem, Stage, Rollback, StepTxn
    <3>3. CASE ImportRefused(h) \/ ImportFlush(h) \/ BodyOk(h)
      BY <3>3 DEF ImportRefused, ImportFlush, BodyOk, Stage, Rollback, StepTxn
    <3> QED BY <2>1, <3>1, <3>2, <3>3 DEF IsleStep
  <2>2. ASSUME NEW h \in Handles,
               \/ StatementFails(h) \/ BodyErr(h) \/ Shutdown(h) \/ Drained(h) \/ Crash(h)
               \/ \E req \in Detachable : Detach(h, req)
        PROVE  UNCHANGED notify
    BY <2>2 DEF StatementFails, BodyErr, Rollback, Shutdown, Drained, Crash, Detach
  <2>3. ASSUME NEW c \in Clients,
               BackOff(c) \/ Resubmit(c) \/ Cancel(c) \/ \E req \in Requests : Call(c, req)
        PROVE  UNCHANGED notify
    BY <2>3 DEF BackOff, Resubmit, Cancel, Call
  <2>4. CASE UNCHANGED vars
    BY <2>4 DEF vars
  <2> QED BY <2>1, <2>2, <2>3, <2>4 DEF Next, CallerStep
<1> QED BY <1>2, <1>3, <1>4, <1>5

\* Whoever is told that a call landed can count on the subscribers having been
\* woken, in whatever order the calls of a handle return.
THEOREM ReturnsPublish == ASSUME SwallowErrors = FALSE PROVE Spec => ReturnedIsPublished
<1> DEFINE P == /\ \A c \in Clients : Return(c) =>
                     \A p \in task[c].ans.positions : notify'[HandleOf[c]] >= p
                /\ \A h \in Handles : mode'[h] = mode[h] => notify'[h] >= notify[h]
<1>1. IInv /\ [Next]_vars => P
  BY ReturnStep, NotifyForward
<1>2. IInv /\ [Next]_vars => [P]_vars
  BY <1>1
<1>3. Spec => [][P]_vars
  <2> HIDE DEF P
  <2> QED BY <1>2, Invariance, PTL DEF Spec
<1> QED BY <1>3 DEF ReturnedIsPublished

-----------------------------------------------------------------------------
(* The jobs of a handle, the running one first, as one line.               *)

LineOf(q, x) == IF x = None THEN q ELSE <<x.job>> \o q

Lines == [h \in Handles |-> LineOf(queue[h], txn[h])]

\* What LinearLog remembers of a job nobody waits for.
Note(job) == [id |-> job.id, req |-> job.req]

NotesOf(l) == {Note(l[i]) : i \in {k \in DOMAIN l : l[k].client = None}}

Unowned(L) == UNION {NotesOf(L[h]) : h \in Handles}

\* No two jobs have one id.
OneEach(L) ==
  \A h, g \in Handles : \A i \in DOMAIN L[h], j \in DOMAIN L[g] :
    L[h][i].id = L[g][j].id => h = g /\ i = j

\* A job that is somebody's is the call that client waits for.
Awaited(L, T, n) ==
  \A h \in Handles : \A i \in DOMAIN L[h] :
    LET job == L[h][i] IN
    /\ job.id <= n
    /\ job.client # None =>
         /\ HandleOf[job.client] = h
         /\ T[job.client].st = "waiting"
         /\ T[job.client].id = job.id
         /\ T[job.client].req = job.req

\* A call's id is its own and its job's.
Apart(L, T, n) ==
  \A c \in Clients : T[c].st # "idle" =>
    /\ T[c].id <= n
    /\ \A h \in Handles : \A i \in DOMAIN L[h] : L[h][i].id = T[c].id => L[h][i].client = c
    /\ \A b \in Clients : b # c /\ T[b].st # "idle" => T[b].id # T[c].id

Tracked(L, T, n) == OneEach(L) /\ Awaited(L, T, n) /\ Apart(L, T, n)

\* A line is a sequence of jobs.
LEMMA LineType ==
  ASSUME NEW q \in Seq(Job), NEW x \in Txn \cup {None}
  PROVE  LineOf(q, x) \in Seq(Job)
<1>1. x # None => x.job \in Job
  BY DEF Txn
<1> QED BY <1>1 DEF LineOf

\* Taking a job off the queue, adding one and disowning one, as the line sees it.
LEMMA LineSteps ==
  ASSUME NEW q \in Seq(Job), NEW x \in Txn \cup {None}, NEW job \in Job
  PROVE  /\ q # <<>> => \A t \in Txn : t.job = Head(q) => LineOf(Tail(q), t) = q
         /\ LineOf(q, None) = q
         /\ LineOf(Append(q, job), x) = Append(LineOf(q, x), job)
         /\ x # None => /\ LineOf(q, x) # <<>> /\ Head(LineOf(q, x)) = x.job
                        /\ Tail(LineOf(q, x)) = q
<1>1. ASSUME q # <<>>, NEW t \in Txn, t.job = Head(q) PROVE LineOf(Tail(q), t) = q
  <2>1. t # None
    BY NoTxnAssumption
  <2>2. <<Head(q)>> \o Tail(q) = q
    BY <1>1
  <2> QED BY <1>1, <2>1, <2>2 DEF LineOf
<1>2. LineOf(Append(q, job), x) = Append(LineOf(q, x), job)
  <2>1. CASE x = None
    BY <2>1 DEF LineOf
  <2>2. CASE x # None
    <3>1. x.job \in Job
      BY <2>2 DEF Txn
    <3> DEFINE j == x.job
    <3>2. <<j>> \o Append(q, job) = Append(<<j>> \o q, job)
      <4> HIDE DEF j
      <4>1. j \in Job
        BY <3>1 DEF j
      <4> QED BY <4>1
    <3> QED BY <2>2, <3>2 DEF LineOf
  <2> QED BY <2>1, <2>2
<1>3. ASSUME x # None
      PROVE  /\ LineOf(q, x) # <<>> /\ Head(LineOf(q, x)) = x.job
             /\ Tail(LineOf(q, x)) = q
  <2> DEFINE j == x.job
  <2>1. j \in Job
    BY <1>3 DEF Txn
  <2>2. <<j>> \o q # <<>> /\ Head(<<j>> \o q) = j /\ Tail(<<j>> \o q) = q
    <3> HIDE DEF j
    <3> QED BY <2>1
  <2> QED BY <1>3, <2>2 DEF LineOf
<1> QED BY <1>1, <1>2, <1>3 DEF LineOf

\* A sequence of jobs in which c no longer waits for its own.
Disown(q, c) == [i \in DOMAIN q |-> Orphaned(q[i], c)]

\* A job is disowned in its place.
LEMMA LineDisowned ==
  ASSUME NEW q \in Seq(Job), NEW x \in Txn \cup {None}, NEW c \in Clients,
         NEW y, x = None => y = None, x # None => y # None /\ y.job = Orphaned(x.job, c)
  PROVE  LineOf(Disown(q, c), y) = Disown(LineOf(q, x), c)
<1>1. CASE x = None
  BY <1>1 DEF LineOf
<1>2. CASE x # None
  <2> DEFINE j == x.job
             k == Orphaned(j, c)
             p == Disown(q, c)
  <2>1. j \in Job /\ k \in Job
    BY <1>2 DEF Txn, Orphaned, Job
  <2>2. \A job \in Job : Orphaned(job, c) \in Job
    BY DEF Orphaned, Job
  <2>3. Len(q) \in Nat /\ DOMAIN q = 1..Len(q) /\ \A i \in 1..Len(q) : q[i] \in Job
    OBVIOUS
  <2>4. p \in Seq(Job) /\ Len(p) = Len(q)
    <3>1. p \in [1..Len(q) -> Job]
      BY <2>2, <2>3 DEF Disown
    <3> HIDE DEF p
    <3> QED BY <2>3, <3>1
  <2>5. \A i \in 1..Len(q) : p[i] = Orphaned(q[i], c)
    BY <2>3 DEF Disown
  <2> HIDE DEF p, j
  <2>6. <<k>> \o p = Disown(<<j>> \o q, c)
    <3>1. /\ DOMAIN (<<k>> \o p) = 1..(Len(q) + 1) /\ DOMAIN (<<j>> \o q) = 1..(Len(q) + 1)
          /\ <<k>> \o p \in Seq(Job)
      <4> HIDE DEF k
      <4> QED BY <2>1, <2>3, <2>4
    <3>2. ASSUME NEW i \in 1..(Len(q) + 1)
          PROVE  (<<k>> \o p)[i] = Orphaned((<<j>> \o q)[i], c)
      <4>1. CASE i = 1
        <5>1. (<<k>> \o p)[1] = k /\ (<<j>> \o q)[1] = j
          <6> HIDE DEF k
          <6> QED BY <2>1, <2>3, <2>4
        <5> QED BY <4>1, <5>1
      <4>2. CASE i # 1
        <5>1. i - 1 \in 1..Len(q)
          BY <2>3, <4>2
        <5>2. (<<k>> \o p)[i] = p[i-1] /\ (<<j>> \o q)[i] = q[i-1]
          <6> HIDE DEF k
          <6> QED BY <2>1, <2>3, <2>4, <4>2
        <5> QED BY <2>5, <5>1, <5>2
      <4> QED BY <4>1, <4>2
    <3>3. <<k>> \o p = [i \in 1..(Len(q) + 1) |-> (<<k>> \o p)[i]]
      <4>1. \A s \in Seq(Job) : s = [i \in DOMAIN s |-> s[i]]
        OBVIOUS
      <4> QED BY <3>1, <4>1
    <3> QED BY <3>1, <3>2, <3>3 DEF Disown
  <2>7. y # None /\ y.job = k
    BY <1>2 DEF j
  <2> QED BY <1>2, <2>6, <2>7 DEF LineOf, p, j
<1> QED BY <1>1, <1>2

\* Where a note comes from.
LEMMA NotesFrom ==
  ASSUME NEW L, NEW o
  PROVE  o \in Unowned(L) <=> \E h \in Handles : \E i \in DOMAIN L[h] :
                                L[h][i].client = None /\ o = Note(L[h][i])
BY DEF Unowned, NotesOf

\* The first job of a handle's line is gone.
Dropped(L, h, L2) == \A g \in Handles : L2[g] = IF g = h THEN Tail(L[h]) ELSE L[g]

\* Whoever waited for a job waits no more.
Told(job, T, T2) ==
  LET c == job.client IN
  IF c = None THEN T2 = T
  ELSE /\ \A b \in Clients : b # c => T2[b] = T[b]
       /\ T2[c].st # "waiting" /\ T2[c].id = T[c].id

\* The first job of a line is done with, and whoever waited for it is told.
LEMMA LineDropped ==
  ASSUME NEW L \in [Handles -> Seq(Job)], NEW T \in [Clients -> Task], NEW n \in Nat,
         Tracked(L, T, n), NEW h \in Handles, L[h] # <<>>,
         NEW L2 \in [Handles -> Seq(Job)], Dropped(L, h, L2),
         NEW T2 \in [Clients -> Task], Told(Head(L[h]), T, T2)
  PROVE  /\ Tracked(L2, T2, n)
         /\ Unowned(L2) = IF Head(L[h]).client = None THEN Unowned(L) \ {Note(Head(L[h]))}
                          ELSE Unowned(L)
<1> USE DEF Dropped, Told
<1> DEFINE job == Head(L[h])
           c == job.client
           at(g, i) == IF g = h THEN i + 1 ELSE i
<1>1. /\ L[h] \in Seq(Job) /\ Len(L[h]) \in Nat /\ Len(L[h]) >= 1 /\ DOMAIN L[h] = 1..Len(L[h])
      /\ Tail(L[h]) \in Seq(Job) /\ job = L[h][1] /\ job \in Job
      /\ DOMAIN Tail(L[h]) = 1..(Len(L[h]) - 1)
      /\ \A i \in 1..(Len(L[h]) - 1) : Tail(L[h])[i] = L[h][i + 1]
  OBVIOUS
<1>2. L2 \in [Handles -> Seq(Job)]
  OBVIOUS
<1>3. \A g \in Handles : DOMAIN L[g] = 1..Len(L[g]) /\ Len(L[g]) \in Nat
  OBVIOUS
<1>4. ASSUME NEW g \in Handles, NEW i \in DOMAIN L2[g]
      PROVE  /\ at(g, i) \in DOMAIN L[g] /\ L2[g][i] = L[g][at(g, i)]
             /\ i \in Nat /\ (g = h => at(g, i) # 1)
  <2>1. CASE g = h
    <3>1. L2[h] = Tail(L[h])
      OBVIOUS
    <3>2. i \in 1..(Len(L[h]) - 1)
      BY <1>1, <1>4, <2>1, <3>1
    <3>3. i \in Nat /\ i + 1 \in 1..Len(L[h]) /\ i + 1 # 1
      BY <1>1, <3>2
    <3>4. L2[h][i] = L[h][i + 1]
      BY <1>1, <3>1, <3>2
    <3> QED BY <1>1, <2>1, <3>3, <3>4
  <2>2. CASE g # h
    <3>1. L2[g] = L[g]
      BY <2>2
    <3> QED BY <1>3, <1>4, <2>2, <3>1
  <2> QED BY <2>1, <2>2
<1>5. ASSUME NEW g \in Handles, NEW j \in DOMAIN L[g], ~(g = h /\ j = 1)
      PROVE  \E i \in DOMAIN L2[g] : at(g, i) = j
  <2>1. CASE g = h
    <3>1. j - 1 \in DOMAIN L2[g]
      BY <1>1, <1>5, <2>1
    <3>2. at(g, j - 1) = j
      BY <1>1, <2>1
    <3> QED BY <3>1, <3>2
  <2>2. CASE g # h
    BY <2>2
  <2> QED BY <2>1, <2>2
<1>6. \A g, k \in Handles : \A i \in DOMAIN L2[g], j \in DOMAIN L2[k] :
        g = k /\ at(g, i) = at(k, j) => i = j
  BY <1>4
<1>7. 1 \in DOMAIN L[h] /\ c \in Clients \cup {None}
  BY <1>1 DEF Job
<1> HIDE DEF at, job, c
<1>8. OneEach(L2)
  BY <1>4, <1>6 DEF Tracked, OneEach
<1>9. \A g \in Handles : \A i \in DOMAIN L2[g] : L2[g][i].id # job.id
  <2> SUFFICES ASSUME NEW g \in Handles, NEW i \in DOMAIN L2[g], L2[g][i].id = job.id PROVE FALSE
    OBVIOUS
  <2>1. L[g][at(g, i)].id = L[h][1].id /\ at(g, i) \in DOMAIN L[g] /\ (g = h => at(g, i) # 1)
    BY <1>1, <1>4
  <2> QED BY <2>1, <1>7 DEF Tracked, OneEach
<1>10. c # None => c \in Clients /\ T[c].id = job.id /\ T[c].st = "waiting"
  BY <1>1, <1>7 DEF Tracked, Awaited, c
<1>11. \A b \in Clients : T2[b].id = T[b].id /\ (T2[b].st # "idle" => T[b].st # "idle")
  BY <1>10 DEF c, job
<1>12. Awaited(L2, T2, n)
  <2> SUFFICES ASSUME NEW g \in Handles, NEW i \in DOMAIN L2[g]
               PROVE  /\ L2[g][i].id <= n
                      /\ L2[g][i].client # None =>
                           /\ HandleOf[L2[g][i].client] = g
                           /\ T2[L2[g][i].client].st = "waiting"
                           /\ T2[L2[g][i].client].id = L2[g][i].id
                           /\ T2[L2[g][i].client].req = L2[g][i].req
    BY DEF Awaited
  <2> DEFINE new == L2[g][i]
  <2>1. /\ new.id <= n
        /\ new.client # None => /\ HandleOf[new.client] = g /\ T[new.client].st = "waiting"
                                /\ T[new.client].id = new.id /\ T[new.client].req = new.req
    BY <1>4 DEF Tracked, Awaited
  <2>2. new.client \in Clients \cup {None}
    <3>1. L2[g] \in Seq(Job)
      BY <1>2
    <3>2. new \in Job
      BY <3>1
    <3> QED BY <3>2 DEF Job
  <2>3. new.client # None => new.client # c
    BY <1>9, <1>10, <2>1
  <2>4. new.client # None => T2[new.client] = T[new.client]
    BY <2>2, <2>3, <1>10 DEF c, job
  <2> QED BY <2>1, <2>4
<1>13. Apart(L2, T2, n)
  <2> SUFFICES ASSUME NEW b \in Clients, T2[b].st # "idle"
               PROVE  /\ T2[b].id <= n
                      /\ \A g \in Handles : \A i \in DOMAIN L2[g] :
                           L2[g][i].id = T2[b].id => L2[g][i].client = b
                      /\ \A a \in Clients : a # b /\ T2[a].st # "idle" => T2[a].id # T2[b].id
    BY DEF Apart
  <2>1. T2[b].id <= n /\ \A a \in Clients : a # b /\ T2[a].st # "idle" => T2[a].id # T2[b].id
    BY <1>11 DEF Tracked, Apart
  <2>2. \A g \in Handles : \A i \in DOMAIN L2[g] : L2[g][i].id = T2[b].id => L2[g][i].client = b
    BY <1>4, <1>11 DEF Tracked, Apart
  <2> QED BY <2>1, <2>2
<1>14. ASSUME NEW o
       PROVE  o \in Unowned(L2) <=> o \in Unowned(L) /\ ~(c = None /\ o = Note(job))
  <2>1. ASSUME o \in Unowned(L2) PROVE o \in Unowned(L) /\ o # Note(job)
    <3>1. PICK g \in Handles : \E i \in DOMAIN L2[g] : L2[g][i].client = None /\ o = Note(L2[g][i])
      BY <2>1, NotesFrom
    <3>2. PICK i \in DOMAIN L2[g] : L2[g][i].client = None /\ o = Note(L2[g][i])
      BY <3>1
    <3>3. o \in Unowned(L)
      BY <1>4, <3>2, NotesFrom
    <3>4. o.id # Note(job).id
      BY <1>9, <3>2 DEF Note
    <3> QED BY <3>3, <3>4
  <2>2. ASSUME o \in Unowned(L), ~(c = None /\ o = Note(job)) PROVE o \in Unowned(L2)
    <3>1. PICK g \in Handles : \E i \in DOMAIN L[g] : L[g][i].client = None /\ o = Note(L[g][i])
      BY <2>2, NotesFrom
    <3>2. PICK j \in DOMAIN L[g] : L[g][j].client = None /\ o = Note(L[g][j])
      BY <3>1
    <3>3. ~(g = h /\ j = 1)
      BY <1>1, <2>2, <3>2 DEF c
    <3>4. PICK i \in DOMAIN L2[g] : at(g, i) = j
      BY <1>5, <3>3
    <3>5. L2[g][i] = L[g][j]
      BY <1>4, <3>4
    <3> QED BY <3>2, <3>5, NotesFrom
  <2> QED BY <2>1, <2>2
<1>15. Unowned(L2) = IF c = None THEN Unowned(L) \ {Note(job)} ELSE Unowned(L)
  BY <1>14
<1> QED BY <1>2, <1>8, <1>12, <1>13, <1>15 DEF Tracked, c, job

\* A job is last in its handle's line.
Added(L, h, job, L2) == \A g \in Handles : L2[g] = IF g = h THEN Append(L[h], job) ELSE L[g]

\* No job in line, and no call but the job's own, has the job's id.
NewId(L, T, job) ==
  /\ \A h \in Handles : \A i \in DOMAIN L[h] : L[h][i].id # job.id
  /\ \A b \in Clients : b # job.client /\ T[b].st # "idle" => T[b].id # job.id

UpTo(n, job, m) == n <= m /\ job.id <= m

\* Whoever the job is for, and nobody else, begins to wait for it.
Waits(job, h, T, T2) ==
  LET c == job.client IN
  /\ \A b \in Clients : b # c => T2[b] = T[b]
  /\ c # None => /\ HandleOf[c] = h /\ T[c].st # "waiting"
                 /\ T2[c].st = "waiting" /\ T2[c].id = job.id /\ T2[c].req = job.req

\* Only a job that is nobody's is noted.
Noted(L, job, L2) ==
  Unowned(L2) = IF job.client = None THEN Unowned(L) \cup {Note(job)} ELSE Unowned(L)

\* A job joins a line, under an id of its own.
LEMMA LineAdded ==
  ASSUME NEW L \in [Handles -> Seq(Job)], NEW T \in [Clients -> Task], NEW n \in Nat,
         Tracked(L, T, n), NEW h \in Handles, NEW job \in Job,
         NEW L2 \in [Handles -> Seq(Job)], Added(L, h, job, L2),
         NEW T2 \in [Clients -> Task], NEW m \in Nat, UpTo(n, job, m),
         NewId(L, T, job), Waits(job, h, T, T2)
  PROVE  Tracked(L2, T2, m) /\ Noted(L, job, L2)
<1> USE DEF Added, NewId, Waits, UpTo
<1> DEFINE c == job.client
           e == Len(L[h]) + 1
<1>1. /\ L[h] \in Seq(Job) /\ Len(L[h]) \in Nat /\ DOMAIN L[h] = 1..Len(L[h])
      /\ Append(L[h], job) \in Seq(Job) /\ DOMAIN Append(L[h], job) = 1..e
      /\ \A i \in 1..Len(L[h]) : Append(L[h], job)[i] = L[h][i]
      /\ Append(L[h], job)[e] = job
  OBVIOUS
<1>2. L2 \in [Handles -> Seq(Job)]
  OBVIOUS
<1>3. \A g \in Handles : \A i \in DOMAIN L2[g] :
        \/ i \in DOMAIN L[g] /\ L2[g][i] = L[g][i]
        \/ g = h /\ i = e /\ L2[g][i] = job
  <2> SUFFICES ASSUME NEW g \in Handles, NEW i \in DOMAIN L2[g]
               PROVE  \/ i \in DOMAIN L[g] /\ L2[g][i] = L[g][i]
                      \/ g = h /\ i = e /\ L2[g][i] = job
    OBVIOUS
  <2>1. CASE g = h
    <3>1. i \in 1..e /\ L2[g][i] = Append(L[h], job)[i]
      BY <1>1, <2>1
    <3>2. CASE i = e
      BY <1>1, <2>1, <3>1, <3>2
    <3>3. CASE i # e
      <4>1. i \in 1..Len(L[h])
        BY <1>1, <3>1, <3>3
      <4> QED BY <1>1, <2>1, <3>1, <4>1
    <3> QED BY <3>2, <3>3
  <2>2. CASE g # h
    BY <2>2
  <2> QED BY <2>1, <2>2
<1>4. /\ \A g \in Handles : \A i \in DOMAIN L[g] : i \in DOMAIN L2[g] /\ L2[g][i] = L[g][i]
      /\ e \in DOMAIN L2[h] /\ L2[h][e] = job
  <2>1. L2[h] = Append(L[h], job) /\ \A g \in Handles : g # h => L2[g] = L[g]
    OBVIOUS
  <2>2. e \in 1..e /\ 1..Len(L[h]) \subseteq 1..e
    BY <1>1
  <2> QED BY <1>1, <2>1, <2>2
<1>5. c \in Clients \cup {None}
  BY DEF Job
<1> HIDE DEF e, c
<1>6. OneEach(L2)
  <2> SUFFICES ASSUME NEW g \in Handles, NEW k \in Handles, NEW i \in DOMAIN L2[g],
                      NEW j \in DOMAIN L2[k], L2[g][i].id = L2[k][j].id
               PROVE  g = k /\ i = j
    BY DEF OneEach
  <2> QED BY <1>3 DEF Tracked, OneEach
<1>7. \A g \in Handles : \A i \in DOMAIN L[g] : c # None => L[g][i].client # c
  BY DEF Tracked, Awaited, c
<1>8. \A b \in Clients : b # c => T2[b] = T[b] /\ (T[b].st # "idle" => T[b].id # job.id)
  BY DEF c
<1>9. Awaited(L2, T2, m)
  <2> SUFFICES ASSUME NEW g \in Handles, NEW i \in DOMAIN L2[g]
               PROVE  /\ L2[g][i].id <= m
                      /\ L2[g][i].client # None =>
                           /\ HandleOf[L2[g][i].client] = g
                           /\ T2[L2[g][i].client].st = "waiting"
                           /\ T2[L2[g][i].client].id = L2[g][i].id
                           /\ T2[L2[g][i].client].req = L2[g][i].req
    BY DEF Awaited
  <2>1. CASE i \in DOMAIN L[g] /\ L2[g][i] = L[g][i]
    <3> DEFINE old == L[g][i]
    <3>1. /\ old.id <= n
          /\ old.client # None => /\ HandleOf[old.client] = g /\ T[old.client].st = "waiting"
                                  /\ T[old.client].id = old.id /\ T[old.client].req = old.req
      BY <2>1 DEF Tracked, Awaited
    <3>2. old.client \in Clients \cup {None} /\ old.id \in Nat
      <4>1. L[g] \in Seq(Job)
        OBVIOUS
      <4>2. old \in Job
        BY <2>1, <4>1
      <4> QED BY <4>2 DEF Job
    <3>3. old.client # None => old.client # c
      BY <1>7, <2>1
    <3>4. old.client # None => T2[old.client] = T[old.client]
      BY <3>2, <3>3, <1>8
    <3>5. old.id <= m
      BY <3>1, <3>2
    <3> QED BY <2>1, <3>1, <3>4, <3>5
  <2>2. CASE g = h /\ i = e /\ L2[g][i] = job
    BY <2>2 DEF c
  <2> QED BY <1>3, <2>1, <2>2
<1>10. Apart(L2, T2, m)
  <2> SUFFICES ASSUME NEW b \in Clients, T2[b].st # "idle"
               PROVE  /\ T2[b].id <= m
                      /\ \A g \in Handles : \A i \in DOMAIN L2[g] :
                           L2[g][i].id = T2[b].id => L2[g][i].client = b
                      /\ \A a \in Clients : a # b /\ T2[a].st # "idle" => T2[a].id # T2[b].id
    BY DEF Apart
  <2>1. CASE b # c
    <3>1. T2[b] = T[b] /\ T[b].id # job.id /\ T[b].id \in Nat
      BY <1>8, <2>1 DEF Task
    <3>2. T[b].id <= n /\ \A a \in Clients : a # b /\ T[a].st # "idle" => T[a].id # T[b].id
      BY <3>1 DEF Tracked, Apart
    <3>3. T2[b].id <= m
      BY <3>1, <3>2
    <3>4. \A g \in Handles : \A i \in DOMAIN L[g] : L[g][i].id = T[b].id => L[g][i].client = b
      BY <3>1 DEF Tracked, Apart
    <3>5. ASSUME NEW a \in Clients, a # b, T2[a].st # "idle" PROVE T2[a].id # T2[b].id
      <4>1. CASE a = c
        <5>1. c # None
          BY <4>1, NoneAssumption
        <5> QED BY <3>1, <4>1, <5>1 DEF c
      <4>2. CASE a # c
        BY <1>8, <3>1, <3>2, <3>5, <4>2
      <4> QED BY <4>1, <4>2
    <3>6. ASSUME NEW g \in Handles, NEW i \in DOMAIN L2[g], L2[g][i].id = T2[b].id
          PROVE  L2[g][i].client = b
      BY <1>3, <3>1, <3>4, <3>6
    <3> QED BY <3>3, <3>5, <3>6
  <2>2. CASE b = c
    <3>1. c # None
      BY <2>2, NoneAssumption
    <3>2. T2[b].id = job.id
      BY <2>2, <3>1 DEF c
    <3>3. \A g \in Handles : \A i \in DOMAIN L2[g] : L2[g][i].id = job.id => L2[g][i].client = b
      BY <1>3, <2>2 DEF c
    <3>4. \A a \in Clients : a # b /\ T2[a].st # "idle" => T2[a].id # job.id
      BY <1>8, <2>2
    <3> QED BY <3>2, <3>3, <3>4
  <2> QED BY <2>1, <2>2
<1>11. ASSUME NEW o
       PROVE  o \in Unowned(L2) <=> o \in Unowned(L) \/ (c = None /\ o = Note(job))
  <2>1. ASSUME o \in Unowned(L2) PROVE o \in Unowned(L) \/ (c = None /\ o = Note(job))
    <3>1. PICK g \in Handles : \E i \in DOMAIN L2[g] : L2[g][i].client = None /\ o = Note(L2[g][i])
      BY <2>1, NotesFrom
    <3>2. PICK i \in DOMAIN L2[g] : L2[g][i].client = None /\ o = Note(L2[g][i])
      BY <3>1
    <3>3. \/ i \in DOMAIN L[g] /\ L2[g][i] = L[g][i]
          \/ g = h /\ i = e /\ L2[g][i] = job
      BY <1>3
    <3> QED BY <3>2, <3>3, NotesFrom DEF c
  <2>2. ASSUME o \in Unowned(L) \/ (c = None /\ o = Note(job)) PROVE o \in Unowned(L2)
    <3>1. CASE o \in Unowned(L)
      <4>1. PICK g \in Handles : \E i \in DOMAIN L[g] : L[g][i].client = None /\ o = Note(L[g][i])
        BY <3>1, NotesFrom
      <4> QED BY <1>4, <4>1, NotesFrom
    <3>2. CASE c = None /\ o = Note(job)
      <4>1. \E i \in DOMAIN L2[h] : L2[h][i].client = None /\ o = Note(L2[h][i])
        BY <1>4, <3>2 DEF c
      <4> QED BY <4>1, NotesFrom
    <3> QED BY <2>2, <3>1, <3>2
  <2> QED BY <2>1, <2>2
<1>12. Unowned(L2) = IF c = None THEN Unowned(L) \cup {Note(job)} ELSE Unowned(L)
  BY <1>11
<1> QED BY <1>2, <1>6, <1>9, <1>10, <1>12 DEF Tracked, Noted, c

\* The jobs of L2 are jobs of L in their places, which still wait for the same
\* caller, or for none that has one.
JobsKept(L, T, L2, T2) ==
  \A g \in Handles : \A i \in DOMAIN L2[g] :
    /\ i \in DOMAIN L[g] /\ L2[g][i].id = L[g][i].id /\ L2[g][i].req = L[g][i].req
    /\ L2[g][i].client # None =>
         /\ L2[g][i].client = L[g][i].client
         /\ T2[L[g][i].client] = T[L[g][i].client]
    /\ L2[g][i].client = None =>
         L[g][i].client = None \/ T2[L[g][i].client].st = "idle"

\* No caller begins a call, and none changes the job it is about.
CallsKept(T, T2) ==
  \A b \in Clients : T2[b].st # "idle" => T[b].st # "idle" /\ T2[b].id = T[b].id

\* Lines that keep what is in them, or lose it, and jobs that lose their owner
\* with the call.
LEMMA LineKept ==
  ASSUME NEW L, NEW T, NEW n, Tracked(L, T, n), NEW L2, NEW T2,
         JobsKept(L, T, L2, T2), CallsKept(T, T2)
  PROVE  Tracked(L2, T2, n)
<1> USE DEF JobsKept, CallsKept
<1>1. OneEach(L2)
  BY DEF Tracked, OneEach
<1>2. Awaited(L2, T2, n)
  <2> SUFFICES ASSUME NEW g \in Handles, NEW i \in DOMAIN L2[g]
               PROVE  /\ L2[g][i].id <= n
                      /\ L2[g][i].client # None =>
                           /\ HandleOf[L2[g][i].client] = g
                           /\ T2[L2[g][i].client].st = "waiting"
                           /\ T2[L2[g][i].client].id = L2[g][i].id
                           /\ T2[L2[g][i].client].req = L2[g][i].req
    BY DEF Awaited
  <2> QED BY DEF Tracked, Awaited
<1>3. Apart(L2, T2, n)
  <2> SUFFICES ASSUME NEW b \in Clients, T2[b].st # "idle"
               PROVE  /\ T2[b].id <= n
                      /\ \A g \in Handles : \A i \in DOMAIN L2[g] :
                           L2[g][i].id = T2[b].id => L2[g][i].client = b
                      /\ \A a \in Clients : a # b /\ T2[a].st # "idle" => T2[a].id # T2[b].id
    BY DEF Apart
  <2>1. T2[b].id <= n /\ \A a \in Clients : a # b /\ T2[a].st # "idle" => T2[a].id # T2[b].id
    BY DEF Tracked, Apart
  <2>2. ASSUME NEW g \in Handles, NEW i \in DOMAIN L2[g], L2[g][i].id = T2[b].id
        PROVE  L2[g][i].client = b
    <3>1. L[g][i].client = b
      BY <2>2 DEF Tracked, Apart
    <3> QED BY <3>1, NoneAssumption
  <2> QED BY <2>1, <2>2
<1> QED BY <1>1, <1>2, <1>3 DEF Tracked

\* One caller goes on, or is done.
Moves(T, c, T2) ==
  /\ \A b \in Clients : b # c => T2[b] = T[b]
  /\ T2[c].st = "idle" \/ T2[c].id = T[c].id

\* A caller that awaits nothing moves, and no job changes.
LEMMA TaskMoved ==
  ASSUME NEW L \in [Handles -> Seq(Job)], NEW T \in [Clients -> Task], NEW n, Tracked(L, T, n),
         NEW c \in Clients, T[c].st \notin {"idle", "waiting"}, NEW T2, Moves(T, c, T2)
  PROVE  Tracked(L, T2, n)
<1>0. ASSUME NEW g \in Handles, NEW i \in DOMAIN L[g] PROVE L[g][i].client \in Clients \cup {None}
  <2>1. L[g] \in Seq(Job)
    OBVIOUS
  <2>2. L[g][i] \in Job
    BY <2>1
  <2> QED BY <2>2 DEF Job
<1>1. \A g \in Handles : \A i \in DOMAIN L[g] :
        L[g][i].client # None => T2[L[g][i].client] = T[L[g][i].client]
  BY <1>0 DEF Tracked, Awaited, Moves
<1>2. CallsKept(T, T2)
  BY DEF Moves, CallsKept
<1>3. JobsKept(L, T, L, T2)
  BY <1>1 DEF JobsKept
<1> QED BY <1>2, <1>3, LineKept

\* The jobs of client c are nobody's any more.
Disowned(L, c, L2) ==
  \A g \in Handles : L2[g] = IF g = HandleOf[c] THEN Disown(L[g], c) ELSE L[g]

Freed(T, c, T2) == \A b \in Clients : T2[b] = IF b = c THEN Idle ELSE T[b]

\* What a caller that goes away leaves behind: at most the job it waited for.
Left(L, T, c, L2) ==
  \/ Unowned(L2) = Unowned(L)
  \/ \E o \in Unowned(L2) : /\ Unowned(L2) = Unowned(L) \cup {o}
                            /\ T[c].st = "waiting" /\ o.req = T[c].req

\* The caller's future is dropped.
LEMMA LineDisownedKept ==
  ASSUME NEW L \in [Handles -> Seq(Job)], NEW T \in [Clients -> Task], NEW n, Tracked(L, T, n),
         NEW c \in Clients, T[c].st # "idle",
         NEW L2 \in [Handles -> Seq(Job)], Disowned(L, c, L2),
         NEW T2, Freed(T, c, T2)
  PROVE  Tracked(L2, T2, n) /\ Left(L, T, c, L2)
<1> USE DEF Disowned, Freed, Left
<1>1. ASSUME NEW g \in Handles, NEW i \in DOMAIN L[g]
      PROVE  /\ L[g][i].client \in Clients \cup {None} /\ L[g][i] \in Job
             /\ L[g][i].client = c => /\ g = HandleOf[c] /\ T[c].st = "waiting"
                                      /\ T[c].id = L[g][i].id /\ T[c].req = L[g][i].req
  <2>1. L[g] \in Seq(Job)
    OBVIOUS
  <2>2. L[g][i] \in Job
    BY <2>1
  <2>3. L[g][i].client \in Clients \cup {None} /\ c # None
    BY <2>2, NoneAssumption DEF Job
  <2>4. L[g][i].client = c => /\ g = HandleOf[c] /\ T[c].st = "waiting"
                              /\ T[c].id = L[g][i].id /\ T[c].req = L[g][i].req
    BY <2>3 DEF Tracked, Awaited
  <2> QED BY <2>2, <2>3, <2>4
<1>2. \A job \in Job : /\ Orphaned(job, c).id = job.id /\ Orphaned(job, c).req = job.req
                       /\ Orphaned(job, c).client = IF job.client = c THEN None ELSE job.client
  BY DEF Orphaned, Job
<1>3. \A g \in Handles : /\ DOMAIN L2[g] = DOMAIN L[g]
                         /\ \A i \in DOMAIN L[g] :
                              L2[g][i] = IF g = HandleOf[c] THEN Orphaned(L[g][i], c) ELSE L[g][i]
  BY DEF Disown
<1>4. ASSUME NEW g \in Handles, NEW i \in DOMAIN L[g]
      PROVE  /\ L2[g][i].id = L[g][i].id /\ L2[g][i].req = L[g][i].req
             /\ L2[g][i].client = IF L[g][i].client = c THEN None ELSE L[g][i].client
  BY <1>1, <1>2, <1>3
<1>5. Idle.st = "idle"
  BY DEF Idle
<1>6. Tracked(L2, T2, n)
  <2>1. ASSUME NEW g \in Handles, NEW i \in DOMAIN L2[g]
        PROVE  /\ i \in DOMAIN L[g] /\ L2[g][i].id = L[g][i].id /\ L2[g][i].req = L[g][i].req
               /\ L2[g][i].client # None =>
                    /\ L2[g][i].client = L[g][i].client
                    /\ T2[L[g][i].client] = T[L[g][i].client]
               /\ L2[g][i].client = None =>
                    L[g][i].client = None \/ T2[L[g][i].client].st = "idle"
    <3>1. i \in DOMAIN L[g]
      BY <1>3
    <3>2. /\ L2[g][i].id = L[g][i].id /\ L2[g][i].req = L[g][i].req
          /\ L2[g][i].client = IF L[g][i].client = c THEN None ELSE L[g][i].client
          /\ L[g][i].client \in Clients \cup {None}
      BY <1>1, <1>4, <3>1
    <3>3. T2[c].st = "idle" /\ \A b \in Clients : b # c => T2[b] = T[b]
      BY <1>5
    <3> QED BY <3>1, <3>2, <3>3
  <2>2. CallsKept(T, T2)
    BY <1>5 DEF CallsKept
  <2>3. JobsKept(L, T, L2, T2)
    BY ONLY <2>1 DEF JobsKept
  <2> QED BY <2>2, <2>3, LineKept
<1>7. ASSUME NEW g \in Handles, NEW i \in DOMAIN L[g]
      PROVE  Note(L2[g][i]) = Note(L[g][i])
  BY <1>4 DEF Note
<1>8. CASE \E g \in Handles : \E i \in DOMAIN L[g] : L[g][i].client = c
  <2>1. PICK g \in Handles : \E i \in DOMAIN L[g] : L[g][i].client = c
    BY <1>8
  <2>2. PICK i \in DOMAIN L[g] : L[g][i].client = c
    BY <2>1
  <2> DEFINE o == Note(L[g][i])
  <2>3. o.req = T[c].req /\ T[c].st = "waiting"
    BY <1>1, <2>2 DEF Note
  <2>4. \A k \in Handles : \A j \in DOMAIN L[k] : L[k][j].client = c => k = g /\ j = i
    <3>1. ASSUME NEW k \in Handles, NEW j \in DOMAIN L[k], L[k][j].client = c
          PROVE  k = g /\ j = i
      <4>1. L[k][j].id = L[g][i].id
        BY <1>1, <2>2, <3>1
      <4> QED BY <4>1 DEF Tracked, OneEach
    <3> QED BY <3>1
  <2>5. ASSUME NEW x PROVE x \in Unowned(L2) <=> x \in Unowned(L) \/ x = o
    <3>1. ASSUME x \in Unowned(L2) PROVE x \in Unowned(L) \/ x = o
      <4>1. PICK k \in Handles : \E j \in DOMAIN L2[k] : L2[k][j].client = None /\ x = Note(L2[k][j])
        BY <3>1, NotesFrom
      <4>2. PICK j \in DOMAIN L2[k] : L2[k][j].client = None /\ x = Note(L2[k][j])
        BY <4>1
      <4>3. j \in DOMAIN L[k] /\ x = Note(L[k][j])
        BY <1>3, <1>7, <4>2
      <4>4. CASE L[k][j].client = c
        BY <2>4, <4>3, <4>4
      <4>5. CASE L[k][j].client # c
        <5>1. L[k][j].client = None
          BY <1>4, <4>2, <4>3, <4>5
        <5> QED BY <4>3, <5>1, NotesFrom
      <4> QED BY <4>4, <4>5
    <3>2. ASSUME x \in Unowned(L) PROVE x \in Unowned(L2)
      <4>1. PICK k \in Handles : \E j \in DOMAIN L[k] : L[k][j].client = None /\ x = Note(L[k][j])
        BY <3>2, NotesFrom
      <4>2. PICK j \in DOMAIN L[k] : L[k][j].client = None /\ x = Note(L[k][j])
        BY <4>1
      <4>3. j \in DOMAIN L2[k] /\ L2[k][j].client = None /\ x = Note(L2[k][j])
        BY <1>3, <1>4, <1>7, <4>2
      <4> QED BY <4>3, NotesFrom
    <3>3. o \in Unowned(L2)
      <4>1. i \in DOMAIN L2[g] /\ L2[g][i].client = None /\ o = Note(L2[g][i])
        BY <1>3, <1>4, <1>7, <2>2
      <4> QED BY <4>1, NotesFrom
    <3> QED BY <3>1, <3>2, <3>3
  <2> HIDE DEF o
  <2>6. Unowned(L2) = Unowned(L) \cup {o} /\ o \in Unowned(L2)
    BY <2>5
  <2> QED BY <1>6, <2>3, <2>6
<1>9. CASE ~ \E g \in Handles : \E i \in DOMAIN L[g] : L[g][i].client = c
  <2>1. ASSUME NEW x PROVE x \in Unowned(L2) <=> x \in Unowned(L)
    <3>1. \A g \in Handles : \A i \in DOMAIN L[g] : L2[g][i].client = L[g][i].client
      BY <1>4, <1>9
    <3>2. x \in Unowned(L2) <=> \E k \in Handles : \E j \in DOMAIN L2[k] : L2[k][j].client = None /\ x = Note(L2[k][j])
      BY NotesFrom
    <3>3. x \in Unowned(L) <=> \E k \in Handles : \E j \in DOMAIN L[k] : L[k][j].client = None /\ x = Note(L[k][j])
      BY NotesFrom
    <3>4. \A g \in Handles : DOMAIN L2[g] = DOMAIN L[g] /\ \A i \in DOMAIN L[g] : Note(L2[g][i]) = Note(L[g][i])
      BY <1>3, <1>7
    <3>5. ASSUME x \in Unowned(L2) PROVE x \in Unowned(L)
      <4>1. PICK k \in Handles : \E j \in DOMAIN L2[k] : L2[k][j].client = None /\ x = Note(L2[k][j])
        BY <3>2, <3>5
      <4>2. PICK j \in DOMAIN L2[k] : L2[k][j].client = None /\ x = Note(L2[k][j])
        BY <4>1
      <4>3. j \in DOMAIN L[k] /\ L[k][j].client = None /\ x = Note(L[k][j])
        BY <3>1, <3>4, <4>2
      <4> QED BY <3>3, <4>3
    <3>6. ASSUME x \in Unowned(L) PROVE x \in Unowned(L2)
      <4>1. PICK k \in Handles : \E j \in DOMAIN L[k] : L[k][j].client = None /\ x = Note(L[k][j])
        BY <3>3, <3>6
      <4>2. PICK j \in DOMAIN L[k] : L[k][j].client = None /\ x = Note(L[k][j])
        BY <4>1
      <4>3. j \in DOMAIN L2[k] /\ L2[k][j].client = None /\ x = Note(L2[k][j])
        BY <3>1, <3>4, <4>2
      <4> QED BY <3>2, <4>3
    <3> QED BY <3>5, <3>6
  <2>2. Unowned(L2) = Unowned(L)
    BY <2>1
  <2> QED BY <1>6, <2>2
<1> QED BY <1>8, <1>9

\* A handle's line is gone, and the calls on the handle with it.
Lost(L, T, h, L2, T2) ==
  /\ \A g \in Handles : L2[g] = IF g = h THEN <<>> ELSE L[g]
  /\ \A b \in Clients : T2[b] = IF HandleOf[b] = h THEN Idle ELSE T[b]

\* A process dies with its line.
LEMMA LineLost ==
  ASSUME NEW L \in [Handles -> Seq(Job)], NEW T \in [Clients -> Task], NEW n, Tracked(L, T, n),
         NEW h \in Handles, NEW L2, NEW T2, Lost(L, T, h, L2, T2)
  PROVE  Tracked(L2, T2, n) /\ Unowned(L2) \subseteq Unowned(L)
<1> USE DEF Lost
<1>1. \A g \in Handles : \A i \in DOMAIN L2[g] : g # h /\ L2[g] = L[g]
  OBVIOUS
<1>2. ASSUME NEW g \in Handles, NEW i \in DOMAIN L2[g]
      PROVE  L2[g][i].client # None => T2[L2[g][i].client] = T[L2[g][i].client]
  <2>1. L[g] \in Seq(Job) /\ L2[g] = L[g] /\ g # h
    BY <1>1
  <2>2. L[g][i] \in Job
    BY <2>1
  <2>3. L[g][i].client \in Clients \cup {None}
    BY <2>2 DEF Job
  <2>4. L[g][i].client # None => HandleOf[L[g][i].client] = g
    BY <2>1 DEF Tracked, Awaited
  <2> QED BY <2>1, <2>3, <2>4
<1>3. CallsKept(T, T2)
  BY DEF Idle, CallsKept
<1>4. Tracked(L2, T2, n)
  <2>1. JobsKept(L, T, L2, T2)
    <3> SUFFICES ASSUME NEW g \in Handles, NEW i \in DOMAIN L2[g]
                 PROVE  /\ i \in DOMAIN L[g] /\ L2[g][i] = L[g][i]
                        /\ L2[g][i].client # None => T2[L[g][i].client] = T[L[g][i].client]
      BY DEF JobsKept
    <3>1. L2[g] = L[g]
      BY <1>1
    <3>2. L2[g][i].client # None => T2[L2[g][i].client] = T[L2[g][i].client]
      BY <1>2
    <3> QED BY <3>1, <3>2
  <2> QED BY <1>3, <2>1, LineKept
<1>5. ASSUME NEW x, x \in Unowned(L2) PROVE x \in Unowned(L)
  <2>1. PICK k \in Handles : \E j \in DOMAIN L2[k] : L2[k][j].client = None /\ x = Note(L2[k][j])
    BY <1>5, NotesFrom
  <2> QED BY <1>1, <2>1, NotesFrom
<1> QED BY <1>4, <1>5

-----------------------------------------------------------------------------
(* What a list of items becomes when it is appended.                       *)

\* How many of the first k are for one stream.
Count(D, k, s) == Cardinality({j \in 1..k : D[j].stream = s})

RowAt(d, D, i) ==
  [pos |-> d.autoinc + i, stream |-> D[i].stream,
   seq |-> d.next[D[i].stream] - 1 + Count(D, i, D[i].stream),
   kind |-> D[i].kind, at |-> D[i].at]

Rows(d, D) == {RowAt(d, D, i) : i \in 1..Len(D)}

\* The size of an interval.
LEMMA IntervalSize ==
  ASSUME NEW n \in Nat, NEW i \in Nat
  PROVE  IsFiniteSet((n + 1)..(n + i)) /\ Cardinality((n + 1)..(n + i)) = i
<1> DEFINE a == n + 1
           b == n + i
<1>1. a \in Int /\ b \in Int
  OBVIOUS
<1>2. (IF a > b THEN 0 ELSE b - a + 1) = i
  OBVIOUS
<1> HIDE DEF a, b
<1>3. IsFiniteSet(a..b) /\ Cardinality(a..b) = IF a > b THEN 0 ELSE b - a + 1
  BY <1>1, FS_Interval
<1> QED BY <1>2, <1>3 DEF a, b

\* A dense history holds as many rows as its counters say.
LEMMA DenseCounts ==
  ASSUME NEW rows \in SUBSET Row, NEW autoinc \in Nat, NEW next \in [Streams -> Nat \ {0}],
         Dense(rows, autoinc, next)
  PROVE  /\ Cardinality(rows) = autoinc
         /\ \A s \in Streams : Cardinality({r \in rows : r.stream = s}) = next[s] - 1
<1>1. \A r \in rows : r.pos \in Nat /\ r.pos >= 1 /\ r.seq \in Nat /\ r.seq >= 1
  BY Positive DEF Row
<1>2. Cardinality(rows) = autoinc
  <2> DEFINE f == [n \in 1..autoinc |-> CHOOSE r \in rows : r.pos = n]
  <2>1. \A n \in 1..autoinc : f[n] \in rows /\ f[n].pos = n
    BY DEF Dense
  <2>2. f \in [1..autoinc -> rows]
    BY <2>1
  <2> HIDE DEF f
  <2>3. \A x, y \in 1..autoinc : f[x] = f[y] => x = y
    BY <2>1
  <2>4. \A r \in rows : \E n \in 1..autoinc : f[n] = r
    <3>1. ASSUME NEW r \in rows PROVE r.pos \in 1..autoinc /\ f[r.pos] = r
      <4>1. r.pos \in 1..autoinc
        BY <1>1 DEF Dense
      <4> QED BY <4>1, <2>1 DEF Dense
    <3> QED BY <3>1
  <2>5. IsFiniteSet(1..autoinc) /\ Cardinality(1..autoinc) = autoinc
    BY FS_Interval
  <2> QED BY <2>2, <2>3, <2>4, <2>5, SameSize
<1>3. ASSUME NEW s \in Streams
      PROVE  Cardinality({r \in rows : r.stream = s}) = next[s] - 1
  <2> DEFINE S == {r \in rows : r.stream = s}
             m == next[s] - 1
             f == [n \in 1..m |-> CHOOSE r \in rows : r.stream = s /\ r.seq = n]
  <2>1. m \in Nat /\ next[s] = m + 1
    BY Positive
  <2>2. \A n \in 1..m : f[n] \in S /\ f[n].seq = n
    BY DEF Dense
  <2>3. f \in [1..m -> S]
    BY <2>2
  <2>4. \A r \in S : r.seq \in 1..m
    <3>1. ASSUME NEW r \in S PROVE r.seq < next[s] /\ r.seq \in Nat /\ r.seq >= 1
      BY <1>1 DEF Dense
    <3> HIDE DEF m
    <3> QED BY <2>1, <3>1
  <2>5. \A r, q \in S : r.seq = q.seq => r = q
    <3> SUFFICES ASSUME NEW r \in S, NEW q \in S, r.seq = q.seq PROVE r = q
      OBVIOUS
    <3>1. /\ r \in rows /\ q \in rows /\ r.stream = q.stream
          /\ r.pos \in Nat /\ q.pos \in Nat /\ r.seq \in Nat /\ q.seq \in Nat
      BY <1>1
    <3>2. ~(r.seq < q.seq) /\ ~(q.seq < r.seq)
      BY <3>1
    <3>3. ~(r.pos < q.pos) /\ ~(q.pos < r.pos)
      BY <3>1, <3>2 DEF Dense
    <3>4. r.pos = q.pos
      BY <3>1, <3>3
    <3> QED BY <3>1, <3>4 DEF Dense
  <2> HIDE DEF f, S, m
  <2>6. \A x, y \in 1..m : f[x] = f[y] => x = y
    BY <2>2
  <2>7. \A r \in S : \E n \in 1..m : f[n] = r
    BY <2>2, <2>3, <2>4, <2>5
  <2>8. IsFiniteSet(1..m) /\ Cardinality(1..m) = m
    <3>1. IsFiniteSet((0 + 1)..(0 + m)) /\ Cardinality((0 + 1)..(0 + m)) = m
      BY <2>1, IntervalSize
    <3>2. 0 + 1 = 1 /\ 0 + m = m
      BY <2>1
    <3> QED BY <3>1, <3>2
  <2>9. Cardinality(S) = m
    BY <2>3, <2>6, <2>7, <2>8, SameSize
  <2> QED BY <2>9 DEF S, m
<1> QED BY <1>2, <1>3

\* Counts are of finite sets, and begin at nothing.
LEMMA CountType ==
  ASSUME NEW D, NEW k \in Nat, NEW s
  PROVE  /\ IsFiniteSet({j \in 1..k : D[j].stream = s}) /\ Count(D, k, s) \in Nat
         /\ k = 0 => Count(D, k, s) = 0
<1>1. IsFiniteSet(1..k) /\ {j \in 1..k : D[j].stream = s} \in SUBSET (1..k)
  BY FS_Interval
<1>2. IsFiniteSet({j \in 1..k : D[j].stream = s})
  BY <1>1, FS_Subset
<1>3. Count(D, k, s) \in Nat
  BY <1>2, FS_CardinalityType DEF Count
<1>4. ASSUME k = 0 PROVE Count(D, k, s) = 0
  <2>1. {j \in 1..k : D[j].stream = s} = {}
    BY <1>4
  <2> QED BY <2>1, FS_EmptySet DEF Count
<1> QED BY <1>2, <1>3, <1>4

\* Only the first k matter.
LEMMA CountPrefix ==
  ASSUME NEW D, NEW E, NEW k \in Nat, \A j \in 1..k : D[j].stream = E[j].stream, NEW s
  PROVE  Count(D, k, s) = Count(E, k, s)
<1>1. {j \in 1..k : D[j].stream = s} = {j \in 1..k : E[j].stream = s}
  OBVIOUS
<1> QED BY <1>1 DEF Count

\* E goes on from the first n of D with what is all for one stream.
Continues(D, E, n, k, s) ==
  /\ \A j \in 1..n : E[j].stream = D[j].stream
  /\ \A j \in (n + 1)..k : E[j].stream = s

\* The counts after such a list.
LEMMA CountAfter ==
  ASSUME NEW D, NEW E, NEW n \in Nat, NEW k \in Nat, n <= k,
         NEW s, Continues(D, E, n, k, s)
  PROVE  /\ Count(E, k, s) = Count(D, n, s) + (k - n)
         /\ \A u : u # s => Count(E, k, u) = Count(D, n, u)
<1>0. ASSUME NEW u
      PROVE  Count(E, k, u) = Count(D, n, u) + (IF u = s THEN k - n ELSE 0)
  <2> DEFINE A == {j \in 1..n : E[j].stream = u}
             B == {j \in (n + 1)..k : E[j].stream = u}
  <2>1. PICK i \in Nat : k = n + i /\ i = k - n
    OBVIOUS
  <2>2. Count(E, n, u) = Count(D, n, u)
    BY CountPrefix DEF Continues
  <2>3. A \cup B = {j \in 1..k : E[j].stream = u} /\ A \cap B = {}
    OBVIOUS
  <2>4. IsFiniteSet(A) /\ Cardinality(A) = Count(D, n, u)
    <3>1. IsFiniteSet(A)
      <4>1. A \in SUBSET (1..n) /\ IsFiniteSet(1..n)
        BY FS_Interval
      <4> HIDE DEF A
      <4> QED BY <4>1, FS_Subset
    <3>2. Cardinality(A) = Count(E, n, u)
      BY DEF Count
    <3> QED BY <3>1, <3>2, <2>2
  <2>5. IsFiniteSet(B) /\ Cardinality(B) = IF u = s THEN k - n ELSE 0
    <3>1. CASE u = s
      <4>1. B = (n + 1)..(n + i)
        BY <2>1, <3>1 DEF Continues
      <4>2. IsFiniteSet((n + 1)..(n + i)) /\ Cardinality((n + 1)..(n + i)) = i
        BY IntervalSize
      <4> QED BY <2>1, <3>1, <4>1, <4>2
    <3>2. CASE u # s
      <4>1. B = {}
        BY <3>2 DEF Continues
      <4> QED BY <3>2, <4>1, FS_EmptySet
    <3> QED BY <3>1, <3>2
  <2>6. Count(E, k, u) = Cardinality(A \cup B)
    BY <2>3 DEF Count
  <2>7. Cardinality(A \cup B) = Cardinality(A) + Cardinality(B)
    <3> HIDE DEF A, B
    <3> QED BY <2>3, <2>4, <2>5, DisjointUnion
  <2> QED BY <2>4, <2>5, <2>6, <2>7
<1>1. Count(E, k, s) = Count(D, n, s) + (k - n)
  BY <1>0
<1>2. ASSUME NEW u, u # s PROVE Count(E, k, u) = Count(D, n, u)
  <2>1. Count(D, n, u) \in Nat
    BY CountType
  <2>2. Count(E, k, u) = Count(D, n, u) + 0
    BY <1>0, <1>2
  <2> QED BY <2>1, <2>2
<1> QED BY <1>1, <1>2

\* E is D and then X, and X is all for one stream.
Joins(D, X, E, s) ==
  /\ Len(D) \in Nat /\ Len(X) \in Nat /\ Len(E) = Len(D) + Len(X)
  /\ \A j \in 1..Len(D) : E[j] = D[j]
  /\ \A i \in 1..Len(X) : E[Len(D) + i] = X[i] /\ X[i].stream = s

RowsAfter(d, D, X, s) ==
  {[pos |-> d.autoinc + Len(D) + i, stream |-> s,
    seq |-> d.next[s] + Count(D, Len(D), s) + i - 1,
    kind |-> X[i].kind, at |-> X[i].at] : i \in 1..Len(X)}

\* The rows of a list and of what follows it, all for one stream.
LEMMA JoinedRows ==
  ASSUME NEW d \in Tables, NEW D, NEW X, NEW E, NEW s \in Streams, Joins(D, X, E, s)
  PROVE  /\ Rows(d, E) = Rows(d, D) \cup RowsAfter(d, D, X, s)
         /\ Count(E, Len(E), s) = Count(D, Len(D), s) + Len(X)
         /\ \A u : u # s => Count(E, Len(E), u) = Count(D, Len(D), u)
<1> DEFINE n == Len(D)
           m == Len(X)
           new(i) == [pos |-> d.autoinc + n + i, stream |-> s,
                      seq |-> d.next[s] + Count(D, n, s) + i - 1,
                      kind |-> X[i].kind, at |-> X[i].at]
<1>1. /\ n \in Nat /\ m \in Nat /\ Len(E) = n + m
      /\ \A j \in 1..n : E[j] = D[j]
      /\ \A i \in 1..m : E[n + i] = X[i] /\ X[i].stream = s
  BY DEF Joins
<1>2. d.autoinc \in Nat /\ d.next[s] \in Nat
  BY DEF Tables
<1>3. ASSUME NEW j \in 1..n PROVE RowAt(d, E, j) = RowAt(d, D, j)
  <2>1. j \in Nat /\ \A k \in 1..j : E[k].stream = D[k].stream
    BY <1>1
  <2>2. Count(E, j, D[j].stream) = Count(D, j, D[j].stream)
    BY <2>1, CountPrefix
  <2> QED BY <1>1, <2>2 DEF RowAt
<1>4. ASSUME NEW i \in 1..m PROVE RowAt(d, E, n + i) = new(i)
  <2>1. i \in 0..Len(X) /\ i \in Nat
    BY <1>1
  <2>2. Count(E, n + i, s) = Count(D, n, s) + i
    <3> DEFINE k == n + i
    <3>1. n \in Nat /\ k \in Nat /\ n <= k /\ k - n = i
      BY <1>1, <2>1
    <3>2. \A j \in 1..n : E[j].stream = D[j].stream
      BY <1>1
    <3>3. \A j \in (n + 1)..k : E[j].stream = s
      <4> SUFFICES ASSUME NEW j \in (n + 1)..k PROVE E[j].stream = s
        OBVIOUS
      <4>1. j - n \in 1..m /\ j = n + (j - n)
        BY <1>1, <2>1
      <4>2. E[j] = X[j - n]
        BY <1>1, <4>1
      <4> QED BY <1>1, <4>1, <4>2
    <3> HIDE DEF k, n, m
    <3>4. Continues(D, E, n, k, s)
      BY <3>2, <3>3 DEF Continues
    <3>5. Count(E, k, s) = Count(D, n, s) + (k - n)
      BY <3>1, <3>4, CountAfter
    <3>6. Count(E, k, s) = Count(D, n, s) + i
      BY <3>1, <3>5
    <3> QED BY <3>6 DEF k
  <2>3. Count(D, n, s) \in Nat
    <3> HIDE DEF n
    <3> QED BY <1>1, CountType
  <2> DEFINE c == Count(D, n, s)
             a == d.autoinc
             x == d.next[s]
  <2>4. x - 1 + (c + i) = x + c + i - 1 /\ a + (n + i) = a + n + i
    <3> HIDE DEF c, a, x, n
    <3>1. a \in Nat /\ x \in Nat /\ c \in Nat /\ n \in Nat /\ i \in Nat
      BY <1>1, <1>2, <2>1, <2>3 DEF a, x, c
    <3> QED BY <3>1
  <2>5. E[n + i] = X[i] /\ X[i].stream = s
    BY <1>1
  <2> HIDE DEF n
  <2> QED BY <2>2, <2>4, <2>5 DEF RowAt
<1>5. Rows(d, E) = {RowAt(d, E, j) : j \in 1..(n + m)}
  BY <1>1 DEF Rows
<1> HIDE DEF n, m
<1>6. ASSUME NEW r PROVE r \in Rows(d, E) <=> r \in Rows(d, D) \cup {new(i) : i \in 1..m}
  <2>1. ASSUME r \in Rows(d, E) PROVE r \in Rows(d, D) \cup {new(i) : i \in 1..m}
    <3>1. PICK j \in 1..(n + m) : r = RowAt(d, E, j)
      BY <1>5, <2>1
    <3>2. CASE j <= n
      <4>1. j \in 1..n
        BY <1>1, <3>2
      <4>2. r = RowAt(d, D, j)
        BY <1>3, <3>1, <4>1
      <4> QED BY <4>1, <4>2 DEF Rows, n
    <3>3. CASE j > n
      <4> DEFINE i == j - n
      <4>1. i \in 1..m /\ j = n + i
        BY <1>1, <3>3
      <4> HIDE DEF i
      <4>2. r = new(i)
        BY <1>4, <3>1, <4>1
      <4> QED BY <4>1, <4>2
    <3>4. j <= n \/ j > n
      BY <1>1
    <3> QED BY <3>2, <3>3, <3>4
  <2>2. ASSUME r \in Rows(d, D) PROVE r \in Rows(d, E)
    <3>1. PICK j \in 1..n : r = RowAt(d, D, j)
      BY <2>2 DEF Rows, n
    <3>2. j \in 1..(n + m) /\ r = RowAt(d, E, j)
      BY <1>1, <1>3, <3>1
    <3> QED BY <1>5, <3>2
  <2>3. ASSUME NEW i \in 1..m, r = new(i) PROVE r \in Rows(d, E)
    <3>1. n + i \in 1..(n + m) /\ r = RowAt(d, E, n + i)
      BY <1>1, <1>4, <2>3
    <3> QED BY <1>5, <3>1
  <2> QED BY <2>1, <2>2, <2>3
<1>7. Rows(d, E) = Rows(d, D) \cup {new(i) : i \in 1..m}
  BY <1>6
<1>8. Rows(d, E) = Rows(d, D) \cup RowsAfter(d, D, X, s)
  BY <1>7 DEF RowsAfter, n, m
<1>9. Continues(D, E, n, n + m, s)
  <2> SUFFICES ASSUME NEW j \in (n + 1)..(n + m) PROVE E[j].stream = s
    BY <1>1 DEF Continues
  <2>1. j - n \in 1..m /\ j = n + (j - n)
    BY <1>1
  <2>2. E[j] = X[j - n]
    BY <1>1, <2>1
  <2> QED BY <1>1, <2>1, <2>2
<1>10. /\ Count(E, n + m, s) = Count(D, n, s) + m
       /\ \A u : u # s => Count(E, n + m, u) = Count(D, n, u)
  <2> DEFINE k == n + m
  <2>1. k \in Nat /\ n <= k /\ k - n = m /\ n \in Nat
    BY <1>1
  <2>2. Continues(D, E, n, k, s)
    BY <1>9
  <2> HIDE DEF k
  <2>3. /\ Count(E, k, s) = Count(D, n, s) + (k - n)
        /\ \A u : u # s => Count(E, k, u) = Count(D, n, u)
    BY <2>1, <2>2, CountAfter
  <2> QED BY <2>1, <2>3 DEF k
<1> QED BY <1>1, <1>8, <1>10 DEF n, m

\* Two sequences, the second all for one stream.
LEMMA Joined ==
  ASSUME NEW S, NEW D \in Seq(S), NEW X \in Seq(S), NEW s, \A i \in 1..Len(X) : X[i].stream = s
  PROVE  Joins(D, X, D \o X, s)
<1>1. /\ Len(D) \in Nat /\ Len(X) \in Nat /\ Len(D \o X) = Len(D) + Len(X)
      /\ \A j \in 1..Len(D) : (D \o X)[j] = D[j]
      /\ \A i \in 1..Len(X) : (D \o X)[Len(D) + i] = X[i]
  OBVIOUS
<1> QED BY <1>1 DEF Joins

\* The rows of a run appended where a list has been are what follows the list.
LEMMA RunFollows ==
  ASSUME NEW d \in Tables, NEW b \in Tables, NEW D, NEW X, NEW s \in Streams,
         Len(X) \in Nat, DOMAIN X = 1..Len(X), Len(D) \in Nat,
         b.autoinc = d.autoinc + Len(D), b.next[s] = d.next[s] + Count(D, Len(D), s)
  PROVE  RunRows(b, s, X) = RowsAfter(d, D, X, s)
<1>1. /\ d.autoinc \in Nat /\ Len(D) \in Nat /\ d.next[s] \in Nat
      /\ Count(D, Len(D), s) \in Nat
  BY CountType DEF Tables
<1>2. \A i \in 1..Len(X) : /\ b.autoinc + i = d.autoinc + Len(D) + i
                           /\ b.next[s] + i - 1 = d.next[s] + Count(D, Len(D), s) + i - 1
  BY <1>1
<1> QED BY <1>2 DEF RunRows, RowsAfter, NextSeq

-----------------------------------------------------------------------------
(* The items of a closure's calls, one call after another.                 *)

\* Pre(calls)[i] is what the first i calls are handed.
Pre(calls) ==
  CHOOSE p \in [0..Len(calls) -> Seq(Item)] :
    /\ p[0] = <<>>
    /\ \A i \in 1..Len(calls) : p[i] = p[i - 1] \o calls[i].items

\* The prefixes exist, and the last is the flattening LinearLog speaks of.
LEMMA PreIs ==
  ASSUME NEW calls \in Seq(TxnCall)
  PROVE  LET p == Pre(calls)
             n == Len(calls) IN
         /\ p \in [0..n -> Seq(Item)] /\ p[0] = <<>>
         /\ \A i \in 1..n : p[i] = p[i - 1] \o calls[i].items
         /\ p[n] = Linear!FlattenSeq([i \in DOMAIN calls |-> calls[i].items])
<1> DEFINE n == Len(calls)
           seqs == [i \in DOMAIN calls |-> calls[i].items]
           Good(p) == p[0] = <<>> /\ \A i \in 1..n : p[i] = p[i - 1] \o calls[i].items
           flat == Linear!FlattenSeq(seqs)
<1>1. /\ n \in Nat /\ DOMAIN calls = 1..n
      /\ \A i \in 1..n : calls[i] \in TxnCall
  OBVIOUS
<1>2. \A i \in 1..n : calls[i].items \in Seq(Item)
  BY <1>1 DEF TxnCall
<1>3. /\ DOMAIN seqs = 1..n /\ \A i \in 1..n : seqs[i] = calls[i].items /\ seqs[i] \in Seq(Item)
      /\ Len(seqs) = n
  <2>1. DOMAIN seqs = 1..n /\ \A i \in 1..n : seqs[i] = calls[i].items
    BY <1>1
  <2>2. seqs \in [1..n -> Seq(Item)]
    BY <1>1, <1>2
  <2> HIDE DEF seqs
  <2>3. Len(seqs) = n
    BY <1>1, <2>2
  <2> QED BY <1>2, <2>1, <2>3
<1>4. CASE n = 0
  <2>1. seqs = <<>>
    BY <1>1, <1>4
  <2>2. flat = <<>>
    BY <1>3, <1>4, <2>1 DEF Linear!FlattenSeq
  <2> DEFINE p == [i \in 0..n |-> <<>>]
  <2>3. p \in [0..n -> Seq(Item)] /\ Good(p)
    BY <1>4
  <2>4. Pre(calls) \in [0..n -> Seq(Item)] /\ Good(Pre(calls))
    BY <2>3 DEF Pre
  <2> HIDE DEF flat
  <2> QED BY <1>4, <2>2, <2>4 DEF flat
<1>5. CASE n # 0
  <2> DEFINE Sat(f, k) == f = [i \in 1..k |-> IF i = 1 THEN seqs[i] ELSE f[i - 1] \o seqs[i]]
             B == {k \in 1..n : ~ \E f : Sat(f, k)}
             g == CHOOSE f : Sat(f, n)
  <2> HIDE DEF seqs
  <2>1. B = {}
    <3> SUFFICES ASSUME B # {} PROVE FALSE
      OBVIOUS
    <3>1. B \in SUBSET Nat
      <4>1. B \subseteq 1..n /\ 1..n \subseteq Nat
        <5> HIDE DEF Sat
        <5> QED OBVIOUS
      <4> HIDE DEF B
      <4> QED BY <4>1
    <3>2. PICK k \in B : \A j \in B : ~(j < k)
      <4> HIDE DEF B
      <4> QED BY <3>1, LeastOf
    <3>3. k \in 1..n /\ ~ \E f : Sat(f, k)
      OBVIOUS
    <3>4. CASE k = 1
      <4> DEFINE f == [i \in 1..1 |-> seqs[i]]
      <4>1. f = [i \in 1..1 |-> IF i = 1 THEN seqs[i] ELSE f[i - 1] \o seqs[i]]
        OBVIOUS
      <4>2. Sat(f, 1)
        BY <4>1
      <4> HIDE DEF f, Sat
      <4> QED BY <3>3, <3>4, <4>2
    <3>5. CASE k # 1
      <4>1. k - 1 \in 1..n /\ k - 1 < k
        BY <1>1, <3>3, <3>5
      <4>2. PICK f : Sat(f, k - 1)
        BY <3>2, <4>1
      <4> DEFINE e == [i \in 1..k |-> IF i < k THEN f[i] ELSE f[k - 1] \o seqs[k]]
      <4>3. ASSUME NEW i \in 1..k
            PROVE  e[i] = IF i = 1 THEN seqs[i] ELSE e[i - 1] \o seqs[i]
        <5>1. CASE i < k
          <6>1. i \in 1..(k - 1) /\ e[i] = f[i]
            BY <3>3, <5>1
          <6> DEFINE body == [a \in 1..(k - 1) |-> IF a = 1 THEN seqs[a] ELSE f[a - 1] \o seqs[a]]
          <6>2. f = body
            BY <4>2
          <6>3. body[i] = IF i = 1 THEN seqs[i] ELSE f[i - 1] \o seqs[i]
            BY <6>1
          <6> HIDE DEF body
          <6>4. f[i] = IF i = 1 THEN seqs[i] ELSE f[i - 1] \o seqs[i]
            BY <6>2, <6>3
          <6>5. i # 1 => e[i - 1] = f[i - 1]
            BY <3>3, <5>1
          <6> QED BY <6>1, <6>4, <6>5
        <5>2. CASE i = k
          <6>0. k \in 1..k /\ k - 1 \in 1..k /\ ~(k < k) /\ k - 1 < k
            BY <1>1, <3>3, <3>5
          <6>1. e[k] = f[k - 1] \o seqs[k]
            BY <6>0
          <6>2. e[k - 1] = f[k - 1]
            BY <6>0
          <6> QED BY <3>5, <5>2, <6>1, <6>2
        <5> QED BY <3>3, <5>1, <5>2
      <4>4. Sat(e, k)
        <5>1. e = [i \in 1..k |-> e[i]]
          OBVIOUS
        <5> HIDE DEF e
        <5>2. [i \in 1..k |-> e[i]] = [i \in 1..k |-> IF i = 1 THEN seqs[i] ELSE e[i - 1] \o seqs[i]]
          BY <4>3
        <5> QED BY <5>1, <5>2
      <4> HIDE DEF e, Sat
      <4> QED BY <3>3, <4>4
    <3> QED BY <3>4, <3>5
  <2>2. Sat(g, n)
    <3>1. n \in 1..n
      BY <1>1, <1>5
    <3>2. \E f : Sat(f, n)
      BY <2>1, <3>1
    <3> QED BY <3>2
  <2>3. flat = g[n]
    BY <1>3, <1>5 DEF Linear!FlattenSeq
  <2> DEFINE body == [i \in 1..n |-> IF i = 1 THEN seqs[i] ELSE g[i - 1] \o seqs[i]]
  <2>4. g = body
    BY <2>2
  <2>5. \A i \in 1..n : body[i] = IF i = 1 THEN seqs[i] ELSE g[i - 1] \o seqs[i]
    OBVIOUS
  <2> HIDE DEF g, body
  <2>6. \A i \in 1..n : g[i] = IF i = 1 THEN seqs[i] ELSE g[i - 1] \o seqs[i]
    BY <2>4, <2>5
  <2>7. \A i \in 1..n : g[i] \in Seq(Item)
    <3> DEFINE C == {i \in 1..n : g[i] \notin Seq(Item)}
    <3> SUFFICES ASSUME C # {} PROVE FALSE
      OBVIOUS
    <3>1. C \in SUBSET Nat
      OBVIOUS
    <3>2. PICK k \in C : \A j \in C : ~(j < k)
      <4> HIDE DEF C
      <4> QED BY <3>1, LeastOf
    <3>3. k \in 1..n /\ g[k] \notin Seq(Item)
      OBVIOUS
    <3>4. k # 1
      BY <1>3, <2>6, <3>3
    <3>5. k - 1 \in 1..n /\ k - 1 < k
      BY <1>1, <3>3, <3>4
    <3>6. g[k - 1] \in Seq(Item) /\ seqs[k] \in Seq(Item)
      BY <1>3, <3>2, <3>3, <3>5
    <3>7. g[k] = g[k - 1] \o seqs[k]
      BY <2>6, <3>3, <3>4
    <3> QED BY <3>3, <3>6, <3>7
  <2> DEFINE p == [i \in 0..n |-> IF i = 0 THEN <<>> ELSE g[i]]
  <2>8. p \in [0..n -> Seq(Item)]
    <3>1. ASSUME NEW i \in 0..n PROVE (IF i = 0 THEN <<>> ELSE g[i]) \in Seq(Item)
      <4>1. i = 0 \/ i \in 1..n
        BY <1>1
      <4>2. <<>> \in Seq(Item)
        OBVIOUS
      <4> QED BY <2>7, <4>1, <4>2
    <3> QED BY <3>1
  <2>9. Good(p)
    <3>1. p[0] = <<>>
      BY <1>1
    <3>2. ASSUME NEW i \in 1..n PROVE p[i] = p[i - 1] \o calls[i].items
      <4>1. p[i] = g[i] /\ i \in Nat /\ i >= 1
        BY <1>1
      <4>2. CASE i = 1
        <5>1. p[i - 1] = <<>> /\ g[i] = seqs[i]
          BY <1>1, <2>6, <4>2
        <5>2. <<>> \o seqs[i] = seqs[i]
          BY <1>3
        <5> QED BY <1>3, <4>1, <5>1, <5>2
      <4>3. CASE i # 1
        <5>1. i - 1 \in 1..n
          BY <1>1, <4>3
        <5>2. p[i - 1] = g[i - 1]
          BY <5>1
        <5> QED BY <1>3, <2>6, <4>1, <4>3, <5>2
      <4> QED BY <4>2, <4>3
    <3> QED BY <3>1, <3>2
  <2> HIDE DEF p
  <2>10. Pre(calls) \in [0..n -> Seq(Item)] /\ Good(Pre(calls))
    BY <2>8, <2>9 DEF Pre
  <2> DEFINE q == Pre(calls)
  <2> HIDE DEF q
  <2>11. q[n] = g[n]
    <3> DEFINE C == {i \in 1..n : q[i] # g[i]}
    <3>0. q \in [0..n -> Seq(Item)] /\ Good(q)
      BY <2>10 DEF q
    <3> SUFFICES ASSUME C # {} PROVE FALSE
      <4>1. n \in 1..n
        BY <1>1, <1>5
      <4> QED BY <4>1
    <3>1. C \in SUBSET Nat
      OBVIOUS
    <3>2. PICK k \in C : \A j \in C : ~(j < k)
      <4> HIDE DEF C
      <4> QED BY <3>1, LeastOf
    <3>3. k \in 1..n /\ q[k] # g[k]
      OBVIOUS
    <3>4. q[k] = q[k - 1] \o seqs[k]
      BY <1>3, <3>0, <3>3
    <3>5. CASE k = 1
      <4>1. q[k - 1] = <<>> /\ g[k] = seqs[k]
        BY <2>6, <3>0, <3>3, <3>5
      <4>2. <<>> \o seqs[k] = seqs[k]
        BY <1>3, <3>3
      <4> QED BY <3>3, <3>4, <4>1, <4>2
    <3>6. CASE k # 1
      <4>1. k - 1 \in 1..n /\ k - 1 < k
        BY <1>1, <3>3, <3>6
      <4>2. q[k - 1] = g[k - 1]
        BY <3>2, <4>1
      <4> QED BY <2>6, <3>3, <3>4, <3>6, <4>2
    <3> QED BY <3>5, <3>6
  <2> HIDE DEF flat
  <2>12. Pre(calls)[n] = flat
    BY <2>3, <2>11 DEF q
  <2> QED BY <2>10, <2>12 DEF flat, seqs
<1> QED BY <1>4, <1>5

\* What a request hands to the log, one item after another.
ItemsOf(req) ==
  IF req.op = "txn" THEN Pre(req.calls)[Len(req.calls)]
  ELSE [i \in DOMAIN req.run |-> [stream |-> req.stream, kind |-> req.run[i].kind,
                                  at |-> req.run[i].at]]

\* The items an open closure's transaction has inserted so far.
Done(t) ==
  LET cs == t.job.req.calls IN
  IF t.call <= Len(cs) THEN Pre(cs)[t.call - 1] \o SubSeq(cs[t.call].items, 1, t.item - 1)
  ELSE Pre(cs)[t.call - 1]

\* Where a closure stands, and what it will publish.
Placed(d, t) ==
  LET cs == t.job.req.calls IN
  /\ t.call \in 1..(Len(cs) + 1)
  /\ t.call <= Len(cs) => t.item - 1 <= Len(cs[t.call].items)
  /\ t.item # 1 => MidImport(t)
  /\ t.pub = (d.autoinc + 1)..(d.autoinc + Len(Pre(cs)[t.call - 1]))

\* Its tables are the committed ones and the items inserted so far.
Built(d, t) ==
  LET D == Done(t) IN
  /\ t.tables.events = d.events \cup Rows(d, D)
  /\ t.tables.autoinc = d.autoinc + Len(D)
  /\ \A s \in Streams : CachedNext(t, s) = d.next[s] + Count(D, Len(D), s)

\* What a transaction whose statements ran will commit, and answer.
Lands(d, t) ==
  LET req == t.job.req IN
  /\ t.tables.events = d.events \cup Rows(d, ItemsOf(req))
  /\ t.ans = Landed(Positions(Rows(d, ItemsOf(req))))
  /\ req.op = "expect" => CounterHead(d, req.stream) = req.expected
  /\ req.op = "decide" => StreamRows(d, req.stream, req.kinds) = {}

Removes(d, t) ==
  /\ t.tables.events = d.events \ Matching(d, t.job.req.plan)
  /\ t.ans = Answer("removed") /\ Matching(d, t.job.req.plan) # {}

\* An open transaction does what its request means, on the committed tables.
Meant(d, t) ==
  /\ t.phase = "open" /\ t.job.req.op = "txn" => Placed(d, t) /\ Built(d, t)
  /\ t.phase = "ready" => IF t.job.req.op = "retain" THEN Removes(d, t) ELSE Lands(d, t)

AllMeant == \A h \in Handles : txn[h] # None => Meant(db, txn[h])

\* Requests are handed on item by item, in LinearLog's words too.
LEMMA ItemsAre ==
  ASSUME NEW req \in Requests
  PROVE  Linear!Items(req) = ItemsOf(req)
<1>1. CASE req.op = "txn"
  <2>1. req.calls \in Seq(TxnCall)
    BY <1>1, RequestShape
  <2>2. Pre(req.calls)[Len(req.calls)] = Linear!FlattenSeq([i \in DOMAIN req.calls |-> req.calls[i].items])
    BY <2>1, PreIs
  <2> QED BY <1>1, <2>2 DEF Linear!Items, ItemsOf
<1>2. CASE req.op # "txn"
  BY <1>2 DEF Linear!Items, ItemsOf
<1> QED BY <1>1, <1>2

\* At the start of a call, what is done is what the calls before it did.
LEMMA DoneAtStart ==
  ASSUME NEW t, NEW cs \in Seq(TxnCall), t.job.req.calls = cs, t.call \in 1..(Len(cs) + 1),
         t.item = 1
  PROVE  Done(t) = Pre(cs)[t.call - 1] /\ Pre(cs)[t.call - 1] \in Seq(Item)
<1>1. t.call - 1 \in 0..Len(cs) /\ Len(cs) \in Nat
  OBVIOUS
<1>2. Pre(cs)[t.call - 1] \in Seq(Item)
  BY <1>1, PreIs
<1>3. CASE t.call <= Len(cs)
  <2>1. cs[t.call] \in TxnCall
    BY <1>1, <1>3
  <2>2. cs[t.call].items \in Seq(Item)
    BY <2>1 DEF TxnCall
  <2> DEFINE x == cs[t.call].items
             p == Pre(cs)[t.call - 1]
  <2>3. Done(t) = p \o SubSeq(x, 1, 0)
    BY <1>3 DEF Done
  <2> HIDE DEF x, p
  <2>4. SubSeq(x, 1, 0) = <<>>
    BY <2>2 DEF x
  <2>5. p \o <<>> = p
    BY <1>2 DEF p
  <2> QED BY <1>2, <2>3, <2>4, <2>5 DEF p
<1>4. CASE ~(t.call <= Len(cs))
  BY <1>2, <1>4 DEF Done
<1> QED BY <1>3, <1>4

\* A transaction that inserts what follows what it has done.
LEMMA BuiltOn ==
  ASSUME NEW d \in Tables, NEW t, NEW u, Built(d, t), NEW X, NEW s \in Streams,
         Joins(Done(t), X, Done(u), s),
         u.tables.events = t.tables.events \cup RowsAfter(d, Done(t), X, s),
         u.tables.autoinc = t.tables.autoinc + Len(X),
         CachedNext(u, s) = CachedNext(t, s) + Len(X),
         \A r \in Streams : r # s => CachedNext(u, r) = CachedNext(t, r)
  PROVE  Built(d, u)
<1> DEFINE D == Done(t)
           E == Done(u)
<1>1. /\ Rows(d, E) = Rows(d, D) \cup RowsAfter(d, D, X, s)
      /\ Count(E, Len(E), s) = Count(D, Len(D), s) + Len(X)
      /\ \A r : r # s => Count(E, Len(E), r) = Count(D, Len(D), r)
  BY JoinedRows
<1>2. Len(D) \in Nat /\ Len(X) \in Nat /\ Len(E) = Len(D) + Len(X)
  BY DEF Joins
<1>3. d.autoinc \in Nat /\ \A r \in Streams : d.next[r] \in Nat
  BY DEF Tables
<1>4. Count(D, Len(D), s) \in Nat
  <2> HIDE DEF D
  <2> QED BY <1>2, CountType
<1>5. /\ t.tables.events = d.events \cup Rows(d, D) /\ t.tables.autoinc = d.autoinc + Len(D)
      /\ \A r \in Streams : CachedNext(t, r) = d.next[r] + Count(D, Len(D), r)
  BY DEF Built
<1> HIDE DEF D, E
<1>6. u.tables.events = d.events \cup Rows(d, E)
  BY <1>1, <1>5 DEF D
<1>7. u.tables.autoinc = d.autoinc + Len(E)
  BY <1>2, <1>3, <1>5
<1>8. CachedNext(u, s) = d.next[s] + Count(E, Len(E), s)
  <2>1. CachedNext(u, s) = d.next[s] + Count(D, Len(D), s) + Len(X)
    BY <1>5
  <2>2. d.next[s] \in Nat
    BY <1>3
  <2> QED BY <1>1, <1>2, <1>4, <2>1, <2>2
<1>9. \A r \in Streams : r # s => CachedNext(u, r) = d.next[r] + Count(E, Len(E), r)
  BY <1>1, <1>5
<1> QED BY <1>6, <1>7, <1>8, <1>9 DEF Built, E

\* Begin: nothing is done yet.
LEMMA StartMeant ==
  ASSUME NEW d \in Tables, NEW job \in Job, NEW t \in Txn,
         t.job = job, t.tables = d, t.phase = "open", t.call = 1, t.item = 1,
         t.seen = Unseen, t.pub = {}
  PROVE  Meant(d, t)
<1> SUFFICES ASSUME job.req.op = "txn" PROVE Placed(d, t) /\ Built(d, t)
  BY DEF Meant
<1> DEFINE cs == job.req.calls
<1>1. cs \in Seq(TxnCall) /\ Len(cs) \in Nat
  BY RequestShape DEF Job
<1>2. t.call \in 1..(Len(cs) + 1) /\ t.job.req.calls = cs
  BY <1>1
<1>3. Pre(cs)[0] = <<>>
  BY <1>1, PreIs
<1>4. Done(t) = <<>>
  <2>1. Done(t) = Pre(cs)[t.call - 1]
    BY <1>1, <1>2, DoneAtStart
  <2> QED BY <1>3, <2>1
<1>5. d.autoinc \in Nat /\ \A s \in Streams : d.next[s] \in Nat
  BY DEF Tables
<1>6. Placed(d, t)
  <2>1. (d.autoinc + 1)..(d.autoinc + Len(<<>>)) = {}
    BY <1>5
  <2>2. t.call <= Len(cs) => t.item - 1 <= Len(cs[t.call].items)
    <3> SUFFICES ASSUME t.call <= Len(cs) PROVE 0 <= Len(cs[t.call].items)
      OBVIOUS
    <3>1. cs[1] \in TxnCall
      <4> HIDE DEF cs
      <4> QED BY <1>1, <1>2
    <3>2. cs[1].items \in Seq(Item)
      BY <3>1 DEF TxnCall
    <3>3. Len(cs[1].items) \in Nat
      <4> DEFINE x == cs[1].items
      <4> HIDE DEF x
      <4>1. x \in Seq(Item)
        BY <3>2 DEF x
      <4>2. Len(x) \in Nat
        BY <4>1
      <4> QED BY <4>2 DEF x
    <3> QED BY <3>3
  <2> QED BY <1>2, <1>3, <2>1, <2>2 DEF Placed
<1>7. Built(d, t)
  <2>1. Rows(d, <<>>) = {} /\ Len(<<>>) = 0
    BY DEF Rows
  <2>2. \A s \in Streams : Count(<<>>, 0, s) = 0
    BY CountType
  <2>3. \A s \in Streams : CachedNext(t, s) = d.next[s]
    BY DEF CachedNext, Unseen, NextSeq
  <2> QED BY <1>4, <1>5, <2>1, <2>2, <2>3 DEF Built
<1> QED BY <1>6, <1>7

\* A transaction that goes on, with the committed tables where they were.
LEMMA MeantStep ==
  ASSUME IInv, AllMeant, NEW h \in Handles, NEW t, Meant(db, t),
         txn' = [txn EXCEPT ![h] = t], UNCHANGED db
  PROVE  AllMeant'
<1>1. \A g \in Handles : txn'[g] = IF g = h THEN t ELSE txn[g]
  BY DEF IInv, TypeOK
<1>2. ASSUME NEW g \in Handles, txn'[g] # None PROVE Meant(db, txn'[g])
  BY <1>1, <1>2 DEF AllMeant
<1> QED BY <1>2 DEF AllMeant

\* The items of a run, and the rows they become.
LEMMA RunItems ==
  ASSUME NEW d \in Tables, NEW req \in Requests, req.op \in {"append", "expect", "decide"}
  PROVE  RunRows(d, req.stream, req.run) = Rows(d, ItemsOf(req))
<1> DEFINE run == req.run
           s == req.stream
           X == [i \in DOMAIN run |-> [stream |-> s, kind |-> run[i].kind, at |-> run[i].at]]
<1>1. s \in Streams /\ run \in Seq(Event)
  BY RequestShape
<1>2. Len(run) \in Nat /\ DOMAIN run = 1..Len(run) /\ \A i \in 1..Len(run) : run[i] \in Event
  BY <1>1
<1>3. X \in [1..Len(run) -> [stream : Streams, kind : Kinds, at : Times]]
  BY <1>1, <1>2 DEF Event
<1>4. /\ DOMAIN X = 1..Len(run)
      /\ \A i \in 1..Len(run) : X[i].stream = s /\ X[i].kind = run[i].kind /\ X[i].at = run[i].at
  BY <1>2
<1>5. ItemsOf(req) = X
  BY DEF ItemsOf
<1> HIDE DEF X, s, run
<1>6. Len(X) = Len(run)
  BY <1>2, <1>3
<1>7. Joins(<<>>, X, X, s)
  <2>1. Len(<<>>) = 0 /\ \A i \in 1..Len(X) : 0 + i = i
    BY <1>2, <1>6
  <2> QED BY <1>2, <1>4, <1>6, <2>1 DEF Joins
<1>8. Rows(d, X) = Rows(d, <<>>) \cup RowsAfter(d, <<>>, X, s)
  BY <1>1, <1>7, JoinedRows
<1>9. Rows(d, <<>>) = {}
  BY DEF Rows
<1>10. RunRows(d, s, X) = RowsAfter(d, <<>>, X, s)
  <2>1. /\ Len(<<>>) = 0 /\ d.autoinc \in Nat /\ d.next[s] \in Nat /\ Count(<<>>, 0, s) = 0
    BY <1>1, CountType DEF Tables
  <2>2. d.autoinc = d.autoinc + Len(<<>>) /\ d.next[s] = d.next[s] + Count(<<>>, Len(<<>>), s)
    BY <2>1
  <2> QED BY <1>1, <1>2, <1>4, <1>6, <2>1, <2>2, RunFollows
<1>11. RunRows(d, s, run) = RunRows(d, s, X)
  BY <1>2, <1>4 DEF RunRows
<1> QED BY <1>5, <1>8, <1>9, <1>10, <1>11 DEF s, run

\* A run's statements, staged for COMMIT.
LEMMA RunMeant ==
  ASSUME IInv, AllMeant, NEW h \in Handles, txn[h] # None, txn[h].phase = "open",
         txn[h].job.req.op \in {"append", "expect", "decide"},
         LET req == txn[h].job.req
             d == txn[h].tables IN
         /\ Stage(h, AppendRun(d, req.stream, req.run), Landed(Positions(RunRows(d, req.stream, req.run))))
         /\ req.op = "expect" => CounterHead(d, req.stream) = req.expected
         /\ req.op = "decide" => StreamRows(d, req.stream, req.kinds) = {}
  PROVE  AllMeant'
<1> DEFINE t == txn[h]
           req == t.job.req
           s == req.stream
           run == req.run
           tables == AppendRun(t.tables, s, run)
           ans == Landed(Positions(RunRows(t.tables, s, run)))
           u == [t EXCEPT !.tables = tables, !.phase = "ready", !.ans = ans]
<1>1. t \in Txn /\ req \in Requests /\ t.tables \in Tables /\ t.tables = db
  BY RunningTxn DEF Sound
<1>2. s \in Streams /\ run \in Seq(Event)
  BY <1>1, RequestShape
<1>3. tables.events = t.tables.events \cup RunRows(t.tables, s, run)
  <2> HIDE DEF t, s, run
  <2>1. IsRun(run)
    BY <1>2, EventsAreRun
  <2> DEFINE d == t.tables
  <2>2. d \in Tables
    BY <1>1
  <2> HIDE DEF d
  <2>3. AppendRun(d, s, run).events = d.events \cup RunRows(d, s, run)
    BY <1>2, <2>1, <2>2, AppendRunType
  <2> QED BY <2>3 DEF d
<1>4. RunRows(t.tables, s, run) = Rows(db, ItemsOf(req))
  BY <1>1, RunItems
<1>5. txn' = [txn EXCEPT ![h] = u] /\ UNCHANGED db
  BY DEF Stage
<1>6. /\ u.tables = tables /\ u.phase = "ready" /\ u.ans = ans /\ u.job = t.job
  <2> HIDE DEF tables, ans
  <2> QED BY <1>1 DEF Txn
<1>7. /\ req.op = "expect" => CounterHead(db, req.stream) = req.expected
      /\ req.op = "decide" => StreamRows(db, req.stream, req.kinds) = {}
      /\ req.op # "retain"
  BY <1>1
<1>8. ans = Landed(Positions(Rows(db, ItemsOf(req)))) /\ tables.events = db.events \cup Rows(db, ItemsOf(req))
  BY <1>1, <1>3, <1>4
<1> HIDE DEF u, tables, ans
<1>9. Lands(db, u)
  BY <1>6, <1>7, <1>8 DEF Lands
<1>10. Meant(db, u)
  BY <1>6, <1>7, <1>9 DEF Meant
<1> QED BY <1>5, <1>10, MeantStep

\* A removal's statements, staged for COMMIT.
LEMMA RetainMeant ==
  ASSUME IInv, AllMeant, NEW h \in Handles, txn[h] # None, txn[h].phase = "open",
         txn[h].job.req.op = "retain",
         LET req == txn[h].job.req
             d == txn[h].tables IN
         /\ Stage(h, RemoveMatching(d, req.plan), Answer("removed"))
         /\ RetainAnswer(d, req.plan, req.guard) = "removed"
  PROVE  AllMeant'
<1> DEFINE t == txn[h]
           plan == t.job.req.plan
           tables == RemoveMatching(t.tables, plan)
           ans == Answer("removed")
           u == [t EXCEPT !.tables = tables, !.phase = "ready", !.ans = ans]
<1>1. t \in Txn /\ t.tables \in Tables /\ t.tables = db
  BY RunningTxn DEF Sound
<1>2. tables.events = db.events \ Matching(db, plan)
  <2> HIDE DEF t, plan
  <2> QED BY <1>1 DEF RemoveMatching, Tables, tables
<1>3. Matching(db, plan) # {}
  BY <1>1 DEF RetainAnswer
<1>4. txn' = [txn EXCEPT ![h] = u] /\ UNCHANGED db
  BY DEF Stage
<1>5. /\ u.tables = tables /\ u.phase = "ready" /\ u.ans = ans /\ u.job = t.job
  <2> HIDE DEF tables, ans
  <2> QED BY <1>1 DEF Txn
<1>6. u.job.req.op = "retain" /\ u.job.req.plan = plan
  BY <1>5
<1> HIDE DEF u, tables, ans, plan
<1>7. Removes(db, u)
  BY <1>2, <1>3, <1>5, <1>6 DEF Removes, ans
<1>8. Meant(db, u)
  BY <1>5, <1>6, <1>7 DEF Meant
<1> QED BY <1>4, <1>8, MeantStep

\* Where a closure's transaction stands when it makes a call.
LEMMA BodyPlace ==
  ASSUME IInv, AllMeant, NEW h \in Handles, InBody(h)
  PROVE  LET t == txn[h]
             cs == t.job.req.calls
             k == t.call
             items == ThisCall(h).items IN
         /\ cs \in Seq(TxnCall) /\ Len(cs) \in Nat /\ k \in 1..Len(cs) /\ k \in Nat
         /\ items = cs[k].items /\ ThisCall(h) = cs[k] /\ cs[k] \in TxnCall /\ items \in Seq(Item)
         /\ Len(items) \in Nat /\ Len(items) >= 1
         /\ DOMAIN items = 1..Len(items) /\ \A i \in 1..Len(items) : items[i] \in Item
         /\ Pre(cs)[k - 1] \in Seq(Item) /\ Pre(cs)[k] \in Seq(Item)
         /\ Pre(cs)[k] = Pre(cs)[k - 1] \o items
         /\ Len(Pre(cs)[k - 1]) \in Nat /\ Len(Pre(cs)[k]) = Len(Pre(cs)[k - 1]) + Len(items)
         /\ Placed(db, t) /\ Built(db, t)
<1> DEFINE t == txn[h]
           cs == t.job.req.calls
           k == t.call
           items == ThisCall(h).items
<1>1. /\ t # None /\ t.phase = "open" /\ t.job.req.op = "txn"
      /\ ThisCall(h) \in TxnCall /\ items \in Seq(Item) /\ Len(items) >= 1
      /\ k \in Nat \ {0}
  BY BodyShape
<1>2. t \in Txn /\ t.job.req \in Requests
  BY <1>1, RunningTxn
<1>3. cs \in Seq(TxnCall)
  BY <1>1, <1>2, RequestShape
<1>4. k <= Len(cs) /\ ThisCall(h) = cs[k]
  BY DEF InBody, ThisCall
<1>5. Placed(db, t) /\ Built(db, t)
  BY <1>1 DEF AllMeant, Meant
<1>6. Len(cs) \in Nat
  <2> HIDE DEF cs
  <2> QED BY <1>3
<1>7. k \in 1..Len(cs) /\ k - 1 \in 0..Len(cs) /\ k \in 0..Len(cs) /\ k \in Nat
  <2> HIDE DEF cs, k
  <2> QED BY <1>1, <1>4, <1>6
<1>8. /\ Pre(cs)[k - 1] \in Seq(Item) /\ Pre(cs)[k] \in Seq(Item)
      /\ Pre(cs)[k] = Pre(cs)[k - 1] \o cs[k].items
  <2> HIDE DEF cs, k
  <2> QED BY <1>3, <1>7, PreIs
<1>9. Len(items) \in Nat /\ DOMAIN items = 1..Len(items) /\ \A i \in 1..Len(items) : items[i] \in Item
  <2> HIDE DEF items
  <2> QED BY <1>1
<1>10. /\ Len(Pre(cs)[k - 1]) \in Nat
       /\ Len(Pre(cs)[k - 1] \o items) = Len(Pre(cs)[k - 1]) + Len(items)
  <2> DEFINE p == Pre(cs)[k - 1]
  <2>1. p \in Seq(Item) /\ items \in Seq(Item)
    BY <1>1, <1>8
  <2> HIDE DEF p, items
  <2>2. Len(p) \in Nat /\ Len(p \o items) = Len(p) + Len(items)
    BY <2>1
  <2> QED BY <2>2 DEF p
<1>11. Pre(cs)[k] = Pre(cs)[k - 1] \o items
  BY <1>4, <1>8
<1> QED BY <1>1, <1>3, <1>4, <1>5, <1>6, <1>7, <1>8, <1>9, <1>10, <1>11

\* An interval goes on.
LEMMA IntervalGoesOn ==
  ASSUME NEW a \in Nat, NEW n \in Nat, NEW m \in Nat
  PROVE  ((a + 1)..(a + n)) \cup ((a + n + 1)..(a + n + m)) = (a + 1)..(a + (n + m))
OBVIOUS

\* A list's rows, and what follows them, are at the next positions.
LEMMA RowPositions ==
  ASSUME NEW d \in Tables, NEW D, NEW X, NEW s, Len(D) \in Nat, Len(X) \in Nat
  PROVE  /\ Positions(RowsAfter(d, D, X, s))
              = (d.autoinc + Len(D) + 1)..(d.autoinc + Len(D) + Len(X))
         /\ Positions(Rows(d, D)) = (d.autoinc + 1)..(d.autoinc + Len(D))
<1> DEFINE a == d.autoinc
           n == Len(D)
           m == Len(X)
<1>1. a \in Nat /\ n \in Nat /\ m \in Nat
  BY DEF Tables
<1>2. Positions(RowsAfter(d, D, X, s)) = {a + n + i : i \in 1..m}
  <2> DEFINE w(i) == [pos |-> a + n + i, stream |-> s,
                      seq |-> d.next[s] + Count(D, n, s) + i - 1,
                      kind |-> X[i].kind, at |-> X[i].at]
  <2>1. \A i : w(i).pos = a + n + i
    OBVIOUS
  <2>2. RowsAfter(d, D, X, s) = {w(i) : i \in 1..m}
    BY DEF RowsAfter
  <2> HIDE DEF w, a, n, m
  <2> QED BY <2>1, <2>2 DEF Positions
<1>3. Positions(Rows(d, D)) = {a + i : i \in 1..n}
  <2>1. \A i : RowAt(d, D, i).pos = a + i
    BY DEF RowAt
  <2>2. Rows(d, D) = {RowAt(d, D, i) : i \in 1..n}
    BY DEF Rows
  <2> HIDE DEF a, n, m
  <2> QED BY <2>1, <2>2 DEF Positions
<1> HIDE DEF a, n, m
<1>4. {a + n + i : i \in 1..m} = (a + n + 1)..(a + n + m)
  <2>1. \A x \in (a + n + 1)..(a + n + m) : x - (a + n) \in 1..m /\ x = a + n + (x - (a + n))
    BY <1>1
  <2>2. \A i \in 1..m : a + n + i \in (a + n + 1)..(a + n + m)
    BY <1>1
  <2> QED BY <2>1, <2>2
<1>5. {a + i : i \in 1..n} = (a + 1)..(a + n)
  <2>1. \A x \in (a + 1)..(a + n) : x - a \in 1..n /\ x = a + (x - a)
    BY <1>1
  <2>2. \A i \in 1..n : a + i \in (a + 1)..(a + n)
    BY <1>1
  <2> QED BY <2>1, <2>2
<1> QED BY <1>2, <1>3, <1>4, <1>5 DEF a, n, m

\* A closure appends.
LEMMA AppendMeant ==
  ASSUME IInv, AllMeant, NEW h \in Handles, TxnAppend(h),
         ~RunTaken(txn[h].tables, ThisCall(h).items[1].stream, ThisCall(h).items)
  PROVE  AllMeant'
<1> DEFINE t == txn[h]
           cs == t.job.req.calls
           k == t.call
           items == ThisCall(h).items
           s == items[1].stream
           new == Positions(RunRows(t.tables, s, items))
           tables == AppendRun(t.tables, s, items)
           u == [NextCall(t) EXCEPT !.tables = tables, !.pub = @ \cup new]
           D == Done(t)
<1>1. InBody(h) /\ ThisCall(h).verb = "append"
  BY DEF TxnAppend
<1>2. /\ t # None /\ t.phase = "open" /\ t.job.req.op = "txn" /\ t.job.req \in Requests
      /\ t \in Txn /\ t.tables \in Tables /\ db \in Tables
  BY <1>1, BodyShape, RunningTxn
<1>3. /\ cs \in Seq(TxnCall) /\ Len(cs) \in Nat /\ k \in 1..Len(cs) /\ k \in Nat
      /\ ThisCall(h) = cs[k] /\ cs[k] \in TxnCall /\ items \in Seq(Item)
      /\ Len(items) \in Nat /\ Len(items) >= 1
      /\ DOMAIN items = 1..Len(items) /\ \A i \in 1..Len(items) : items[i] \in Item
      /\ Pre(cs)[k - 1] \in Seq(Item) /\ Pre(cs)[k] \in Seq(Item)
      /\ Pre(cs)[k] = Pre(cs)[k - 1] \o items
      /\ Len(Pre(cs)[k - 1]) \in Nat /\ Len(Pre(cs)[k]) = Len(Pre(cs)[k - 1]) + Len(items)
      /\ Placed(db, t) /\ Built(db, t)
  BY <1>1, BodyPlace
<1>4. ~MidImport(t)
  BY <1>1, <1>3 DEF MidImport
<1>5. t.seen = Unseen /\ t.item = 1
  BY <1>2, <1>3, <1>4, NoCache DEF Placed
<1>6. /\ \A i \in 1..Len(items) : items[i].stream = s
      /\ s \in Streams /\ IsRun(items)
  <2>1. \A i \in 1..Len(items) : items[i].stream = s
    <3>1. ThisCall(h) \in TxnCall
      BY <1>3
    <3> QED BY <3>1, <1>1, <1>3 DEF TxnCall
  <2> DEFINE m == Len(items)
  <2>2. m \in Nat /\ m >= 1
    BY <1>3
  <2>3. /\ m = Len(items) /\ DOMAIN items = 1..m /\ \A i \in 1..m : items[i] \in Item
    BY <1>3
  <2> HIDE DEF items, m
  <2>4. 1 \in 1..m
    BY <2>2
  <2> QED BY <2>1, <2>2, <2>3, <2>4 DEF Item, IsRun
<1>7. D = Pre(cs)[k - 1]
  <2>1. k \in 1..(Len(cs) + 1)
    <3> HIDE DEF k, cs
    <3> QED BY <1>3
  <2> QED BY <2>1, <1>3, <1>5, DoneAtStart
<1>8. /\ tables \in Tables /\ tables.events = t.tables.events \cup RunRows(t.tables, s, items)
      /\ tables.autoinc = t.tables.autoinc + Len(items)
      /\ tables.next = [t.tables.next EXCEPT ![s] = t.tables.next[s] + Len(items)]
  <2> HIDE DEF t, items, s
  <2> QED BY <1>2, <1>6, AppendRunType
<1>9. /\ u.tables = tables /\ u.pub = t.pub \cup new /\ u.job = t.job /\ u.phase = t.phase
      /\ u.call = k + 1 /\ u.item = 1 /\ u.seen = Unseen
  <2> DEFINE n == NextCall(t)
  <2>1. n.pub = t.pub /\ n.job = t.job /\ n.phase = t.phase /\ n.item = 1 /\ n.seen = Unseen
        /\ n.call = k + 1 /\ n \in Txn
    <3>1. n.call = k + 1
      BY <1>2 DEF NextCall, Txn
    <3> HIDE DEF t
    <3> QED BY <3>1, <1>2, NextCallTyped
  <2> HIDE DEF n, tables, new, t
  <2>2. u = [n EXCEPT !.tables = tables, !.pub = n.pub \cup new]
    BY DEF n
  <2> QED BY <2>1, <2>2 DEF Txn
<1>10. txn' = [txn EXCEPT ![h] = u] /\ UNCHANGED db
  BY DEF TxnAppend, StepTxn
<1> HIDE DEF u, tables
<1>11. Done(u) = Pre(cs)[k] /\ k + 1 \in 1..(Len(cs) + 1)
  <2>1. k + 1 \in 1..(Len(cs) + 1) /\ (k + 1) - 1 = k
    <3> HIDE DEF k, cs
    <3> QED BY <1>3
  <2>2. u.call \in 1..(Len(cs) + 1) /\ u.item = 1 /\ u.job.req.calls = cs
    BY <1>9, <2>1
  <2>3. Done(u) = Pre(cs)[u.call - 1]
    <3> HIDE DEF cs
    <3> QED BY <1>3, <2>2, DoneAtStart
  <2> QED BY <1>9, <2>1, <2>3
<1>12. Joins(D, items, Done(u), s)
  <2>1. Joins(Pre(cs)[k - 1], items, Pre(cs)[k - 1] \o items, s)
    <3> DEFINE p == Pre(cs)[k - 1]
    <3>1. p \in Seq(Item) /\ items \in Seq(Item)
      BY <1>3
    <3>2. \A i \in 1..Len(items) : items[i].stream = s
      BY <1>6
    <3> HIDE DEF p, items, s
    <3>3. Joins(p, items, p \o items, s)
      BY <3>1, <3>2, Joined
    <3> QED BY <3>3 DEF p
  <2> QED BY <1>3, <1>7, <1>11, <2>1
<1>13. \A r \in Streams : CachedNext(t, r) = t.tables.next[r] /\ CachedNext(u, r) = tables.next[r]
  BY <1>5, <1>9 DEF CachedNext, Unseen, NextSeq
<1>14. /\ t.tables.autoinc = db.autoinc + Len(D)
       /\ t.tables.next[s] = db.next[s] + Count(D, Len(D), s)
  BY <1>3, <1>6, <1>13 DEF Built
<1>15. RunRows(t.tables, s, items) = RowsAfter(db, D, items, s)
  <2>1. Len(D) \in Nat
    BY <1>3, <1>7
  <2> HIDE DEF D, items, s, t
  <2> QED BY <1>2, <1>3, <1>6, <1>14, <2>1, RunFollows
<1>16. CachedNext(u, s) = CachedNext(t, s) + Len(items)
       /\ \A r \in Streams : r # s => CachedNext(u, r) = CachedNext(t, r)
  <2>1. t.tables.next \in [Streams -> Nat \ {0}]
    BY <1>2 DEF Tables
  <2> HIDE DEF t, items, s
  <2> QED BY <1>6, <1>8, <1>13, <2>1
<1>17. Built(db, u)
  <2>1. u.tables.events = t.tables.events \cup RowsAfter(db, Done(t), items, s)
    BY <1>8, <1>9, <1>15
  <2>2. u.tables.autoinc = t.tables.autoinc + Len(items)
    BY <1>8, <1>9
  <2>3. Joins(Done(t), items, Done(u), s) /\ Built(db, t)
    BY <1>3, <1>12
  <2> HIDE DEF t, items, s
  <2> QED BY <1>2, <1>6, <1>16, <2>1, <2>2, <2>3, BuiltOn
<1>18. u.pub = (db.autoinc + 1)..(db.autoinc + Len(Pre(cs)[k]))
  <2> DEFINE a == db.autoinc
             n == Len(Pre(cs)[k - 1])
             m == Len(items)
  <2>1. a \in Nat /\ n \in Nat /\ m \in Nat
    BY <1>2, <1>3 DEF Tables
  <2>2. t.pub = (a + 1)..(a + n)
    BY <1>3 DEF Placed
  <2>3. new = (a + n + 1)..(a + n + m)
    <3>1. new = Positions(RowsAfter(db, D, items, s)) /\ Len(D) = n
      BY <1>7, <1>15
    <3>2. Positions(RowsAfter(db, D, items, s)) = (db.autoinc + Len(D) + 1)..(db.autoinc + Len(D) + Len(items))
      <4>1. Len(D) \in Nat /\ Len(items) \in Nat
        BY <2>1, <3>1
      <4> HIDE DEF D, items, s
      <4> QED BY <1>2, <4>1, RowPositions
    <3> QED BY <3>1, <3>2
  <2>4. Len(Pre(cs)[k]) = n + m
    BY <1>3
  <2> HIDE DEF a, n, m, new
  <2>5. ((a + 1)..(a + n)) \cup ((a + n + 1)..(a + n + m)) = (a + 1)..(a + (n + m))
    BY <2>1, IntervalGoesOn
  <2> QED BY <1>9, <2>2, <2>3, <2>4, <2>5 DEF a
<1>19. Placed(db, u)
  <2>1. u.job.req.calls = cs /\ u.call = k + 1 /\ u.item = 1
    BY <1>9
  <2>2. (k + 1) - 1 = k
    <3>1. k \in Nat
      BY <1>3
    <3> HIDE DEF k
    <3> QED BY <3>1
  <2>3. ASSUME k + 1 <= Len(cs) PROVE 0 <= Len(cs[k + 1].items)
    <3> HIDE DEF cs, k
    <3>1. cs[k + 1] \in TxnCall
      BY <1>3, <2>3
    <3> DEFINE x == cs[k + 1].items
    <3>2. x \in Seq(Item)
      BY <3>1 DEF TxnCall
    <3> HIDE DEF x
    <3>3. Len(x) \in Nat
      BY <3>2
    <3> QED BY <3>3 DEF x
  <2>4. 1 - 1 = 0
    OBVIOUS
  <2> HIDE DEF k, cs
  <2> QED BY <1>11, <1>18, <2>1, <2>2, <2>3, <2>4 DEF Placed
<1>20. Meant(db, u)
  <2>1. u.phase = "open"
    BY <1>2, <1>9
  <2> QED BY <2>1, <1>17, <1>19 DEF Meant
<1> QED BY <1>10, <1>20, MeantStep

\* One more of a call's items.
LEMMA OneMore ==
  ASSUME NEW S, NEW p \in Seq(S), NEW x \in Seq(S), NEW m \in 1..Len(x)
  PROVE  /\ Joins(p \o SubSeq(x, 1, m - 1), <<x[m]>>, p \o SubSeq(x, 1, m), x[m].stream)
         /\ SubSeq(x, 1, Len(x)) = x
<1> DEFINE b == SubSeq(x, 1, m - 1)
           c == SubSeq(x, 1, m)
<1>1. Len(x) \in Nat /\ m \in Nat /\ m >= 1 /\ m <= Len(x)
  OBVIOUS
<1>2. /\ b \in Seq(S) /\ Len(b) = m - 1 /\ \A i \in 1..(m - 1) : b[i] = x[i]
      /\ c \in Seq(S) /\ Len(c) = m /\ \A i \in 1..m : c[i] = x[i]
  BY <1>1
<1> HIDE DEF b, c
<1>3. /\ Len(p) \in Nat /\ Len(p \o b) = Len(p) + (m - 1) /\ Len(p \o c) = Len(p) + m
      /\ \A i \in 1..Len(p) : (p \o b)[i] = p[i] /\ (p \o c)[i] = p[i]
      /\ \A i \in 1..(m - 1) : (p \o b)[Len(p) + i] = b[i]
      /\ \A i \in 1..m : (p \o c)[Len(p) + i] = c[i]
  <2>1. ASSUME NEW y \in Seq(S)
        PROVE  /\ Len(p) \in Nat /\ Len(p \o y) = Len(p) + Len(y)
               /\ \A i \in 1..Len(p) : (p \o y)[i] = p[i]
               /\ \A i \in 1..Len(y) : (p \o y)[Len(p) + i] = y[i]
    OBVIOUS
  <2>2. /\ Len(p) \in Nat /\ Len(p \o b) = Len(p) + Len(b)
        /\ \A i \in 1..Len(p) : (p \o b)[i] = p[i]
        /\ \A i \in 1..Len(b) : (p \o b)[Len(p) + i] = b[i]
    BY <1>2, <2>1
  <2>3. /\ Len(p \o c) = Len(p) + Len(c)
        /\ \A i \in 1..Len(p) : (p \o c)[i] = p[i]
        /\ \A i \in 1..Len(c) : (p \o c)[Len(p) + i] = c[i]
    BY <1>2, <2>1
  <2> QED BY <1>2, <2>2, <2>3
<1>4. ASSUME NEW j \in 1..(Len(p) + (m - 1)) PROVE (p \o c)[j] = (p \o b)[j]
  <2>1. CASE j <= Len(p)
    BY <1>3, <2>1
  <2>2. CASE j > Len(p)
    <3>1. PICK i \in 1..(m - 1) : j = Len(p) + i
      <4>1. j - Len(p) \in 1..(m - 1) /\ j = Len(p) + (j - Len(p))
        BY <1>1, <1>3, <2>2
      <4> QED BY <4>1
    <3>2. i \in 1..m
      BY <1>1
    <3> QED BY <1>2, <1>3, <3>1, <3>2
  <2> QED BY <1>3, <2>1, <2>2
<1>5. (p \o c)[Len(p) + (m - 1) + 1] = x[m]
  <2>1. m \in 1..m /\ Len(p) + (m - 1) + 1 = Len(p) + m
    BY <1>1, <1>3
  <2> QED BY <1>2, <1>3, <2>1
<1>6. Len(<<x[m]>>) = 1 /\ <<x[m]>>[1] = x[m]
  OBVIOUS
<1>7. Joins(p \o b, <<x[m]>>, p \o c, x[m].stream)
  <2> DEFINE D == p \o b
             E == p \o c
             X == <<x[m]>>
  <2>1. Len(D) = Len(p) + (m - 1) /\ Len(D) \in Nat /\ Len(E) = Len(D) + 1 /\ Len(X) = 1
    BY <1>1, <1>3, <1>6
  <2>2. \A j \in 1..Len(D) : E[j] = D[j]
    BY <1>4, <2>1
  <2>3. E[Len(D) + 1] = X[1] /\ X[1].stream = x[m].stream
    BY <1>5, <1>6, <2>1
  <2> HIDE DEF D, E, X
  <2>4. \A i \in 1..Len(X) : E[Len(D) + i] = X[i] /\ X[i].stream = x[m].stream
    <3>1. \A i \in 1..Len(X) : i = 1
      BY <2>1
    <3> QED BY <2>3, <3>1
  <2>5. Joins(D, X, E, x[m].stream)
    BY <2>1, <2>2, <2>4 DEF Joins
  <2> QED BY <2>5 DEF D, E, X
<1>8. SubSeq(x, 1, Len(x)) = x
  OBVIOUS
<1> QED BY <1>7, <1>8 DEF b, c

\* A closure imports an event.
LEMMA ImportMeant ==
  ASSUME IInv, AllMeant, NEW h \in Handles, ImportItem(h),
         LET e == ThisCall(h).items[txn[h].item] IN
         ~Taken(txn[h].tables, e.stream, CachedNext(txn[h], e.stream))
  PROVE  AllMeant'
<1> DEFINE t == txn[h]
           cs == t.job.req.calls
           k == t.call
           items == ThisCall(h).items
           m == t.item
           e == items[m]
           s == e.stream
           n == CachedNext(t, s)
           tables == InsertStamped(t.tables, s, n, e)
           seen == [t.seen EXCEPT ![s] = n + 1]
           u == [t EXCEPT !.tables = InsertStamped(@, s, n, e), !.seen = seen, !.item = @ + 1]
           D == Done(t)
           X == <<e>>
<1>1. InBody(h) /\ ThisCall(h).verb = "import" /\ m <= Len(items)
  BY DEF ImportItem, Importing
<1>2. /\ t # None /\ t.phase = "open" /\ t.job.req.op = "txn"
      /\ t \in Txn /\ t.tables \in Tables /\ db \in Tables
      /\ t.seen \in [Streams -> Nat] /\ m \in Nat \ {0}
  BY <1>1, BodyShape, RunningTxn DEF Txn
<1>3. /\ k \in 1..Len(cs) /\ k \in Nat /\ Len(cs) \in Nat
      /\ ThisCall(h) = cs[k] /\ items \in Seq(Item) /\ Len(items) \in Nat
      /\ Pre(cs)[k - 1] \in Seq(Item) /\ Placed(db, t) /\ Built(db, t)
      /\ \A i \in 1..Len(items) : items[i] \in Item
  BY <1>1, BodyPlace
<1>4. m \in 1..Len(items) /\ m \in Nat /\ (m + 1) - 1 = m /\ m + 1 # 1
  <2>1. m \in Nat \ {0} /\ m <= Len(items) /\ Len(items) \in Nat
    BY <1>1, <1>2, <1>3
  <2> HIDE DEF m, items
  <2> QED BY <2>1
<1>5. e \in Item /\ s \in Streams /\ e.kind \in Kinds /\ e.at \in Times
  BY <1>3, <1>4 DEF Item
<1>6. /\ u.tables = tables /\ u.seen = seen /\ u.item = m + 1 /\ u.call = k
      /\ u.job = t.job /\ u.phase = t.phase /\ u.pub = t.pub
  BY <1>2 DEF Txn
<1>7. txn' = [txn EXCEPT ![h] = u] /\ UNCHANGED db
  BY DEF ImportItem, StepTxn
<1>8. /\ tables.events = t.tables.events \cup
                           {[pos |-> t.tables.autoinc + 1, stream |-> s, seq |-> n,
                             kind |-> e.kind, at |-> e.at]}
      /\ tables.autoinc = t.tables.autoinc + 1 /\ tables.next = t.tables.next
  <2> HIDE DEF t, s, n, e
  <2> QED BY <1>2 DEF InsertStamped, Tables
<1> HIDE DEF u, tables
<1>9. /\ D = Pre(cs)[k - 1] \o SubSeq(items, 1, m - 1)
      /\ Done(u) = Pre(cs)[k - 1] \o SubSeq(items, 1, m)
  <2>1. k <= Len(cs)
    <3> HIDE DEF k, cs
    <3> QED BY <1>3
  <2>2. cs[k].items = items
    BY <1>3
  <2>3. D = Pre(cs)[k - 1] \o SubSeq(cs[k].items, 1, m - 1)
    BY <2>1 DEF Done
  <2>4. Done(u) = Pre(cs)[k - 1] \o SubSeq(cs[k].items, 1, (m + 1) - 1)
    <3>1. u.job.req.calls = cs /\ u.call = k /\ u.item = m + 1
      BY <1>6
    <3> HIDE DEF cs, k, m
    <3> QED BY <2>1, <3>1 DEF Done
  <2> HIDE DEF items, D
  <2> QED BY <2>2, <2>3, <2>4, <1>4
<1>10. Joins(D, X, Done(u), s)
  <2> DEFINE p == Pre(cs)[k - 1]
  <2>1. p \in Seq(Item) /\ items \in Seq(Item) /\ m \in 1..Len(items)
    BY <1>3, <1>4
  <2> HIDE DEF p, items, m
  <2>2. Joins(p \o SubSeq(items, 1, m - 1), <<items[m]>>, p \o SubSeq(items, 1, m), items[m].stream)
    BY <2>1, OneMore
  <2> QED BY <1>9, <2>2 DEF p
<1>11. /\ t.tables.autoinc = db.autoinc + Len(D)
       /\ n = db.next[s] + Count(D, Len(D), s)
  BY <1>3, <1>5 DEF Built
<1>12. Len(X) = 1 /\ X[1] = e /\ Len(D) \in Nat
  BY <1>10 DEF Joins
<1>13. n \in Nat /\ db.autoinc \in Nat /\ db.next[s] \in Nat /\ Count(D, Len(D), s) \in Nat
  <2>1. db.autoinc \in Nat /\ db.next[s] \in Nat
    BY <1>2, <1>5 DEF Tables
  <2>2. Count(D, Len(D), s) \in Nat
    <3> HIDE DEF D, s
    <3> QED BY <1>12, CountType
  <2> HIDE DEF n, D, s
  <2> QED BY <1>11, <2>1, <2>2
<1>14. RowsAfter(db, D, X, s) = {[pos |-> t.tables.autoinc + 1, stream |-> s, seq |-> n,
                                   kind |-> e.kind, at |-> e.at]}
  <2> DEFINE w(i) == [pos |-> db.autoinc + Len(D) + i, stream |-> s,
                      seq |-> db.next[s] + Count(D, Len(D), s) + i - 1,
                      kind |-> X[i].kind, at |-> X[i].at]
  <2>1. RowsAfter(db, D, X, s) = {w(i) : i \in 1..Len(X)}
    BY DEF RowsAfter
  <2>2. 1..Len(X) = {1}
    BY <1>12
  <2>3. RowsAfter(db, D, X, s) = {w(1)}
    <3> HIDE DEF w
    <3> QED BY <2>1, <2>2
  <2>4. /\ db.autoinc + Len(D) + 1 = t.tables.autoinc + 1
        /\ db.next[s] + Count(D, Len(D), s) + 1 - 1 = n
    <3> HIDE DEF n, D, s, t
    <3> QED BY <1>11, <1>12, <1>13
  <2>5. X[1] = e
    BY <1>12
  <2> HIDE DEF D, n, s, X
  <2> QED BY <2>3, <2>4, <2>5
<1>15. CachedNext(u, s) = n + 1 /\ \A r \in Streams : r # s => CachedNext(u, r) = CachedNext(t, r)
  <2>1. seen[s] = n + 1 /\ \A r \in Streams : r # s => seen[r] = t.seen[r]
    BY <1>2, <1>5
  <2>2. n + 1 # 0
    <3> HIDE DEF n
    <3> QED BY <1>13
  <2>3. \A r \in Streams : NextSeq(u.tables, r) = NextSeq(t.tables, r)
    BY <1>6, <1>8 DEF NextSeq
  <2>4. u.seen = seen
    BY <1>6
  <2> HIDE DEF n, seen, s, t
  <2> QED BY <1>5, <2>1, <2>2, <2>3, <2>4 DEF CachedNext
<1>16. Built(db, u)
  <2>1. u.tables.events = t.tables.events \cup RowsAfter(db, Done(t), X, s)
    BY <1>6, <1>8, <1>14
  <2>2. u.tables.autoinc = t.tables.autoinc + Len(X)
    BY <1>6, <1>8, <1>12
  <2>3. Joins(Done(t), X, Done(u), s) /\ Built(db, t)
    BY <1>3, <1>10
  <2>4. CachedNext(u, s) = CachedNext(t, s) + Len(X)
    BY <1>12, <1>15
  <2> HIDE DEF t, X, s, n
  <2> QED BY <1>2, <1>5, <1>15, <2>1, <2>2, <2>3, <2>4, BuiltOn
<1>17. Placed(db, u)
  <2>1. MidImport(u)
    BY <1>1, <1>2, <1>3, <1>6 DEF MidImport, InBody, ThisCall
  <2>2. /\ k \in 1..(Len(cs) + 1)
        /\ t.pub = (db.autoinc + 1)..(db.autoinc + Len(Pre(cs)[k - 1]))
    BY <1>3 DEF Placed
  <2>3. u.item - 1 <= Len(cs[k].items)
    <3>1. u.item - 1 = m /\ Len(cs[k].items) = Len(items)
      BY <1>3, <1>4, <1>6
    <3> QED BY <1>1, <3>1
  <2>4. u.job.req.calls = cs /\ u.call = k /\ u.pub = t.pub
    BY <1>6
  <2> HIDE DEF cs, k, t
  <2> QED BY <2>1, <2>2, <2>3, <2>4 DEF Placed
<1>18. Meant(db, u)
  <2>1. u.phase = "open"
    BY <1>2, <1>6
  <2> QED BY <2>1, <1>16, <1>17 DEF Meant
<1> QED BY <1>7, <1>18, MeantStep

\* The end of an import.
LEMMA FlushMeant ==
  ASSUME IInv, AllMeant, NEW h \in Handles, ImportFlush(h)
  PROVE  AllMeant'
<1> DEFINE t == txn[h]
           d == t.tables
           cs == t.job.req.calls
           k == t.call
           items == ThisCall(h).items
           len == Len(items)
           nx == [s \in Streams |-> CachedNext(t, s)]
           tables == [d EXCEPT !.next = nx]
           done == d.autoinc - len + 1 .. d.autoinc
           n == NextCall(t)
           u == [n EXCEPT !.tables = tables, !.pub = @ \cup done]
           p == Pre(cs)[k - 1]
<1>1. InBody(h) /\ t.item > len
  BY DEF ImportFlush
<1>2. /\ t # None /\ t.phase = "open" /\ t.job.req.op = "txn"
      /\ t \in Txn /\ d \in Tables /\ db \in Tables /\ t.item \in Nat
  BY <1>1, BodyShape, RunningTxn DEF Txn
<1>3. /\ cs \in Seq(TxnCall) /\ Len(cs) \in Nat /\ k \in 1..Len(cs) /\ k \in Nat
      /\ items = cs[k].items /\ items \in Seq(Item) /\ len \in Nat
      /\ p \in Seq(Item) /\ Pre(cs)[k] = p \o items
      /\ Len(p) \in Nat /\ Len(Pre(cs)[k]) = Len(p) + len
      /\ Placed(db, t) /\ Built(db, t)
  BY <1>1, BodyPlace
<1>4. k <= Len(cs) /\ t.item - 1 = len /\ k + 1 \in 1..(Len(cs) + 1) /\ (k + 1) - 1 = k
  <2>1. k <= Len(cs) /\ k + 1 \in 1..(Len(cs) + 1) /\ (k + 1) - 1 = k
    <3> HIDE DEF k, cs
    <3> QED BY <1>3
  <2>2. t.item - 1 <= len
    <3>1. Placed(db, t) /\ len = Len(cs[k].items)
      BY <1>3
    <3> QED BY <2>1, <3>1 DEF Placed
  <2>3. t.item > len /\ t.item \in Nat /\ len \in Nat
    BY <1>1, <1>2, <1>3
  <2> HIDE DEF len, t
  <2>4. t.item - 1 = len
    BY <2>2, <2>3
  <2> QED BY <2>1, <2>4
<1>5. Done(t) = Pre(cs)[k]
  <2>1. Done(t) = p \o SubSeq(cs[k].items, 1, t.item - 1)
    BY <1>4 DEF Done
  <2>2. SubSeq(items, 1, len) = items
    <3>1. items \in Seq(Item)
      BY <1>3
    <3> DEFINE x == items
    <3> HIDE DEF x
    <3>2. x \in Seq(Item)
      BY <3>1 DEF x
    <3>3. SubSeq(x, 1, Len(x)) = x
      BY <3>2
    <3> QED BY <3>3 DEF x
  <2>3. cs[k].items = items
    BY <1>3
  <2> HIDE DEF p, items, len
  <2> QED BY <1>3, <1>4, <2>1, <2>2, <2>3
<1>6. txn' = [txn EXCEPT ![h] = u] /\ UNCHANGED db
  BY DEF ImportFlush, StepTxn
<1> HIDE DEF nx
<1>7. tables.events = d.events /\ tables.autoinc = d.autoinc /\ tables.next = nx
  <2> HIDE DEF d
  <2> QED BY <1>2 DEF Tables
<1>8. /\ u.tables = tables /\ u.pub = t.pub \cup done /\ u.job = t.job /\ u.phase = t.phase
      /\ u.call = k + 1 /\ u.item = 1 /\ u.seen = Unseen
  <2>1. n.pub = t.pub /\ n.job = t.job /\ n.phase = t.phase /\ n.item = 1 /\ n.seen = Unseen
        /\ n.call = k + 1 /\ n \in Txn
    <3>1. n.call = k + 1
      BY <1>2 DEF NextCall, Txn
    <3> HIDE DEF t
    <3> QED BY <3>1, <1>2, NextCallTyped
  <2> HIDE DEF n, tables, done, t
  <2>2. u = [n EXCEPT !.tables = tables, !.pub = n.pub \cup done]
    OBVIOUS
  <2> QED BY <2>1, <2>2 DEF Txn
<1> HIDE DEF u, tables, n
<1>9. Done(u) = Pre(cs)[k]
  <2>1. u.call \in 1..(Len(cs) + 1) /\ u.item = 1 /\ u.job.req.calls = cs
    BY <1>4, <1>8
  <2>2. Done(u) = Pre(cs)[u.call - 1]
    <3> HIDE DEF cs
    <3> QED BY <1>3, <2>1, DoneAtStart
  <2> QED BY <1>4, <1>8, <2>2
<1>10. Built(db, u)
  <2>1. \A s \in Streams : CachedNext(u, s) = CachedNext(t, s)
    BY <1>7, <1>8 DEF CachedNext, Unseen, NextSeq, nx
  <2> HIDE DEF t
  <2>2. u.tables.events = t.tables.events /\ u.tables.autoinc = t.tables.autoinc
    BY <1>7, <1>8 DEF d, t
  <2> QED BY <1>3, <1>5, <1>9, <2>1, <2>2 DEF Built
<1>11. u.pub = (db.autoinc + 1)..(db.autoinc + Len(Pre(cs)[k]))
  <2> DEFINE a == db.autoinc
             m == Len(p)
  <2>1. a \in Nat /\ m \in Nat /\ len \in Nat
    BY <1>2, <1>3 DEF Tables
  <2>2. t.pub = (a + 1)..(a + m)
    BY <1>3 DEF Placed
  <2>3. d.autoinc = a + (m + len)
    BY <1>3, <1>5 DEF Built
  <2>4. Len(Pre(cs)[k]) = m + len
    BY <1>3
  <2> HIDE DEF a, m, len, d
  <2>5. done = (a + m + 1)..(a + m + len)
    <3>1. d.autoinc - len + 1 = a + m + 1 /\ d.autoinc = a + m + len
      BY <2>1, <2>3
    <3> QED BY <3>1
  <2> HIDE DEF done
  <2>6. ((a + 1)..(a + m)) \cup ((a + m + 1)..(a + m + len)) = (a + 1)..(a + (m + len))
    BY <2>1, IntervalGoesOn
  <2> QED BY <1>8, <2>2, <2>4, <2>5, <2>6 DEF a
<1>12. Placed(db, u)
  <2>1. u.job.req.calls = cs /\ u.call = k + 1 /\ u.item = 1
    BY <1>8
  <2>3. ASSUME k + 1 <= Len(cs) PROVE 0 <= Len(cs[k + 1].items)
    <3> HIDE DEF cs, k
    <3>1. cs[k + 1] \in TxnCall
      BY <1>3, <2>3
    <3> DEFINE x == cs[k + 1].items
    <3>2. x \in Seq(Item)
      BY <3>1 DEF TxnCall
    <3> HIDE DEF x
    <3>3. Len(x) \in Nat
      BY <3>2
    <3> QED BY <3>3 DEF x
  <2>4. 1 - 1 = 0
    OBVIOUS
  <2> HIDE DEF k, cs
  <2> QED BY <1>4, <1>11, <2>1, <2>3, <2>4 DEF Placed
<1>13. Meant(db, u)
  <2>1. u.phase = "open"
    BY <1>2, <1>8
  <2> QED BY <2>1, <1>10, <1>12 DEF Meant
<1> QED BY <1>6, <1>13, MeantStep

\* A closure that has made all its calls.
LEMMA BodyMeant ==
  ASSUME IInv, AllMeant, NEW h \in Handles, BodyOk(h)
  PROVE  AllMeant'
<1> DEFINE t == txn[h]
           req == t.job.req
           cs == req.calls
           ans == Landed(t.pub)
           u == [t EXCEPT !.tables = t.tables, !.phase = "ready", !.ans = ans]
           D == ItemsOf(req)
<1>1. /\ t # None /\ t.phase = "open" /\ req.op = "txn"
      /\ t.call > Len(cs) /\ Stage(h, t.tables, ans)
  BY DEF BodyOk, Running
<1>2. /\ t \in Txn /\ db \in Tables /\ req \in Requests
  BY <1>1, RunningTxn
<1>3. cs \in Seq(TxnCall) /\ Placed(db, t) /\ Built(db, t)
  BY <1>1, <1>2, RequestShape DEF AllMeant, Meant
<1>4. Len(cs) \in Nat /\ t.call - 1 = Len(cs) /\ ~(t.call <= Len(cs))
  <2>1. t.call \in 1..(Len(cs) + 1)
    BY <1>3 DEF Placed
  <2>2. Len(cs) \in Nat
    <3> HIDE DEF cs
    <3> QED BY <1>3
  <2> HIDE DEF cs
  <2> QED BY <1>1, <2>1, <2>2
<1>5. Done(t) = D
  <2>1. D = Pre(cs)[Len(cs)]
    BY <1>1 DEF ItemsOf
  <2>2. Done(t) = Pre(cs)[t.call - 1]
    BY <1>4 DEF Done
  <2> QED BY <1>4, <2>1, <2>2
<1>6. Pre(cs)[Len(cs)] = D /\ Len(D) \in Nat
  <2>1. D = Pre(cs)[Len(cs)]
    BY <1>1 DEF ItemsOf
  <2>2. Pre(cs)[Len(cs)] \in Seq(Item)
    <3>1. cs \in Seq(TxnCall) /\ Len(cs) \in 0..Len(cs)
      BY <1>3, <1>4
    <3> HIDE DEF cs
    <3>2. Pre(cs) \in [0..Len(cs) -> Seq(Item)]
      BY <3>1, PreIs
    <3> QED BY <3>1, <3>2
  <2>3. D \in Seq(Item)
    BY <2>1, <2>2
  <2> HIDE DEF D
  <2>4. Len(D) \in Nat
    BY <2>3
  <2> QED BY <2>1, <2>4
<1> HIDE DEF D
<1>7. ans = Landed(Positions(Rows(db, D)))
  <2>1. t.pub = (db.autoinc + 1)..(db.autoinc + Len(D))
    BY <1>3, <1>4, <1>6 DEF Placed
  <2>2. Positions(Rows(db, D)) = (db.autoinc + 1)..(db.autoinc + Len(D))
    BY <1>2, <1>6, RowPositions
  <2> QED BY <2>1, <2>2
<1> HIDE DEF ans
<1>8. /\ u.tables = t.tables /\ u.phase = "ready" /\ u.job = t.job /\ u.ans = ans
  BY <1>2 DEF Txn
<1>9. txn' = [txn EXCEPT ![h] = u] /\ UNCHANGED db
  BY <1>1 DEF Stage
<1> HIDE DEF u
<1>10. Lands(db, u)
  <2>1. u.tables.events = db.events \cup Rows(db, D)
    BY <1>3, <1>5, <1>8 DEF Built
  <2>2. u.job.req = req /\ req.op # "expect" /\ req.op # "decide"
    BY <1>1, <1>8
  <2> HIDE DEF req, t
  <2> QED BY <1>7, <1>8, <2>1, <2>2 DEF Lands, D
<1>11. Meant(db, u)
  BY <1>1, <1>8, <1>10 DEF Meant
<1> QED BY <1>9, <1>11, MeantStep

\* Whatever transaction is still open was, under the same job's request.
LEMMA MeantKept ==
  ASSUME AllMeant, UNCHANGED db,
         \A g \in Handles : txn'[g] # None =>
            /\ txn[g] # None
            /\ txn'[g] = txn[g] \/ \E c \in Clients : txn'[g] = [txn[g] EXCEPT !.job = Orphaned(txn[g].job, c)],
         txn \in [Handles -> Txn \cup {None}]
  PROVE  AllMeant'
<1> SUFFICES ASSUME NEW g \in Handles, txn'[g] # None PROVE Meant(db, txn'[g])
  BY DEF AllMeant
<1>1. txn[g] \in Txn /\ Meant(db, txn[g])
  BY DEF AllMeant
<1>2. CASE txn'[g] = txn[g]
  BY <1>1, <1>2
<1>3. ASSUME NEW c \in Clients, txn'[g] = [txn[g] EXCEPT !.job = Orphaned(txn[g].job, c)]
      PROVE  Meant(db, txn'[g])
  <2> DEFINE t == txn[g]
             job == Orphaned(t.job, c)
             u == [t EXCEPT !.job = job]
  <2>1. job.req = t.job.req
    BY <1>1 DEF Orphaned, Txn, Job
  <2> HIDE DEF job
  <2>2. /\ u.job = job /\ u.tables = t.tables /\ u.phase = t.phase /\ u.call = t.call
        /\ u.item = t.item /\ u.seen = t.seen /\ u.pub = t.pub /\ u.ans = t.ans
    BY <1>1 DEF Txn
  <2>3. txn'[g] = u
    BY <1>3 DEF job
  <2> HIDE DEF u, t
  <2>4. Meant(db, t)
    BY <1>1 DEF t
  <2>5. MidImport(u) = MidImport(t)
    BY <2>1, <2>2 DEF MidImport
  <2>6. Done(u) = Done(t)
    BY <2>1, <2>2 DEF Done
  <2>7. \A s \in Streams : CachedNext(u, s) = CachedNext(t, s)
    BY <2>2 DEF CachedNext
  <2>8. Placed(db, t) => Placed(db, u)
    BY <2>1, <2>2, <2>5 DEF Placed
  <2>9. Built(db, t) => Built(db, u)
    BY <2>2, <2>6, <2>7 DEF Built
  <2>10. Lands(db, t) => Lands(db, u)
    BY <2>1, <2>2 DEF Lands
  <2>11. Removes(db, t) => Removes(db, u)
    BY <2>1, <2>2 DEF Removes
  <2> QED BY <2>1, <2>2, <2>3, <2>4, <2>8, <2>9, <2>10, <2>11 DEF Meant
<1> QED BY <1>2, <1>3

\* A transaction begins.
LEMMA BeginMeant ==
  ASSUME IInv, AllMeant, NEW h \in Handles, Begin(h)
  PROVE  AllMeant'
<1> DEFINE job == Head(queue[h])
           u == Start(job)
<1>1. queue[h] \in Seq(Job) /\ queue[h] # <<>> /\ db \in Tables
  BY DEF Begin, IInv, TypeOK
<1>2. job \in Job
  BY <1>1
<1>3. txn' = [txn EXCEPT ![h] = u] /\ UNCHANGED db
  BY DEF Begin
<1> HIDE DEF job
<1>4. Unseen \in [Streams -> Nat]
  BY DEF Unseen
<1>5. /\ u \in Txn /\ u.job = job /\ u.tables = db /\ u.phase = "open" /\ u.call = 1
      /\ u.item = 1 /\ u.seen = Unseen /\ u.pub = {}
  BY <1>1, <1>2, <1>4 DEF Start, Txn
<1> HIDE DEF u
<1>6. Meant(db, u)
  BY <1>1, <1>2, <1>5, StartMeant
<1> QED BY <1>3, <1>6, MeantStep

\* A transaction is dropped.
LEMMA DroppedMeant ==
  ASSUME IInv, AllMeant, NEW h \in Handles, txn' = [txn EXCEPT ![h] = None], UNCHANGED db
  PROVE  AllMeant'
<1>1. txn \in [Handles -> Txn \cup {None}]
  BY DEF IInv, TypeOK
<1>2. \A g \in Handles : txn'[g] # None => txn[g] # None /\ txn'[g] = txn[g]
  BY <1>1
<1> QED BY <1>1, <1>2, MeantKept

\* A transaction ends, or a run, a decision or a removal is staged.
LEMMA ExecMeant ==
  ASSUME IInv, AllMeant, NEW h \in Handles,
         ExecAppend(h) \/ ExecExpect(h) \/ ExecDecide(h) \/ ExecRetain(h)
  PROVE  AllMeant'
<1> DEFINE req == txn[h].job.req
<1>1. txn[h] # None /\ txn[h].phase = "open"
  BY DEF ExecAppend, ExecExpect, ExecDecide, ExecRetain, Running
<1>2. ASSUME NEW ans, Rollback(h, ans) PROVE AllMeant'
  <2>1. txn' = [txn EXCEPT ![h] = None] /\ UNCHANGED db
    BY <1>2 DEF Rollback
  <2> QED BY <2>1, DroppedMeant
<1>3. ASSUME req.op \in {"append", "expect", "decide"}, AppendOrFail(h, req.stream, req.run),
             req.op = "expect" => CounterHead(txn[h].tables, req.stream) = req.expected,
             req.op = "decide" => StreamRows(txn[h].tables, req.stream, req.kinds) = {}
      PROVE  AllMeant'
  <2>1. CASE RunTaken(txn[h].tables, req.stream, req.run)
    BY <1>2, <1>3, <2>1 DEF AppendOrFail
  <2>2. CASE ~RunTaken(txn[h].tables, req.stream, req.run)
    BY <1>1, <1>3, <2>2, RunMeant DEF AppendOrFail
  <2> QED BY <2>1, <2>2
<1>4. CASE ExecAppend(h)
  BY <1>3, <1>4 DEF ExecAppend, Running
<1>5. CASE ExecExpect(h)
  BY <1>2, <1>3, <1>5 DEF ExecExpect, Running
<1>6. CASE ExecDecide(h)
  BY <1>2, <1>3, <1>6 DEF ExecDecide, Running
<1>7. CASE ExecRetain(h)
  <2>1. req.op = "retain"
    BY <1>7 DEF ExecRetain, Running
  <2>2. CASE RetainAnswer(txn[h].tables, req.plan, req.guard) = "removed"
    BY <1>1, <1>7, <2>1, <2>2, RetainMeant DEF ExecRetain
  <2>3. CASE RetainAnswer(txn[h].tables, req.plan, req.guard) # "removed"
    BY <1>2, <1>7, <2>3 DEF ExecRetain
  <2> QED BY <2>2, <2>3
<1> QED BY <1>4, <1>5, <1>6, <1>7

\* Every step keeps what open transactions mean.
LEMMA MeantNext ==
  ASSUME SwallowErrors = FALSE, IInv, AllMeant, [Next]_vars
  PROVE  AllMeant'
<1>1. txn \in [Handles -> Txn \cup {None}]
  BY DEF IInv, TypeOK
<1>2. ASSUME UNCHANGED <<db, txn>> PROVE AllMeant'
  BY <1>1, <1>2, MeantKept
<1>3. ASSUME NEW h \in Handles, NEW ans, Rollback(h, ans) PROVE AllMeant'
  <2>1. txn' = [txn EXCEPT ![h] = None] /\ UNCHANGED db
    BY <1>3 DEF Rollback
  <2> QED BY <2>1, DroppedMeant
<1>4. ASSUME NEW h \in Handles, TxnAppend(h) PROVE AllMeant'
  <2>1. CASE RunTaken(txn[h].tables, ThisCall(h).items[1].stream, ThisCall(h).items)
    BY <1>3, <1>4, <2>1 DEF TxnAppend
  <2>2. CASE ~RunTaken(txn[h].tables, ThisCall(h).items[1].stream, ThisCall(h).items)
    BY <1>4, <2>2, AppendMeant
  <2> QED BY <2>1, <2>2
<1>5. ASSUME NEW h \in Handles, ImportItem(h) PROVE AllMeant'
  <2> DEFINE e == ThisCall(h).items[txn[h].item]
  <2>1. CASE Taken(txn[h].tables, e.stream, CachedNext(txn[h], e.stream))
    BY <1>3, <1>5, <2>1 DEF ImportItem
  <2>2. CASE ~Taken(txn[h].tables, e.stream, CachedNext(txn[h], e.stream))
    BY <1>5, <2>2, ImportMeant
  <2> QED BY <2>1, <2>2
<1>6. ASSUME NEW h \in Handles, ImportRefused(h) PROVE AllMeant'
  BY <1>3, <1>6 DEF ImportRefused
<1>7. ASSUME NEW h \in Handles, Commit(h) PROVE AllMeant'
  <2>1. txn' = [txn EXCEPT ![h] = None] /\ txn[h] # None
    BY <1>7 DEF Commit
  <2>2. \A g \in Handles : txn[g] # None => g = h
    BY <2>1 DEF IInv, LockHeld
  <2>3. \A g \in Handles : txn'[g] = None
    BY <1>1, <2>1, <2>2
  <2> QED BY <2>3 DEF AllMeant
<1>8. ASSUME NEW h \in Handles, IsleStep(h) PROVE AllMeant'
  <2>1. CASE Contend(h)
    BY <1>2, <2>1 DEF Contend
  <2> QED BY <1>4, <1>5, <1>6, <1>7, <1>8, <2>1, BeginMeant, ExecMeant, FlushMeant, BodyMeant
          DEF IsleStep
<1>9. ASSUME NEW c \in Clients, CallerStep(c) \/ \E req \in Requests : Call(c, req) PROVE AllMeant'
  BY <1>2, <1>9 DEF CallerStep, BackOff, Resubmit, Return, Call
<1>10. ASSUME NEW c \in Clients, Cancel(c) PROVE AllMeant'
  <2> DEFINE h == HandleOf[c]
             v == IF txn[h] = None THEN None
                  ELSE [txn[h] EXCEPT !.job = Orphaned(txn[h].job, c)]
  <2>1. h \in Handles /\ txn' = [txn EXCEPT ![h] = v] /\ UNCHANGED db
    BY <1>10, HandleOfAssumption DEF Cancel
  <2>2. \A g \in Handles : txn'[g] = IF g = h THEN v ELSE txn[g]
    <3> HIDE DEF v
    <3> QED BY <1>1, <2>1
  <2>3. \A g \in Handles : txn'[g] # None =>
          /\ txn[g] # None
          /\ txn'[g] = txn[g] \/ \E b \in Clients : txn'[g] = [txn[g] EXCEPT !.job = Orphaned(txn[g].job, b)]
    BY <2>2
  <2> QED BY <1>1, <2>1, <2>3, MeantKept
<1>11. ASSUME NEW h \in Handles, StatementFails(h) \/ BodyErr(h) PROVE AllMeant'
  BY <1>3, <1>11 DEF StatementFails, BodyErr
<1>12. ASSUME NEW h \in Handles,
              Shutdown(h) \/ Drained(h) \/ Reopen(h) \/ \E req \in Detachable : Detach(h, req)
       PROVE  AllMeant'
  BY <1>2, <1>12 DEF Shutdown, Drained, Reopen, Detach
<1>13. ASSUME NEW h \in Handles, Crash(h) PROVE AllMeant'
  <2>1. txn' = [txn EXCEPT ![h] = None] /\ UNCHANGED db
    BY <1>13 DEF Crash
  <2> QED BY <2>1, DroppedMeant
<1>14. CASE UNCHANGED vars
  BY <1>2, <1>14 DEF vars
<1> QED BY <1>8, <1>9, <1>10, <1>11, <1>12, <1>13, <1>14 DEF Next

-----------------------------------------------------------------------------
(* LinearLog's calls and orphans, as functions of the state.               *)

\* A call as its caller's state shows it.
View(t) ==
  IF t.st = "idle" THEN None
  ELSE IF t.st = "answered" /\ ~WillRetry(t)
       THEN [st |-> "done", req |-> t.req, ans |-> t.ans]
       ELSE [st |-> "pending", req |-> t.req, ans |-> None]

Views(T) == [c \in Clients |-> View(T[c])]

\* A call is no call only when its caller is idle.
LEMMA ViewIs ==
  ASSUME NEW t \in Task
  PROVE  /\ t.st = "idle" => View(t) = None
         /\ t.st # "idle" /\ ~(t.st = "answered" /\ ~WillRetry(t)) =>
              View(t) # None /\ View(t) = Linear!Pending(t.req) /\ View(t).st = "pending"
              /\ View(t).req = t.req
         /\ t.st = "answered" /\ ~WillRetry(t) =>
              View(t) # None /\ View(t) = Linear!Done(t.req, t.ans) /\ View(t).st = "done"
              /\ View(t).ans = t.ans
<1>1. t.req \in Requests \cup {None} /\ t.ans \in Ans \cup {None}
  BY DEF Task
<1>2. /\ [st |-> "pending", req |-> t.req, ans |-> None] # None
      /\ [st |-> "done", req |-> t.req, ans |-> t.ans] # None
  BY <1>1, NoCallAssumption
<1> QED BY <1>2 DEF View, Linear!Pending, Linear!Done

\* The calls are the views, before a step and after it.
LEMMA CallsAre ==
  /\ [c \in Clients |-> AbstractCall(c)] = Views(task)
  /\ [c \in Clients |-> AbstractCall(c)]' = Views(task')
BY DEF AbstractCall, Views, View

\* What a handle's queue and its open transaction leave without an owner.
LEMMA OwnerlessOf ==
  ASSUME NEW q \in Seq(Job), NEW x \in Txn \cup {None}
  PROVE  LET queued == {q[i] : i \in DOMAIN q}
             running == IF x = None THEN {} ELSE {x.job} IN
         {[id |-> j.id, req |-> j.req] : j \in {k \in queued \cup running : k.client = None}}
           = NotesOf(LineOf(q, x))
<1> DEFINE queued == {q[i] : i \in DOMAIN q}
           running == IF x = None THEN {} ELSE {x.job}
           l == LineOf(q, x)
<1>1. queued \cup running = {l[i] : i \in DOMAIN l}
  <2>1. CASE x = None
    BY <2>1 DEF LineOf
  <2>2. CASE x # None
    <3> DEFINE j == x.job
    <3>1. j \in Job
      BY <2>2 DEF Txn
    <3>2. l = <<j>> \o q
      BY <2>2 DEF LineOf
    <3>3. running = {j}
      BY <2>2
    <3> HIDE DEF j, l, running
    <3>4. /\ Len(q) \in Nat /\ DOMAIN q = 1..Len(q)
          /\ DOMAIN (<<j>> \o q) = 1..(Len(q) + 1) /\ (<<j>> \o q)[1] = j
          /\ \A i \in 1..Len(q) : (<<j>> \o q)[i + 1] = q[i]
      BY <3>1
    <3>5. ASSUME NEW y \in queued \cup running PROVE \E i \in DOMAIN l : l[i] = y
      <4>1. CASE y = j
        BY <3>2, <3>4, <4>1
      <4>2. CASE y # j
        <5>1. PICK i \in 1..Len(q) : y = q[i]
          BY <3>3, <3>4, <3>5, <4>2
        <5>2. i + 1 \in 1..(Len(q) + 1)
          BY <3>4
        <5> QED BY <3>2, <3>4, <5>1, <5>2
      <4> QED BY <4>1, <4>2
    <3>6. ASSUME NEW i \in DOMAIN l PROVE l[i] \in queued \cup running
      <4>1. i \in 1..(Len(q) + 1)
        BY <3>2, <3>4
      <4>2. CASE i = 1
        BY <3>2, <3>3, <3>4, <4>2
      <4>3. CASE i # 1
        <5>1. i - 1 \in 1..Len(q) /\ (i - 1) + 1 = i
          BY <3>4, <4>1, <4>3
        <5>2. l[i] = q[i - 1]
          BY <3>2, <3>4, <5>1
        <5> QED BY <3>4, <5>1, <5>2
      <4> QED BY <4>2, <4>3
    <3> QED BY <3>5, <3>6
  <2> QED BY <2>1, <2>2
<1> DEFINE all == queued \cup running
<1> HIDE DEF all, l
<1>2. {[id |-> j.id, req |-> j.req] : j \in {k \in all : k.client = None}} = NotesOf(l)
  <2>1. ASSUME NEW k \in all, k.client = None PROVE [id |-> k.id, req |-> k.req] \in NotesOf(l)
    <3>1. PICK i \in DOMAIN l : k = l[i]
      BY <1>1 DEF all
    <3> QED BY <2>1, <3>1 DEF NotesOf, Note
  <2>2. ASSUME NEW i \in DOMAIN l, l[i].client = None PROVE l[i] \in all
    BY <1>1 DEF all
  <2> QED BY <2>1, <2>2 DEF NotesOf, Note
<1> QED BY <1>2 DEF all, l

\* The orphans are the notes of the lines.
LEMMA OrphansAre ==
  /\ IInv => UNION {Ownerless(h) : h \in Handles} = Unowned(Lines)
  /\ IInv' => (UNION {Ownerless(h) : h \in Handles})' = Unowned(Lines')
<1>1. ASSUME IInv PROVE UNION {Ownerless(h) : h \in Handles} = Unowned(Lines)
  <2>1. ASSUME NEW h \in Handles PROVE Ownerless(h) = NotesOf(Lines[h])
    <3>1. queue[h] \in Seq(Job) /\ txn[h] \in Txn \cup {None}
      BY <1>1 DEF IInv, TypeOK
    <3>2. Ownerless(h) = NotesOf(LineOf(queue[h], txn[h]))
      BY <3>1, OwnerlessOf DEF Ownerless
    <3> QED BY <3>2 DEF Lines
  <2>2. {Ownerless(h) : h \in Handles} = {NotesOf(Lines[h]) : h \in Handles}
    BY <2>1
  <2> QED BY <2>2 DEF Unowned
<1>2. ASSUME IInv' PROVE (UNION {Ownerless(h) : h \in Handles})' = Unowned(Lines')
  <2>1. ASSUME NEW h \in Handles PROVE Ownerless(h)' = NotesOf(Lines'[h])
    <3>1. queue'[h] \in Seq(Job) /\ txn'[h] \in Txn \cup {None}
      BY <1>2 DEF IInv, TypeOK
    <3> DEFINE q == queue'[h]
               x == txn'[h]
    <3>2. q \in Seq(Job) /\ x \in Txn \cup {None}
      BY <3>1
    <3> HIDE DEF q, x
    <3>3. LET queued == {q[i] : i \in DOMAIN q}
              running == IF x = None THEN {} ELSE {x.job} IN
          {[id |-> j.id, req |-> j.req] : j \in {k \in queued \cup running : k.client = None}}
            = NotesOf(LineOf(q, x))
      BY <3>2, OwnerlessOf
    <3>4. Ownerless(h)' = NotesOf(LineOf(q, x))
      BY <3>3 DEF Ownerless, q, x
    <3> QED BY <3>4 DEF Lines, q, x
  <2>2. {Ownerless(h)' : h \in Handles} = {NotesOf(Lines'[h]) : h \in Handles}
    BY <2>1
  <2> QED BY <2>2 DEF Unowned
<1> QED BY <1>1, <1>2

\* The lines are sequences of jobs.
LEMMA LinesType ==
  /\ IInv => Lines \in [Handles -> Seq(Job)]
  /\ IInv' => Lines' \in [Handles -> Seq(Job)]
<1>1. ASSUME IInv PROVE Lines \in [Handles -> Seq(Job)]
  <2>1. \A h \in Handles : queue[h] \in Seq(Job) /\ txn[h] \in Txn \cup {None}
    BY <1>1 DEF IInv, TypeOK
  <2>2. \A h \in Handles : LineOf(queue[h], txn[h]) \in Seq(Job)
    BY <2>1, LineType
  <2> QED BY <2>2 DEF Lines
<1>2. ASSUME IInv' PROVE Lines' \in [Handles -> Seq(Job)]
  <2>1. \A h \in Handles : queue'[h] \in Seq(Job) /\ txn'[h] \in Txn \cup {None}
    BY <1>2 DEF IInv, TypeOK
  <2>2. \A h \in Handles : LineOf(queue'[h], txn'[h]) \in Seq(Job)
    BY <2>1, LineType
  <2> QED BY <2>2 DEF Lines
<1> QED BY <1>1, <1>2

\* The callers other than c keep their tasks.
OthersKept(T, T2, c) == \A b \in Clients : b # c => T2[b] = T[b]

\* No view but the one of c changes.
OneView(T, T2, c) ==
  /\ Views(T2) = [Views(T) EXCEPT ![c] = View(T2[c])]
  /\ Views(T)[c] = View(T[c]) /\ Views(T2)[c] = View(T2[c])
  /\ View(T2[c]) = View(T[c]) => Views(T2) = Views(T)

\* One caller's view changes.
LEMMA ViewChanged ==
  ASSUME NEW T, NEW T2, NEW c \in Clients, OthersKept(T, T2, c)
  PROVE  OneView(T, T2, c)
<1>1. \A b \in Clients : Views(T2)[b] = IF b = c THEN View(T2[c]) ELSE Views(T)[b]
  BY DEF Views, OthersKept
<1>2. DOMAIN Views(T) = Clients /\ DOMAIN Views(T2) = Clients
  BY DEF Views
<1>3. Views(T)[c] = View(T[c]) /\ Views(T2)[c] = View(T2[c])
  BY DEF Views
<1>4. Views(T2) = [b \in Clients |-> IF b = c THEN View(T2[c]) ELSE Views(T)[b]]
  BY DEF Views, OthersKept
<1>5. Views(T2) = [Views(T) EXCEPT ![c] = View(T2[c])]
  BY <1>2, <1>4
<1>6. ASSUME View(T2[c]) = View(T[c]) PROVE Views(T2) = Views(T)
  <2>1. \A b \in Clients : View(T2[b]) = View(T[b])
    BY <1>6 DEF OthersKept
  <2> QED BY <2>1 DEF Views
<1> QED BY <1>3, <1>5, <1>6 DEF OneView

\* What no view shows is a stutter of LinearLog.
LEMMA Unnoticed ==
  ASSUME IInv, IInv', UNCHANGED <<history, db>>, Views(task') = Views(task),
         Unowned(Lines') = Unowned(Lines)
  PROVE  UNCHANGED Linear!vars
<1>1. ([c \in Clients |-> AbstractCall(c)])' = [c \in Clients |-> AbstractCall(c)]
  BY CallsAre
<1>2. (UNION {Ownerless(h) : h \in Handles})' = UNION {Ownerless(h) : h \in Handles}
  BY OrphansAre
<1>3. history' = history /\ db'.events = db.events
  OBVIOUS
<1> QED BY <1>1, <1>2, <1>3 DEF Linear!vars

Effective == {"ok", "none", "mismatch", "removed", "nothing"}

\* How a job may end: refused without a trace, or with its sequential meaning.
Outcome(req, ans) ==
  \/ UNCHANGED <<history, db.events>> /\ ans.tag \in Linear!Refusals
  \/ Linear!Effect(req, ans) /\ ans.tag \in Effective
     /\ ans.positions = {r.pos : r \in history' \ history}

\* The first job of a handle's line ends.
LEMMA JobEnds ==
  ASSUME IInv, IInv', Tracked(Lines, task, ids), NEW h \in Handles, Lines[h] # <<>>,
         NEW ans \in Ans, Reply(Head(Lines[h]), ans), ids' = ids,
         \A g \in Handles : Lines'[g] = IF g = h THEN Tail(Lines[h]) ELSE Lines[g],
         Outcome(Head(Lines[h]).req, ans)
  PROVE  Tracked(Lines', task', ids') /\ [Linear!Next]_Linear!vars
<1> DEFINE job == Head(Lines[h])
           c == job.client
           C == [b \in Clients |-> AbstractCall(b)]
           O == UNION {Ownerless(g) : g \in Handles}
<1>1. Lines \in [Handles -> Seq(Job)] /\ Lines' \in [Handles -> Seq(Job)]
  BY LinesType
<1>2. task \in [Clients -> Task] /\ task' \in [Clients -> Task] /\ ids \in Nat
  BY DEF IInv, TypeOK
<1>3. /\ Lines[h] \in Seq(Job) /\ job \in Job /\ c \in Clients \cup {None}
      /\ 1 \in DOMAIN Lines[h] /\ Lines[h][1] = job
  <2>1. Lines[h] \in Seq(Job)
    BY <1>1
  <2>2. job \in Job /\ 1 \in DOMAIN Lines[h] /\ Lines[h][1] = job
    BY <2>1
  <2> QED BY <2>1, <2>2 DEF Job
<1>4. C = Views(task) /\ C' = Views(task')
  BY CallsAre
<1>5. O = Unowned(Lines) /\ O' = Unowned(Lines')
  BY OrphansAre
<1>6. Reply(job, ans) /\ Outcome(job.req, ans)
  OBVIOUS
<1>7. CASE c = None
  <2>1. task' = task
    BY <1>6, <1>7 DEF Reply
  <2>2. /\ Tracked(Lines', task', ids)
        /\ Unowned(Lines') = Unowned(Lines) \ {Note(job)}
    <3> DEFINE L2 == Lines'
               T2 == task'
    <3>1. L2 \in [Handles -> Seq(Job)] /\ T2 \in [Clients -> Task]
      BY <1>1, <1>2
    <3>2. Dropped(Lines, h, L2)
      BY DEF Dropped
    <3>3. Told(Head(Lines[h]), task, T2)
      BY <1>7, <2>1 DEF Told
    <3> HIDE DEF L2, T2
    <3>4. /\ Tracked(L2, T2, ids)
          /\ Unowned(L2) = IF Head(Lines[h]).client = None THEN Unowned(Lines) \ {Note(Head(Lines[h]))}
                           ELSE Unowned(Lines)
      BY <1>1, <1>2, <3>1, <3>2, <3>3, LineDropped
    <3> QED BY <1>7, <3>4 DEF L2, T2
  <2>3. Note(job) \in Unowned(Lines)
    BY <1>3, <1>7, NotesFrom
  <2> DEFINE o == Note(job)
  <2>4. o.req = job.req
    BY DEF Note
  <2>5. C' = C /\ O' = O \ {o} /\ o \in O
    BY <1>4, <1>5, <2>1, <2>2, <2>3
  <2>6. \/ \E tag \in Effective :
             Linear!Effect(job.req, [tag |-> tag, positions |-> {r.pos : r \in history' \ history}])
        \/ UNCHANGED <<history, db.events>>
    <3>1. CASE UNCHANGED <<history, db.events>>
      BY <3>1
    <3>2. CASE Linear!Effect(job.req, ans) /\ ans.tag \in Effective
               /\ ans.positions = {r.pos : r \in history' \ history}
      <4>1. ans = [tag |-> ans.tag, positions |-> {r.pos : r \in history' \ history}]
        BY <3>2 DEF Ans
      <4> QED BY <3>2, <4>1
    <3> QED BY <1>6, <3>1, <3>2 DEF Outcome
  <2> HIDE DEF o, C, O
  <2>7. Linear!OrphanStep(o)
    BY <2>4, <2>5, <2>6 DEF Linear!OrphanStep, C, O, Effective
  <2>8. Linear!Next
    BY <2>5, <2>7 DEF Linear!Next, O
  <2> QED BY <2>2, <2>8
<1>8. CASE c # None
  <2>1. /\ c \in Clients /\ task[c].st = "waiting" /\ task[c].req = job.req
        /\ task[c] \in Task /\ task'[c] \in Task
    <3>1. c \in Clients
      BY <1>3, <1>8
    <3>2. task[c].st = "waiting" /\ task[c].req = job.req
      BY <1>3, <1>8 DEF Tracked, Awaited
    <3> QED BY <1>2, <3>1, <3>2
  <2> DEFINE new == [task[c] EXCEPT !.st = "answered", !.ans = ans]
  <2>2. task' = [task EXCEPT ![c] = new]
    BY <1>6, <1>8 DEF Reply, Settle
  <2>3. new.st = "answered" /\ new.ans = ans /\ new.req = job.req /\ new.id = task[c].id
        /\ new.tries = task[c].tries
    BY <2>1 DEF Task
  <2> HIDE DEF new, c, job
  <2>4. task'[c] = new /\ \A b \in Clients : b # c => task'[b] = task[b]
    BY <1>2, <2>1, <2>2
  <2>5. Tracked(Lines', task', ids) /\ Unowned(Lines') = Unowned(Lines)
    <3> DEFINE L2 == Lines'
               T2 == task'
    <3>1. L2 \in [Handles -> Seq(Job)] /\ T2 \in [Clients -> Task]
      BY <1>1, <1>2
    <3>2. Dropped(Lines, h, L2)
      BY DEF Dropped
    <3>3. Told(Head(Lines[h]), task, T2)
      BY <1>8, <2>3, <2>4 DEF Told, c, job
    <3> HIDE DEF L2, T2
    <3>4. /\ Tracked(L2, T2, ids)
          /\ Unowned(L2) = IF Head(Lines[h]).client = None THEN Unowned(Lines) \ {Note(Head(Lines[h]))}
                           ELSE Unowned(Lines)
      BY <1>1, <1>2, <3>1, <3>2, <3>3, LineDropped
    <3> QED BY <1>8, <3>4 DEF L2, T2, c, job
  <2>6. View(task[c]) = Linear!Pending(job.req) /\ View(task[c]) # None
        /\ View(task[c]).st = "pending" /\ View(task[c]).req = job.req
    BY <2>1, ViewIs
  <2>7. /\ C' = [C EXCEPT ![c] = View(task'[c])] /\ C[c] = View(task[c])
        /\ C'[c] = View(task'[c]) /\ (View(task'[c]) = View(task[c]) => C' = C)
    <3> HIDE DEF C
    <3> DEFINE T2 == task'
    <3>1. OthersKept(task, T2, c)
      BY <2>4 DEF OthersKept
    <3> HIDE DEF T2
    <3>2. OneView(task, T2, c)
      BY <2>1, <3>1, ViewChanged
    <3> QED BY <1>4, <3>2 DEF T2, OneView
  <2>8. CASE WillRetry(new)
    <3>1. ans.tag = "busy"
      BY <2>3, <2>8 DEF WillRetry
    <3>2. View(task'[c]) = View(task[c])
      BY <2>1, <2>3, <2>4, <2>6, <2>8, ViewIs
    <3>3. UNCHANGED <<history, db.events>>
      BY <1>6, <3>1 DEF Outcome, Effective
    <3>4. C' = C /\ O' = O
      BY <1>5, <2>5, <2>7, <3>2
    <3> HIDE DEF C, O
    <3>5. UNCHANGED Linear!vars
      BY <3>3, <3>4 DEF Linear!vars, C, O
    <3> QED BY <2>5, <3>5
  <2>9. CASE ~WillRetry(new)
    <3>1. /\ View(task'[c]) # None /\ View(task'[c]) = Linear!Done(job.req, ans)
          /\ View(task'[c]).st = "done" /\ View(task'[c]).ans = ans
      BY <2>1, <2>3, <2>4, <2>9, ViewIs
    <3>2. Linear!Effect(job.req, ans) \/ Linear!Refused(job.req, ans)
      BY <1>6 DEF Outcome, Linear!Refused, Linear!Nothing
    <3>3. O' = O
      BY <1>5, <2>5
    <3>4. /\ C[c] # None /\ C[c].st = "pending" /\ C[c].req = job.req
          /\ C'[c] # None /\ C'[c].st = "done" /\ C'[c].ans = ans
          /\ C' = [C EXCEPT ![c] = Linear!Done(C[c].req, C'[c].ans)]
      BY <2>6, <2>7, <3>1
    <3> HIDE DEF C, O
    <3>5. Linear!Finish(c)
      BY <3>2, <3>3, <3>4 DEF Linear!Finish, C, O
    <3>6. Linear!Next
      BY <2>1, <3>5 DEF Linear!Next
    <3> QED BY <2>5, <3>6
  <2> QED BY <2>8, <2>9
<1> QED BY <1>7, <1>8

-----------------------------------------------------------------------------
(* The steps, as the lines and LinearLog's calls see them.                 *)

Follows == Tracked(Lines', task', ids') /\ [Linear!Next]_Linear!vars

\* Lines and calls that look the same.
LEMMA Quiet ==
  ASSUME IInv, IInv', Tracked(Lines, task, ids), UNCHANGED <<history, db, task, ids>>,
         Lines' = Lines
  PROVE  Follows
<1>1. Views(task') = Views(task) /\ Unowned(Lines') = Unowned(Lines)
  OBVIOUS
<1>2. UNCHANGED Linear!vars
  BY <1>1, Unnoticed
<1>3. Tracked(Lines', task', ids')
  OBVIOUS
<1> QED BY <1>2, <1>3 DEF Follows

\* One handle's queue and transaction change, and its line does not.
LEMMA SameLine ==
  ASSUME IInv, NEW h \in Handles,
         \A g \in Handles : g # h => queue'[g] = queue[g] /\ txn'[g] = txn[g],
         LineOf(queue'[h], txn'[h]) = LineOf(queue[h], txn[h])
  PROVE  Lines' = Lines
BY DEF Lines

\* A transaction begins, or goes on.
LEMMA WorkFollows ==
  ASSUME IInv, IInv', Tracked(Lines, task, ids), NEW h \in Handles,
         \/ Begin(h)
         \/ /\ txn[h] # None /\ UNCHANGED <<db, history, queue, task, ids>>
            /\ \E t : t.job = txn[h].job /\ t # None /\ txn' = [txn EXCEPT ![h] = t]
  PROVE  Follows
<1>1. queue[h] \in Seq(Job) /\ queue \in [Handles -> Seq(Job)] /\ txn \in [Handles -> Txn \cup {None}]
  BY DEF IInv, TypeOK
<1>2. CASE Begin(h)
  <2> DEFINE q == queue[h]
             t == Start(Head(q))
  <2>1. q # <<>> /\ txn[h] = None /\ txn' = [txn EXCEPT ![h] = t]
        /\ queue' = [queue EXCEPT ![h] = Tail(q)] /\ UNCHANGED <<db, history, task, ids>>
    BY <1>2 DEF Begin
  <2>2. Head(q) \in Job
    BY <1>1, <2>1
  <2>3. txn'[h] = t /\ queue'[h] = Tail(q)
    BY <1>1, <2>1
  <2>4. t \in Txn
    <3>1. db \in Tables /\ Unseen \in [Streams -> Nat]
      BY DEF IInv, TypeOK, Unseen
    <3> HIDE DEF q
    <3> QED BY <2>2, <3>1 DEF Start, Txn
  <2>5. t.job = Head(q)
    BY DEF Start
  <2> HIDE DEF t, q
  <2>6. LineOf(Tail(q), t) = q /\ LineOf(q, None) = q
    <3>1. q \in Seq(Job)
      BY <1>1 DEF q
    <3> QED BY <2>1, <2>2, <2>4, <2>5, <3>1, LineSteps
  <2>7. LineOf(queue'[h], txn'[h]) = LineOf(queue[h], txn[h])
    BY <2>1, <2>3, <2>6 DEF q
  <2>8. \A g \in Handles : g # h => queue'[g] = queue[g] /\ txn'[g] = txn[g]
    BY <1>1, <2>1
  <2> QED BY <2>1, <2>7, <2>8, SameLine, Quiet
<1>3. ASSUME txn[h] # None, UNCHANGED <<db, history, queue, task, ids>>,
             NEW t, t.job = txn[h].job, t # None, txn' = [txn EXCEPT ![h] = t]
      PROVE  Follows
  <2>1. txn'[h] = t /\ \A g \in Handles : g # h => txn'[g] = txn[g]
    BY <1>1, <1>3
  <2>2. LineOf(queue'[h], txn'[h]) = LineOf(queue[h], txn[h])
    BY <1>3, <2>1 DEF LineOf
  <2> QED BY <1>3, <2>1, <2>2, SameLine, Quiet
<1> QED BY <1>2, <1>3

\* A step that touches no call, queue or table, as when a handle is shut down,
\* has drained or is opened again, is nothing to LinearLog.
LEMMA IdleFollows ==
  ASSUME IInv, IInv', Tracked(Lines, task, ids),
         db' = db, history' = history, queue' = queue, txn' = txn, task' = task, ids' = ids
  PROVE  Follows
<1>1. Lines' = Lines
  BY DEF Lines
<1> QED BY <1>1, Quiet

\* A job is queued.
LEMMA QueueJoined ==
  ASSUME IInv, IInv', Tracked(Lines, task, ids), NEW h \in Handles, NEW job \in Job,
         queue' = [queue EXCEPT ![h] = Append(queue[h], job)], UNCHANGED txn,
         UpTo(ids, job, ids'),
         NewId(Lines, task, job), Waits(job, h, task, task')
  PROVE  /\ Tracked(Lines', task', ids')
         /\ job.client = None => Unowned(Lines') = Unowned(Lines) \cup {Note(job)}
         /\ job.client # None => Unowned(Lines') = Unowned(Lines)
<1> DEFINE L2 == Lines'
           T2 == task'
           m == ids'
<1>1. Lines \in [Handles -> Seq(Job)] /\ L2 \in [Handles -> Seq(Job)]
  BY LinesType
<1>2. task \in [Clients -> Task] /\ T2 \in [Clients -> Task] /\ ids \in Nat /\ m \in Nat
  BY DEF IInv, TypeOK
<1>3. /\ queue[h] \in Seq(Job) /\ queue \in [Handles -> Seq(Job)]
      /\ txn[h] \in Txn \cup {None}
  BY DEF IInv, TypeOK
<1>4. LineOf(Append(queue[h], job), txn[h]) = Append(LineOf(queue[h], txn[h]), job)
  BY <1>3, LineSteps
<1>5. Added(Lines, h, job, L2)
  <2>1. \A g \in Handles : queue'[g] = IF g = h THEN Append(queue[h], job) ELSE queue[g]
    BY <1>3
  <2>2. Lines[h] = LineOf(queue[h], txn[h])
    BY DEF Lines
  <2>3. L2[h] = LineOf(Append(queue[h], job), txn[h])
    BY <2>1 DEF Lines
  <2>4. \A g \in Handles : g # h => L2[g] = Lines[g]
    BY <2>1 DEF Lines
  <2> HIDE DEF L2
  <2>5. L2[h] = Append(Lines[h], job)
    BY <1>4, <2>2, <2>3
  <2> QED BY <2>4, <2>5 DEF Added
<1> HIDE DEF L2, T2, m
<1>6. UpTo(ids, job, m) /\ Waits(job, h, task, T2)
  BY DEF m, T2
<1>7. Tracked(L2, T2, m) /\ Noted(Lines, job, L2)
  BY <1>1, <1>2, <1>5, <1>6, LineAdded
<1> QED BY <1>7 DEF L2, T2, m, Noted

\* An id beyond every id in use.
LEMMA BeyondAll ==
  ASSUME IInv, Tracked(Lines, task, ids), NEW job, job.id = ids + 1
  PROVE  NewId(Lines, task, job) /\ (job.client = None => Note(job) \notin Unowned(Lines))
<1>1. ids \in Nat /\ ids + 1 > ids
  BY DEF IInv, TypeOK
<1>2. Lines \in [Handles -> Seq(Job)] /\ task \in [Clients -> Task]
  BY LinesType DEF IInv, TypeOK
<1>3. ASSUME NEW g \in Handles, NEW i \in DOMAIN Lines[g] PROVE Lines[g][i].id # job.id
  <2>1. Lines[g] \in Seq(Job)
    BY <1>2
  <2>2. Lines[g][i] \in Job
    BY <2>1
  <2> DEFINE k == Lines[g][i].id
  <2>3. k \in Nat /\ k <= ids
    BY <2>2 DEF Job, Tracked, Awaited
  <2> HIDE DEF k
  <2>4. k # job.id
    BY <1>1, <2>3
  <2> QED BY <2>4 DEF k
<1>4. ASSUME NEW b \in Clients, task[b].st # "idle" PROVE task[b].id # job.id
  <2> DEFINE k == task[b].id
  <2>1. k \in Nat /\ k <= ids
    BY <1>2, <1>4 DEF Task, Tracked, Apart
  <2> HIDE DEF k
  <2>2. k # job.id
    BY <1>1, <2>1
  <2> QED BY <2>2 DEF k
<1>5. Note(job) \notin Unowned(Lines)
  <2> SUFFICES ASSUME Note(job) \in Unowned(Lines) PROVE FALSE
    OBVIOUS
  <2>1. PICK g \in Handles : \E i \in DOMAIN Lines[g] : Note(job) = Note(Lines[g][i])
    BY NotesFrom
  <2>2. PICK i \in DOMAIN Lines[g] : Note(job) = Note(Lines[g][i])
    BY <2>1
  <2>3. Note(job).id = job.id /\ Note(Lines[g][i]).id = Lines[g][i].id
    BY DEF Note
  <2> QED BY <1>3, <2>2, <2>3
<1> QED BY <1>3, <1>4, <1>5 DEF NewId

\* A call is LinearLog's Invoke.
LEMMA CallFollows ==
  ASSUME IInv, IInv', Tracked(Lines, task, ids), NEW c \in Clients, NEW req \in Requests,
         Call(c, req)
  PROVE  Follows
<1> DEFINE h == HandleOf[c]
           new == Asked(ids + 1, req)
           job == [id |-> ids + 1, client |-> c, req |-> req]
           C == [b \in Clients |-> AbstractCall(b)]
           O == UNION {Ownerless(g) : g \in Handles}
<1>1. h \in Handles /\ ids \in Nat /\ ids + 1 \in Nat /\ ids <= ids + 1 /\ c # None
  BY HandleOfAssumption, NoneAssumption DEF IInv, TypeOK
<1>2. /\ task[c] = Idle /\ task' = [task EXCEPT ![c] = new] /\ ids' = ids + 1
      /\ queue' = [queue EXCEPT ![h] = Append(queue[h], job)]
      /\ UNCHANGED <<db, history, lock, txn, notify, mode>>
  BY DEF Call, Enqueue
<1>3. /\ job \in Job /\ job.id = ids + 1 /\ job.client = c /\ job.req = req
  BY <1>1 DEF Job
<1>4. /\ new.st = "waiting" /\ new.id = ids + 1 /\ new.req = req /\ Idle.st = "idle"
  BY DEF Asked, Idle
<1>5. task \in [Clients -> Task] /\ task' \in [Clients -> Task]
  BY DEF IInv, TypeOK
<1>6. task'[c] = new /\ \A b \in Clients : b # c => task'[b] = task[b]
  BY <1>2, <1>5
<1> HIDE DEF job, new
<1>7. Waits(job, h, task, task')
  BY <1>1, <1>2, <1>3, <1>4, <1>6 DEF Waits
<1>8. NewId(Lines, task, job)
  BY <1>3, BeyondAll
<1>9. /\ Tracked(Lines', task', ids') /\ Unowned(Lines') = Unowned(Lines)
  <2>1. UpTo(ids, job, ids')
    BY <1>1, <1>2, <1>3 DEF UpTo
  <2> HIDE DEF h
  <2> QED BY <1>1, <1>2, <1>3, <1>7, <1>8, <2>1, QueueJoined
<1>10. C = Views(task) /\ C' = Views(task') /\ O' = O
  BY <1>9, CallsAre, OrphansAre
<1>11. /\ View(task[c]) = None /\ View(task'[c]) = Linear!Pending(req)
       /\ View(task'[c]) # None /\ View(task'[c]).st = "pending" /\ View(task'[c]).req = req
  <2>1. task[c] \in Task /\ task'[c] \in Task
    BY <1>5
  <2>2. task[c].st = "idle" /\ task'[c].st = "waiting" /\ task'[c].req = req
    BY <1>2, <1>4, <1>6
  <2> QED BY <2>1, <2>2, ViewIs
<1>12. /\ C' = [C EXCEPT ![c] = View(task'[c])] /\ C[c] = View(task[c]) /\ C'[c] = View(task'[c])
  <2> HIDE DEF C
  <2> DEFINE T2 == task'
  <2>1. OthersKept(task, T2, c)
    BY <1>6 DEF OthersKept
  <2> HIDE DEF T2
  <2>2. OneView(task, T2, c)
    BY <2>1, ViewChanged
  <2> QED BY <1>10, <2>2 DEF T2, OneView
<1>13. /\ C[c] = None /\ C'[c] # None /\ C'[c].st = "pending"
       /\ C' = [C EXCEPT ![c] = Linear!Pending(C'[c].req)]
  BY <1>11, <1>12
<1> HIDE DEF C, O
<1>14. UNCHANGED <<history, db.events>>
  BY <1>2
<1>15. Linear!Invoke(c)
  BY <1>10, <1>13, <1>14 DEF Linear!Invoke, C, O
<1>16. Linear!Next
  BY <1>15 DEF Linear!Next
<1> QED BY <1>9, <1>16 DEF Follows

\* So is a detached append its Detach.
LEMMA DetachFollows ==
  ASSUME IInv, IInv', Tracked(Lines, task, ids), NEW h \in Handles, NEW req \in Detachable,
         Detach(h, req)
  PROVE  Follows
<1> DEFINE job == [id |-> ids + 1, client |-> None, req |-> req]
           C == [b \in Clients |-> AbstractCall(b)]
           O == UNION {Ownerless(g) : g \in Handles}
           o == Note(job)
<1>1. ids \in Nat /\ ids + 1 \in Nat /\ ids <= ids + 1 /\ req \in Requests
  BY RequestsAssumption DEF IInv, TypeOK
<1>2. /\ ids' = ids + 1 /\ queue' = [queue EXCEPT ![h] = Append(queue[h], job)]
      /\ UNCHANGED <<db, history, lock, txn, task, notify, mode>>
  BY DEF Detach, Enqueue
<1>3. job \in Job /\ job.id = ids + 1 /\ job.client = None
  BY <1>1 DEF Job
<1> HIDE DEF job
<1>4. Waits(job, h, task, task')
  BY <1>2, <1>3 DEF Waits
<1>5. NewId(Lines, task, job) /\ Note(job) \notin Unowned(Lines)
  BY <1>3, BeyondAll
<1>6. /\ Tracked(Lines', task', ids') /\ Unowned(Lines') = Unowned(Lines) \cup {Note(job)}
  <2>1. UpTo(ids, job, ids')
    BY <1>1, <1>2, <1>3 DEF UpTo
  <2> QED BY <1>1, <1>2, <1>3, <1>4, <1>5, <2>1, QueueJoined
<1>7. C' = C /\ O' = O \cup {o} /\ o \notin O
  <2>1. C = Views(task) /\ C' = Views(task')
    BY CallsAre
  <2>2. O = Unowned(Lines) /\ O' = Unowned(Lines')
    BY OrphansAre
  <2> QED BY <1>2, <1>5, <1>6, <2>1, <2>2
<1> HIDE DEF C, O, o
<1>8. UNCHANGED <<history, db.events>>
  BY <1>2
<1>9. Linear!Detach
  <2>1. o \in O'
    BY <1>7
  <2> QED BY <1>7, <1>8, <2>1 DEF Linear!Detach, C, O
<1>10. Linear!Next
  BY <1>9 DEF Linear!Next
<1> QED BY <1>6, <1>10 DEF Follows

\* One caller changes, as the calls and the lines see it.
CallerMoves(c, t) ==
  /\ Tracked(Lines', task', ids')
  /\ Unowned(Lines') = Unowned(Lines)
  /\ Views(task') = [Views(task) EXCEPT ![c] = View(t)]
  /\ Views(task)[c] = View(task[c]) /\ Views(task')[c] = View(t)
  /\ View(t) = View(task[c]) => Views(task') = Views(task)

\* A caller that awaits nothing moves.
LEMMA CallerMoved ==
  ASSUME IInv, IInv', Tracked(Lines, task, ids), NEW c \in Clients, NEW t,
         task[c].st \notin {"idle", "waiting"}, task' = [task EXCEPT ![c] = t],
         t.st = "idle" \/ t.id = task[c].id, UNCHANGED <<queue, txn, ids>>
  PROVE  CallerMoves(c, t)
<1> DEFINE T2 == task'
<1>1. Lines' = Lines /\ ids' = ids
  BY DEF Lines
<1>2. Lines \in [Handles -> Seq(Job)] /\ task \in [Clients -> Task]
  BY LinesType DEF IInv, TypeOK
<1>3. T2[c] = t /\ \A b \in Clients : b # c => T2[b] = task[b]
  BY <1>2
<1> HIDE DEF T2
<1>4. Moves(task, c, T2)
  BY <1>3 DEF Moves
<1>5. Tracked(Lines, T2, ids)
  BY <1>2, <1>4, TaskMoved
<1>6. OneView(task, T2, c)
  <2>1. OthersKept(task, T2, c)
    BY <1>3 DEF OthersKept
  <2> QED BY <2>1, ViewChanged
<1> QED BY <1>1, <1>3, <1>5, <1>6 DEF T2, CallerMoves, OneView

\* A caller that is pending before and after is a stutter of LinearLog.
LEMMA StillPending ==
  ASSUME IInv, IInv', NEW c \in Clients, NEW t \in Task, CallerMoves(c, t),
         t.req = task[c].req, UNCHANGED <<history, db>>,
         t.st \in {"waiting", "backoff"}, task[c].st # "idle",
         task[c].st = "answered" => WillRetry(task[c])
  PROVE  Follows
<1>1. task[c] \in Task
  BY DEF IInv, TypeOK
<1>2. View(task[c]) = Linear!Pending(t.req)
  BY <1>1, ViewIs
<1>3. View(t) = Linear!Pending(t.req)
  BY ViewIs
<1>4. Views(task') = Views(task) /\ Unowned(Lines') = Unowned(Lines) /\ Tracked(Lines', task', ids')
  BY <1>2, <1>3 DEF CallerMoves
<1>5. UNCHANGED Linear!vars
  BY <1>4, Unnoticed
<1> QED BY <1>4, <1>5 DEF Follows

\* A contended caller backs off unnoticed.
LEMMA BackOffFollows ==
  ASSUME IInv, IInv', Tracked(Lines, task, ids), NEW c \in Clients, BackOff(c)
  PROVE  Follows
<1> DEFINE t == [task[c] EXCEPT !.st = "backoff", !.tries = task[c].tries + 1, !.ans = None]
<1>1. task \in [Clients -> Task] /\ task' \in [Clients -> Task]
  BY DEF IInv, TypeOK
<1>2. /\ WillRetry(task[c]) /\ task[c].st = "answered" /\ task' = [task EXCEPT ![c] = t]
      /\ UNCHANGED <<db, history, queue, txn, ids>>
  BY DEF BackOff, WillRetry
<1>3. t.st = "backoff" /\ t.id = task[c].id /\ t.req = task[c].req
  BY <1>1 DEF Task
<1> HIDE DEF t
<1>4. t \in Task
  <2>1. task'[c] = t
    BY <1>1, <1>2
  <2> QED BY <1>1, <2>1
<1>5. CallerMoves(c, t)
  BY <1>2, <1>3, CallerMoved
<1> QED BY <1>2, <1>3, <1>4, <1>5, StillPending

\* A caller that has its final answer returns.
LEMMA ReturnFollows ==
  ASSUME IInv, IInv', Tracked(Lines, task, ids), NEW c \in Clients, Return(c)
  PROVE  Follows
<1> DEFINE C == [b \in Clients |-> AbstractCall(b)]
           O == UNION {Ownerless(g) : g \in Handles}
<1>1. /\ task[c].st = "answered" /\ ~WillRetry(task[c]) /\ task' = [task EXCEPT ![c] = Idle]
      /\ UNCHANGED <<db, history, queue, txn, ids>>
  BY DEF Return
<1>2. CallerMoves(c, Idle)
  <2>1. Idle.st = "idle"
    BY DEF Idle
  <2> QED BY <1>1, <2>1, CallerMoved
<1>3. task[c] \in Task /\ View(Idle) = None
  BY DEF IInv, TypeOK, View, Idle
<1>4. View(task[c]) # None /\ View(task[c]).st = "done"
  BY <1>1, <1>3, ViewIs
<1>5. C = Views(task) /\ C' = Views(task') /\ O = Unowned(Lines) /\ O' = Unowned(Lines')
  BY CallsAre, OrphansAre
<1> HIDE DEF C, O
<1>6. C[c] # None /\ C[c].st = "done" /\ C' = [C EXCEPT ![c] = None] /\ O' = O
  BY <1>2, <1>3, <1>4, <1>5 DEF CallerMoves
<1>7. UNCHANGED <<history, db.events>>
  BY <1>1
<1>8. Linear!Return(c)
  BY <1>6, <1>7 DEF Linear!Return, C, O
<1>9. Linear!Next
  BY <1>8 DEF Linear!Next
<1> QED BY <1>2, <1>9 DEF Follows, CallerMoves

\* After the sleep the call queues again, unnoticed; or its handle is gone and
\* it ends refused.
LEMMA ResubmitFollows ==
  ASSUME IInv, IInv', Tracked(Lines, task, ids), NEW c \in Clients, Resubmit(c)
  PROVE  Follows
<1> DEFINE h == HandleOf[c]
<1>1. /\ task \in [Clients -> Task] /\ task' \in [Clients -> Task] /\ task[c] \in Task
      /\ h \in Handles /\ ids \in Nat /\ c # None
  BY HandleOfAssumption, NoneAssumption DEF IInv, TypeOK
<1>2. task[c].st = "backoff" /\ UNCHANGED <<db, history, txn, ids>>
  BY DEF Resubmit
<1>3. CASE mode[h] = "open"
  <2> DEFINE t == [task[c] EXCEPT !.st = "waiting"]
             job == [id |-> task[c].id, client |-> c, req |-> task[c].req]
  <2>1. task' = [task EXCEPT ![c] = t] /\ queue' = [queue EXCEPT ![h] = Append(queue[h], job)]
    BY <1>3 DEF Resubmit, Enqueue
  <2>2. t.st = "waiting" /\ t.id = task[c].id /\ t.req = task[c].req
    BY <1>1 DEF Task
  <2>3. job.id = task[c].id /\ job.client = c /\ job.req = task[c].req
    OBVIOUS
  <2> HIDE DEF t
  <2>4. t \in Task /\ task'[c] = t /\ \A b \in Clients : b # c => task'[b] = task[b]
    <3>1. task'[c] = t /\ \A b \in Clients : b # c => task'[b] = task[b]
      BY <1>1, <2>1
    <3> QED BY <1>1, <3>1
  <2>5. job \in Job
    <3>1. queue'[h] = Append(queue[h], job)
      <4>1. queue \in [Handles -> Seq(Job)]
        BY DEF IInv, TypeOK
      <4> HIDE DEF job, h
      <4> QED BY <1>1, <2>1, <4>1
    <3>2. queue[h] \in Seq(Job) /\ queue'[h] \in Seq(Job)
      BY <1>1 DEF IInv, TypeOK
    <3> DEFINE q == queue[h]
               n == Len(q) + 1
    <3> HIDE DEF q
    <3>3. q \in Seq(Job) /\ Append(q, job) \in Seq(Job)
      BY <3>1, <3>2 DEF q
    <3> HIDE DEF job
    <3>4. Append(q, job)[n] = job /\ n \in 1..Len(Append(q, job))
      BY <3>3
    <3> HIDE DEF n
    <3>5. Append(q, job)[n] \in Job
      BY <3>3, <3>4
    <3> QED BY <3>4, <3>5
  <2> HIDE DEF job, h
  <2>6. UpTo(ids, job, ids') /\ Waits(job, h, task, task')
    <3>1. task[c].id <= ids /\ ids <= ids
      BY <1>1, <1>2 DEF Tracked, Apart
    <3>2. UpTo(ids, job, ids')
      BY <1>2, <2>3, <3>1 DEF UpTo
    <3> QED BY <1>1, <1>2, <2>2, <2>3, <2>4, <3>2 DEF Waits, h
  <2>7. NewId(Lines, task, job)
    <3>1. ASSUME NEW g \in Handles, NEW i \in DOMAIN Lines[g], Lines[g][i].id = job.id
          PROVE  FALSE
      <4>1. Lines[g][i].client = c
        BY <1>2, <2>3, <3>1 DEF Tracked, Apart
      <4>2. task[c].st = "waiting"
        BY <1>1, <4>1 DEF Tracked, Awaited
      <4> QED BY <1>2, <4>2
    <3>2. \A b \in Clients : b # job.client /\ task[b].st # "idle" => task[b].id # job.id
      BY <1>2, <2>3 DEF Tracked, Apart
    <3> QED BY <3>1, <3>2 DEF NewId
  <2>8. Tracked(Lines', task', ids') /\ Unowned(Lines') = Unowned(Lines)
    BY <1>1, <1>2, <2>1, <2>3, <2>5, <2>6, <2>7, QueueJoined
  <2>9. CallerMoves(c, t)
    <3> DEFINE T2 == task'
    <3>1. T2[c] = t /\ OthersKept(task, T2, c)
      BY <2>4 DEF OthersKept
    <3> HIDE DEF T2
    <3>2. OneView(task, T2, c)
      BY <3>1, ViewChanged
    <3> QED BY <2>8, <3>1, <3>2 DEF T2, CallerMoves, OneView
  <2> QED BY <1>2, <2>2, <2>4, <2>9, StillPending
<1>4. CASE mode[h] # "open"
  <2> DEFINE t == [task[c] EXCEPT !.st = "answered", !.ans = Answer("closed")]
             C == [b \in Clients |-> AbstractCall(b)]
             O == UNION {Ownerless(g) : g \in Handles}
  <2>1. task' = [task EXCEPT ![c] = t] /\ UNCHANGED queue
    BY <1>4 DEF Resubmit, Settle
  <2>2. t.st = "answered" /\ t.id = task[c].id /\ t.req = task[c].req /\ t.ans = Answer("closed")
    BY <1>1 DEF Task
  <2> HIDE DEF t
  <2>3. t \in Task
    <3>1. task'[c] = t
      BY <1>1, <2>1
    <3> QED BY <1>1, <3>1
  <2>4. CallerMoves(c, t)
    BY <1>2, <2>1, <2>2, CallerMoved
  <2>5. t.ans.tag = "closed" /\ ~WillRetry(t)
    BY <2>2 DEF Answer, WillRetry
  <2>6. /\ View(t) = Linear!Done(t.req, t.ans) /\ View(t) # None /\ View(t).st = "done"
        /\ View(t).ans = t.ans
    BY <2>2, <2>3, <2>5, ViewIs
  <2>7. /\ View(task[c]) # None /\ View(task[c]).st = "pending"
        /\ View(task[c]).req = task[c].req
    BY <1>1, <1>2, ViewIs
  <2>8. C = Views(task) /\ C' = Views(task') /\ O = Unowned(Lines) /\ O' = Unowned(Lines')
    BY CallsAre, OrphansAre
  <2> HIDE DEF C, O
  <2>9. /\ C[c] # None /\ C[c].st = "pending" /\ C[c].req = t.req
        /\ C'[c] # None /\ C'[c].st = "done" /\ C'[c].ans = t.ans
        /\ C' = [C EXCEPT ![c] = Linear!Done(C[c].req, C'[c].ans)] /\ O' = O
    <3>1. /\ C[c] = View(task[c]) /\ C'[c] = View(t) /\ O' = O
          /\ C' = [C EXCEPT ![c] = View(t)]
      BY <2>4, <2>8 DEF CallerMoves
    <3>2. C[c] # None /\ C[c].st = "pending" /\ C[c].req = t.req
      BY <2>2, <2>7, <3>1
    <3>3. C'[c] # None /\ C'[c].st = "done" /\ C'[c].ans = t.ans
      BY <2>6, <3>1
    <3>4. View(t) = Linear!Done(C[c].req, C'[c].ans)
      BY <2>6, <3>2, <3>3
    <3> QED BY <3>1, <3>2, <3>3, <3>4
  <2>10. Linear!Refused(C[c].req, C'[c].ans)
    <3>1. UNCHANGED <<history, db.events>>
      BY <1>2
    <3> QED BY <2>5, <2>9, <3>1 DEF Linear!Refused, Linear!Nothing, Linear!Refusals
  <2>11. Linear!Finish(c)
    BY <2>9, <2>10 DEF Linear!Finish, C, O
  <2>12. Linear!Next
    BY <2>11 DEF Linear!Next
  <2> QED BY <2>4, <2>12 DEF Follows, CallerMoves
<1> QED BY <1>3, <1>4

\* A dropped future is LinearLog's Abandon.
LEMMA CancelFollows ==
  ASSUME IInv, IInv', Tracked(Lines, task, ids), NEW c \in Clients, Cancel(c),
         task[c].st # "idle"
  PROVE  Follows
<1> DEFINE h == HandleOf[c]
           q == queue[h]
           x == txn[h]
           q2 == [i \in DOMAIN queue[h] |-> Orphaned(queue[h][i], c)]
           y == IF txn[h] = None THEN None
                ELSE [txn[h] EXCEPT !.job = Orphaned(txn[h].job, c)]
           L2 == Lines'
           T2 == task'
           C == [b \in Clients |-> AbstractCall(b)]
           O == UNION {Ownerless(g) : g \in Handles}
<1>1. /\ task[c].st # "idle" /\ task' = [task EXCEPT ![c] = Idle]
      /\ queue' = [queue EXCEPT ![h] = q2] /\ txn' = [txn EXCEPT ![h] = y]
      /\ UNCHANGED <<db, history, ids>>
  BY DEF Cancel
<1>2. /\ h \in Handles /\ q \in Seq(Job) /\ x \in Txn \cup {None}
      /\ queue \in [Handles -> Seq(Job)] /\ txn \in [Handles -> Txn \cup {None}]
      /\ task \in [Clients -> Task] /\ task[c] \in Task
  BY HandleOfAssumption DEF IInv, TypeOK
<1>3. Lines \in [Handles -> Seq(Job)] /\ L2 \in [Handles -> Seq(Job)]
  BY LinesType
<1>4. /\ x = None => y = None
      /\ x # None => y # None /\ y.job = Orphaned(x.job, c)
  <2>1. ASSUME x # None PROVE y # None /\ y.job = Orphaned(x.job, c)
    <3>1. x \in Txn /\ y = [x EXCEPT !.job = Orphaned(x.job, c)]
      BY <1>2, <2>1
    <3>2. y.job = Orphaned(x.job, c)
      BY <3>1 DEF Txn
    <3>3. y \in Txn
      <4>1. x.job \in Job
        BY <3>1 DEF Txn
      <4>2. Orphaned(x.job, c) \in Job
        BY <4>1 DEF Orphaned, Job
      <4> QED BY <3>1, <4>2 DEF Txn
    <3> QED BY <3>2, <3>3, NoTxnAssumption
  <2> QED BY <2>1
<1>5. q2 = Disown(q, c)
  BY DEF Disown
<1>6. /\ queue'[h] = q2 /\ txn'[h] = y
      /\ \A g \in Handles : g # h => queue'[g] = queue[g] /\ txn'[g] = txn[g]
  <2> HIDE DEF q2, y
  <2> QED BY <1>1, <1>2
<1> HIDE DEF q, x, q2, y
<1>7. LineOf(Disown(q, c), y) = Disown(LineOf(q, x), c)
  BY <1>2, <1>4, LineDisowned
<1>8. Disowned(Lines, c, L2)
  <2>1. Lines[h] = LineOf(q, x) /\ L2[h] = LineOf(q2, y)
    BY <1>2, <1>6 DEF Lines, q, x
  <2>2. L2[h] = Disown(Lines[h], c)
    BY <1>5, <1>7, <2>1
  <2>3. \A g \in Handles : g # h => L2[g] = Lines[g]
    BY <1>6 DEF Lines
  <2> HIDE DEF L2
  <2> QED BY <2>2, <2>3 DEF Disowned
<1>9. Freed(task, c, T2)
  BY <1>1, <1>2 DEF Freed
<1> HIDE DEF L2, T2
<1>10. Tracked(L2, T2, ids) /\ Left(Lines, task, c, L2)
  BY <1>1, <1>2, <1>3, <1>8, <1>9, LineDisownedKept
<1>11. C = Views(task) /\ C' = Views(T2) /\ O = Unowned(Lines) /\ O' = Unowned(L2)
  BY CallsAre, OrphansAre DEF T2, L2
<1>12. C' = [C EXCEPT ![c] = None] /\ C[c] = View(task[c])
  <2>1. OthersKept(task, T2, c)
    BY <1>9 DEF Freed, OthersKept
  <2>2. OneView(task, T2, c)
    BY <2>1, ViewChanged
  <2>3. View(T2[c]) = None
    BY <1>9 DEF Freed, View, Idle
  <2> HIDE DEF C
  <2> QED BY <1>11, <2>2, <2>3 DEF OneView
<1>13. /\ C[c] # None
       /\ task[c].st = "waiting" => C[c].st = "pending" /\ C[c].req = task[c].req
  <2>1. View(task[c]) # None
    <3>1. CASE task[c].st = "answered" /\ ~WillRetry(task[c])
      BY <1>2, <3>1, ViewIs
    <3>2. CASE ~(task[c].st = "answered" /\ ~WillRetry(task[c]))
      BY <1>1, <1>2, <3>2, ViewIs
    <3> QED BY <3>1, <3>2
  <2>2. task[c].st = "waiting" => View(task[c]).st = "pending" /\ View(task[c]).req = task[c].req
    BY <1>2, ViewIs
  <2> QED BY <1>12, <2>1, <2>2
<1> HIDE DEF C, O, h
<1>14. \/ O' = O
       \/ \E o \in O' : O' = O \cup {o} /\ C[c].st = "pending" /\ o.req = C[c].req
  BY <1>10, <1>11, <1>13 DEF Left
<1>15. UNCHANGED <<history, db.events>>
  BY <1>1
<1>16. Linear!Abandon(c)
  BY <1>12, <1>13, <1>14, <1>15 DEF Linear!Abandon, C, O
<1>17. Linear!Next
  BY <1>16 DEF Linear!Next
<1> QED BY <1>1, <1>10, <1>17 DEF Follows, L2, T2

\* A dead process is LinearLog's Crash.
LEMMA CrashFollows ==
  ASSUME IInv, IInv', Tracked(Lines, task, ids), NEW h \in Handles, Crash(h)
  PROVE  Follows
<1> DEFINE L2 == Lines'
           T2 == task'
           C == [b \in Clients |-> AbstractCall(b)]
           O == UNION {Ownerless(g) : g \in Handles}
<1>1. /\ queue' = [queue EXCEPT ![h] = <<>>] /\ txn' = [txn EXCEPT ![h] = None]
      /\ task' = [c \in Clients |-> IF HandleOf[c] = h THEN Idle ELSE task[c]]
      /\ UNCHANGED <<db, history, ids>>
  BY DEF Crash
<1>2. /\ queue \in [Handles -> Seq(Job)] /\ txn \in [Handles -> Txn \cup {None}]
      /\ task \in [Clients -> Task] /\ Lines \in [Handles -> Seq(Job)]
  BY LinesType DEF IInv, TypeOK
<1>3. Lost(Lines, task, h, L2, T2)
  <2>1. /\ queue'[h] = <<>> /\ txn'[h] = None
        /\ \A g \in Handles : g # h => queue'[g] = queue[g] /\ txn'[g] = txn[g]
    BY <1>1, <1>2
  <2>2. L2[h] = <<>> /\ \A g \in Handles : g # h => L2[g] = Lines[g]
    BY <2>1 DEF Lines, LineOf
  <2>3. \A b \in Clients : T2[b] = IF HandleOf[b] = h THEN Idle ELSE task[b]
    BY <1>1
  <2> HIDE DEF L2, T2
  <2> QED BY <2>2, <2>3 DEF Lost
<1> HIDE DEF L2, T2
<1>4. Tracked(L2, T2, ids) /\ Unowned(L2) \subseteq Unowned(Lines)
  BY <1>2, <1>3, LineLost
<1>5. C = Views(task) /\ C' = Views(T2) /\ O = Unowned(Lines) /\ O' = Unowned(L2)
  BY CallsAre, OrphansAre DEF T2, L2
<1>6. O' \subseteq O
  BY <1>4, <1>5
<1>7. \A b \in Clients : Views(T2)[b] \in {Views(task)[b], None}
  <2> SUFFICES ASSUME NEW b \in Clients PROVE Views(T2)[b] \in {Views(task)[b], None}
    OBVIOUS
  <2>1. T2[b] = Idle \/ T2[b] = task[b]
    BY <1>3 DEF Lost
  <2>2. View(Idle) = None
    BY DEF View, Idle
  <2>3. Views(T2)[b] = View(T2[b]) /\ Views(task)[b] = View(task[b])
    BY DEF Views
  <2> QED BY <2>1, <2>2, <2>3
<1>8. DOMAIN Views(T2) = Clients
  BY DEF Views
<1> HIDE DEF C, O
<1>9. (\A b \in Clients : C'[b] \in {C[b], None}) /\ DOMAIN C' = Clients
  BY <1>5, <1>7, <1>8
<1>10. UNCHANGED <<history, db.events>>
  BY <1>1
<1>11. Linear!Crash
  BY <1>6, <1>9, <1>10 DEF Linear!Crash, C, O
<1>12. Linear!Next
  BY <1>11 DEF Linear!Next
<1> QED BY <1>1, <1>4, <1>12 DEF Follows, L2, T2

-----------------------------------------------------------------------------
(* What a job commits, in LinearLog's words.                               *)

\* The items of a request form a list, each item for a stream.
LEMMA ItemsShape ==
  ASSUME NEW req \in Requests, req.op \in {"append", "expect", "decide", "txn"}
  PROVE  LET D == ItemsOf(req) IN
         /\ Len(D) \in Nat /\ DOMAIN D = 1..Len(D)
         /\ \A i \in 1..Len(D) : D[i].stream \in Streams
<1>1. CASE req.op = "txn"
  <2> DEFINE D == Pre(req.calls)[Len(req.calls)]
  <2>1. req.calls \in Seq(TxnCall)
    BY <1>1, RequestShape
  <2>2. Len(req.calls) \in 0..Len(req.calls)
    <3> DEFINE n == Len(req.calls)
    <3>1. n \in Nat
      BY <2>1
    <3> HIDE DEF n
    <3>2. n \in 0..n
      BY <3>1
    <3> QED BY <3>2 DEF n
  <2>3. D \in Seq(Item)
    BY <2>1, <2>2, PreIs
  <2>4. ItemsOf(req) = D
    BY <1>1 DEF ItemsOf
  <2> HIDE DEF D
  <2>5. Len(D) \in Nat /\ DOMAIN D = 1..Len(D) /\ \A i \in 1..Len(D) : D[i] \in Item
    BY <2>3
  <2> QED BY <2>4, <2>5 DEF Item
<1>2. CASE req.op # "txn"
  <2> DEFINE run == req.run
             X == [i \in DOMAIN run |-> [stream |-> req.stream, kind |-> run[i].kind,
                                         at |-> run[i].at]]
  <2>1. req.stream \in Streams /\ run \in Seq(Event)
    BY <1>2, RequestShape
  <2>2. Len(run) \in Nat /\ DOMAIN run = 1..Len(run) /\ \A i \in 1..Len(run) : run[i] \in Event
    BY <2>1
  <2>3. X \in [1..Len(run) -> [stream : Streams, kind : Kinds, at : Times]]
    BY <2>1, <2>2 DEF Event
  <2>4. ItemsOf(req) = X
    BY <1>2 DEF ItemsOf
  <2>5. \A i \in 1..Len(run) : X[i].stream = req.stream
    BY <2>2
  <2> HIDE DEF X, run
  <2>6. Len(X) = Len(run) /\ DOMAIN X = 1..Len(run)
    BY <2>2, <2>3
  <2> QED BY <2>1, <2>2, <2>4, <2>5, <2>6
<1> QED BY <1>1, <1>2

\* LinearLog counts as WritePath does.
LEMMA SameCardinality ==
  ASSUME NEW S
  PROVE  Linear!Cardinality(S) = Cardinality(S)
BY DEF Linear!Cardinality, Cardinality

\* History as LinearLog counts it is history as the counters tell it.
LEMMA HistoryCounts ==
  ASSUME IInv
  PROVE  /\ Cardinality(history) = db.autoinc /\ db.autoinc \in Nat
         /\ \A s \in Streams : /\ Linear!Written(s) = db.next[s] - 1
                               /\ db.next[s] \in Nat \ {0}
                               /\ Linear!HeadOf(s) = CounterHead(db, s)
<1>1. /\ history \in SUBSET Row /\ db.autoinc \in Nat /\ db.next \in [Streams -> Nat \ {0}]
      /\ Dense(history, db.autoinc, db.next)
  BY DEF IInv, TypeOK, HistoryDense, Tables
<1>2. /\ Cardinality(history) = db.autoinc
      /\ \A s \in Streams : Cardinality({r \in history : r.stream = s}) = db.next[s] - 1
  <2> DEFINE a == db.autoinc
             n == db.next
  <2>1. a \in Nat /\ n \in [Streams -> Nat \ {0}] /\ Dense(history, a, n)
    BY <1>1
  <2> HIDE DEF a, n
  <2>2. /\ Cardinality(history) = a
        /\ \A s \in Streams : Cardinality({r \in history : r.stream = s}) = n[s] - 1
    BY <1>1, <2>1, DenseCounts
  <2> QED BY <2>2 DEF a, n
<1>3. ASSUME NEW s \in Streams
      PROVE  /\ Linear!Written(s) = db.next[s] - 1 /\ db.next[s] \in Nat \ {0}
             /\ Linear!HeadOf(s) = CounterHead(db, s)
  <2>1. Linear!Written(s) = db.next[s] - 1
    BY <1>2, SameCardinality DEF Linear!Written
  <2> DEFINE n == db.next[s]
  <2>2. n \in Nat \ {0}
    BY <1>1
  <2>3. Linear!HeadOf(s) = IF n - 1 = 0 THEN -1 ELSE n - 1
    BY <2>1 DEF Linear!HeadOf
  <2>4. CounterHead(db, s) = IF n = 1 THEN -1 ELSE n - 1
    BY DEF CounterHead, NextSeq, Unwritten
  <2> HIDE DEF n
  <2>5. Linear!HeadOf(s) = CounterHead(db, s)
    BY <2>2, <2>3, <2>4
  <2> QED BY <2>1, <2>2, <2>5 DEF n
<1> QED BY <1>1, <1>2, <1>3

\* The rows LinearLog gives a list are the rows the tables give it, all new.
LEMMA RowsAre ==
  ASSUME IInv, NEW D, Len(D) \in Nat, DOMAIN D = 1..Len(D),
         \A i \in 1..Len(D) : D[i].stream \in Streams
  PROVE  Linear!RowsFor(D) = Rows(db, D) /\ Rows(db, D) \cap history = {}
<1>1. /\ Cardinality(history) = db.autoinc /\ db.autoinc \in Nat
      /\ \A s \in Streams : Linear!Written(s) = db.next[s] - 1
  BY HistoryCounts
<1> DEFINE row(i) ==
             [pos |-> Cardinality(history) + i, stream |-> D[i].stream,
              seq |-> Linear!Written(D[i].stream)
                        + Cardinality({j \in 1..i : D[j].stream = D[i].stream}),
              kind |-> D[i].kind, at |-> D[i].at]
<1>2. Linear!RowsFor(D) = {row(i) : i \in DOMAIN D}
  BY SameCardinality DEF Linear!RowsFor
<1>3. ASSUME NEW i \in 1..Len(D) PROVE RowAt(db, D, i) = row(i)
  BY <1>1 DEF RowAt, Count
<1> HIDE DEF row
<1>4. Linear!RowsFor(D) = Rows(db, D)
  BY <1>2, <1>3 DEF Rows
<1>5. ASSUME NEW r \in Rows(db, D), r \in history PROVE FALSE
  <2>1. PICK i \in 1..Len(D) : r = RowAt(db, D, i)
    BY DEF Rows
  <2>2. r.pos = db.autoinc + i
    BY <2>1 DEF RowAt
  <2>3. r.pos <= db.autoinc
    BY <1>5 DEF IInv, HistoryDense, Dense
  <2> QED BY <1>1, <2>1, <2>2, <2>3
<1> QED BY <1>4, <1>5

\* COMMIT of a transaction that lands rows.
LEMMA LandsOutcome ==
  ASSUME IInv, NEW t, t.job.req \in Requests,
         t.job.req.op \in {"append", "expect", "decide", "txn"}, Lands(db, t),
         db' = t.tables, history' = history \cup t.tables.events
  PROVE  Outcome(t.job.req, t.ans)
<1> DEFINE req == t.job.req
           D == ItemsOf(req)
           R == Rows(db, D)
<1>1. /\ Len(D) \in Nat /\ DOMAIN D = 1..Len(D)
      /\ \A i \in 1..Len(D) : D[i].stream \in Streams
  BY ItemsShape
<1>2. Linear!RowsFor(D) = R /\ R \cap history = {}
  <2> HIDE DEF D
  <2> QED BY <1>1, RowsAre
<1>3. Linear!Items(req) = D
  BY ItemsAre
<1>4. /\ t.tables.events = db.events \cup R /\ t.ans = Landed(Positions(R))
      /\ req.op = "expect" => CounterHead(db, req.stream) = req.expected
      /\ req.op = "decide" => StreamRows(db, req.stream, req.kinds) = {}
  BY DEF Lands
<1>5. db.events \subseteq history
  BY DEF IInv, HistoryDense
<1> HIDE DEF R, D
<1>6. history' = history \cup R /\ db'.events = db.events \cup R
  BY <1>4, <1>5
<1>7. history' \ history = R
  BY <1>2, <1>6
<1>8. t.ans.tag = "ok" /\ t.ans.positions = {r.pos : r \in R}
  BY <1>4 DEF Landed, Positions
<1>9. t.ans.positions = {r.pos : r \in history' \ history}
  BY <1>7, <1>8
<1>10. Linear!Appends(Linear!Items(req), t.ans)
  BY <1>2, <1>3, <1>4, <1>6 DEF Linear!Appends, Landed, Positions
<1>11. req.op = "expect" => Linear!HeadOf(req.stream) = req.expected
  <2>1. req.op = "expect" => req.stream \in Streams
    BY RequestShape
  <2> QED BY <1>4, <2>1, HistoryCounts
<1>12. req.op = "decide" => ~ \E r \in db.events : r.stream = req.stream /\ r.kind \in req.kinds
  BY <1>4 DEF StreamRows
<1>13. Linear!Effect(req, t.ans)
  BY <1>10, <1>11, <1>12 DEF Linear!Effect
<1> QED BY <1>8, <1>9, <1>13 DEF Outcome, Effective

\* COMMIT of a removal.
LEMMA RemovesOutcome ==
  ASSUME IInv, NEW t, t.job.req.op = "retain", Removes(db, t),
         db' = t.tables, history' = history \cup t.tables.events
  PROVE  Outcome(t.job.req, t.ans)
<1> DEFINE plan == t.job.req.plan
<1>1. /\ t.tables.events = db.events \ Matching(db, plan)
      /\ t.ans = Answer("removed") /\ Matching(db, plan) # {}
  BY DEF Removes
<1>2. db.events \subseteq history
  BY DEF IInv, HistoryDense
<1>3. history' = history /\ db'.events = db.events \ Matching(db, plan)
  BY <1>1, <1>2
<1>4. Matching(db, plan) = {r \in db.events : Linear!Selects(plan, r)}
  BY DEF Matching, Matches, Linear!Selects
<1>5. db'.events = {r \in db.events : ~Linear!Selects(plan, r)}
  BY <1>3, <1>4
<1>6. db'.events # db.events
  BY <1>1, <1>3 DEF Matching
<1>7. t.ans.tag = "removed" /\ t.ans.positions = {}
  BY <1>1 DEF Answer
<1>8. t.ans.positions = {r.pos : r \in history' \ history}
  BY <1>3, <1>7
<1>9. Linear!Effect(t.job.req, t.ans)
  BY <1>3, <1>5, <1>6, <1>7 DEF Linear!Effect
<1> QED BY <1>7, <1>8, <1>9 DEF Outcome, Effective

\* A transaction that is dropped with an error leaves no trace.
LEMMA RefusedOutcome ==
  ASSUME NEW req, NEW tag, UNCHANGED <<history, db>>,
         tag \in {"busy", "failed", "closed", "err", "ConsumerBehind", "NotExported"}
  PROVE  Outcome(req, Answer(tag))
<1>1. UNCHANGED <<history, db.events>> /\ Answer(tag).tag = tag
  BY DEF Answer
<1> QED BY <1>1 DEF Outcome, Linear!Refusals

\* A call that finds the log against it answers so, and leaves no trace.
LEMMA NothingOutcome ==
  ASSUME IInv, NEW req \in Requests, NEW tag, UNCHANGED <<history, db>>,
         \/ /\ req.op = "expect" /\ CounterHead(db, req.stream) # req.expected
            /\ tag = "mismatch"
         \/ /\ req.op = "decide" /\ StreamRows(db, req.stream, req.kinds) # {} /\ tag = "none"
         \/ /\ req.op = "retain" /\ Matching(db, req.plan) = {} /\ tag = "nothing"
  PROVE  Outcome(req, Answer(tag))
<1> DEFINE ans == Answer(tag)
<1>1. ans.tag = tag /\ ans.positions = {}
  BY DEF Answer
<1> HIDE DEF ans
<1>2. UNCHANGED <<history, db.events>>
  OBVIOUS
<1>3. ans.positions = {r.pos : r \in history' \ history}
  BY <1>1, <1>2
<1>4. tag \in Effective
  BY DEF Effective
<1>5. CASE req.op = "expect" /\ CounterHead(db, req.stream) # req.expected /\ tag = "mismatch"
  <2>1. req.stream \in Streams
    BY <1>5, RequestShape
  <2>2. Linear!HeadOf(req.stream) # req.expected
    BY <1>5, <2>1, HistoryCounts
  <2>3. Linear!Effect(req, ans)
    BY <1>1, <1>2, <1>5, <2>2 DEF Linear!Effect, Linear!Nothing
  <2> QED BY <1>1, <1>3, <1>4, <2>3 DEF Outcome, ans
<1>6. CASE req.op = "decide" /\ StreamRows(db, req.stream, req.kinds) # {} /\ tag = "none"
  <2>1. \E r \in db.events : r.stream = req.stream /\ r.kind \in req.kinds
    BY <1>6 DEF StreamRows
  <2>2. Linear!Effect(req, ans)
    BY <1>1, <1>2, <1>6, <2>1 DEF Linear!Effect, Linear!Nothing
  <2> QED BY <1>1, <1>3, <1>4, <2>2 DEF Outcome, ans
<1>7. CASE req.op = "retain" /\ Matching(db, req.plan) = {} /\ tag = "nothing"
  <2>1. \A r \in db.events : ~Linear!Selects(req.plan, r)
    BY <1>7 DEF Matching, Matches, Linear!Selects
  <2>2. db'.events = {r \in db.events : ~Linear!Selects(req.plan, r)}
    BY <1>2, <2>1
  <2>3. Linear!Effect(req, ans)
    BY <1>1, <1>2, <1>7, <2>2 DEF Linear!Effect
  <2> QED BY <1>1, <1>3, <1>4, <2>3 DEF Outcome, ans
<1> QED BY <1>5, <1>6, <1>7

\* The transaction a handle is running ends.
LEMMA TxnEnds ==
  ASSUME IInv, IInv', Tracked(Lines, task, ids), NEW h \in Handles, txn[h] # None,
         NEW ans \in Ans, Reply(txn[h].job, ans), txn' = [txn EXCEPT ![h] = None],
         UNCHANGED <<queue, ids>>, Outcome(txn[h].job.req, ans)
  PROVE  Follows
<1>1. /\ queue[h] \in Seq(Job) /\ txn[h] \in Txn \cup {None} /\ txn \in [Handles -> Txn \cup {None}]
  BY DEF IInv, TypeOK
<1>2. /\ LineOf(queue[h], txn[h]) # <<>> /\ Head(LineOf(queue[h], txn[h])) = txn[h].job
      /\ Tail(LineOf(queue[h], txn[h])) = queue[h] /\ LineOf(queue[h], None) = queue[h]
  <2>1. txn[h].job \in Job
    BY <1>1 DEF Txn
  <2> QED BY <1>1, <2>1, LineSteps
<1>3. Lines[h] # <<>> /\ Head(Lines[h]) = txn[h].job /\ Tail(Lines[h]) = queue[h]
  BY <1>2 DEF Lines
<1>4. txn'[h] = None /\ \A g \in Handles : g # h => txn'[g] = txn[g]
  BY <1>1
<1>5. \A g \in Handles : Lines'[g] = IF g = h THEN Tail(Lines[h]) ELSE Lines[g]
  <2>1. Lines'[h] = queue[h]
    BY <1>2, <1>4 DEF Lines
  <2>2. \A g \in Handles : g # h => Lines'[g] = Lines[g]
    BY <1>4 DEF Lines
  <2> QED BY <1>3, <2>1, <2>2
<1>6. Reply(Head(Lines[h]), ans) /\ Outcome(Head(Lines[h]).req, ans)
  BY <1>3
<1>7. Tracked(Lines', task', ids') /\ [Linear!Next]_Linear!vars
  BY <1>3, <1>5, <1>6, JobEnds
<1> QED BY <1>7 DEF Follows

\* Answers without positions are answers.
LEMMA AnswerType ==
  ASSUME NEW tag \in Tags
  PROVE  Answer(tag) \in Ans
BY DEF Answer, Ans

\* A transaction is rolled back.
LEMMA RollbackFollows ==
  ASSUME IInv, IInv', Tracked(Lines, task, ids), NEW h \in Handles, txn[h] # None,
         NEW tag \in Tags, Rollback(h, Answer(tag)),
         Outcome(txn[h].job.req, Answer(tag))
  PROVE  Follows
<1> DEFINE ans == Answer(tag)
<1>1. /\ Reply(txn[h].job, ans) /\ txn' = [txn EXCEPT ![h] = None] /\ UNCHANGED <<queue, ids>>
  BY DEF Rollback
<1>2. ans \in Ans /\ Outcome(txn[h].job.req, ans)
  BY AnswerType
<1> HIDE DEF ans
<1> QED BY <1>1, <1>2, TxnEnds

\* It is rolled back in error.
LEMMA FailureFollows ==
  ASSUME IInv, IInv', Tracked(Lines, task, ids), NEW h \in Handles, txn[h] # None,
         NEW tag, tag \in {"failed", "err", "ConsumerBehind", "NotExported"},
         Rollback(h, Answer(tag))
  PROVE  Follows
<1>1. UNCHANGED <<history, db>>
  BY DEF Rollback
<1>2. Outcome(txn[h].job.req, Answer(tag))
  BY <1>1, RefusedOutcome
<1>3. tag \in Tags
  BY DEF Tags
<1> QED BY <1>2, <1>3, RollbackFollows

\* BEGIN finds the lock taken: the call is refused, or will try again.
LEMMA ContendFollows ==
  ASSUME IInv, IInv', Tracked(Lines, task, ids), NEW h \in Handles, Contend(h)
  PROVE  Follows
<1> DEFINE ans == Answer("busy")
           q == queue[h]
<1>1. /\ txn[h] = None /\ q # <<>> /\ queue' = [queue EXCEPT ![h] = Tail(q)]
      /\ Reply(Head(q), ans) /\ UNCHANGED <<db, history, txn, ids>>
  BY DEF Contend
<1>2. queue \in [Handles -> Seq(Job)] /\ q \in Seq(Job)
  BY DEF IInv, TypeOK
<1>3. Lines[h] = q /\ \A g \in Handles : Lines'[g] = IF g = h THEN Tail(q) ELSE Lines[g]
  <2>1. queue'[h] = Tail(q) /\ \A g \in Handles : g # h => queue'[g] = queue[g]
    <3> HIDE DEF q
    <3> QED BY <1>1, <1>2
  <2> QED BY <1>1, <2>1 DEF Lines, LineOf
<1>4. ans \in Ans
  BY AnswerType DEF Tags
<1>5. Outcome(Head(q).req, ans)
  BY <1>1, RefusedOutcome
<1> HIDE DEF q, ans
<1>6. /\ Lines[h] # <<>> /\ Reply(Head(Lines[h]), ans) /\ Outcome(Head(Lines[h]).req, ans)
      /\ ids' = ids /\ \A g \in Handles : Lines'[g] = IF g = h THEN Tail(Lines[h]) ELSE Lines[g]
  BY <1>1, <1>3, <1>5
<1>7. Tracked(Lines', task', ids') /\ [Linear!Next]_Linear!vars
  BY <1>4, <1>6, JobEnds
<1> QED BY <1>7 DEF Follows

\* COMMIT is the instant at which a call takes effect.
LEMMA CommitFollows ==
  ASSUME IInv, IInv', AllMeant, Tracked(Lines, task, ids), NEW h \in Handles, Commit(h)
  PROVE  Follows
<1> DEFINE t == txn[h]
<1>1. /\ t # None /\ t.phase = "ready" /\ db' = t.tables
      /\ history' = history \cup t.tables.events /\ txn' = [txn EXCEPT ![h] = None]
      /\ Reply(t.job, t.ans) /\ UNCHANGED <<queue, ids>>
  BY DEF Commit
<1>2. t \in Txn /\ t.ans \in Ans
  BY <1>1 DEF IInv, TypeOK, WorkSound, Sound
<1>3. t.job.req \in Requests /\ t.job.req.op \in {"append", "expect", "decide", "retain", "txn"}
  <2>1. t.job.req \in Requests
    BY <1>2 DEF Txn, Job
  <2>2. t.job.req \in Request
    BY <2>1, RequestsAssumption
  <2> QED BY <2>1, <2>2 DEF Request
<1>4. Meant(db, t)
  BY <1>1 DEF AllMeant
<1> HIDE DEF t
<1>5. Outcome(t.job.req, t.ans)
  <2>1. CASE t.job.req.op = "retain"
    <3>1. Removes(db, t)
      BY <1>1, <1>4, <2>1 DEF Meant
    <3> QED BY <1>1, <2>1, <3>1, RemovesOutcome
  <2>2. CASE t.job.req.op # "retain"
    <3>1. Lands(db, t)
      BY <1>1, <1>4, <2>2 DEF Meant
    <3> QED BY <1>1, <1>3, <2>2, <3>1, LandsOutcome
  <2> QED BY <2>1, <2>2
<1> QED BY <1>1, <1>2, <1>5, TxnEnds DEF t

\* The transaction goes on, with the same job and the lock.
LEMMA GoesOn ==
  ASSUME IInv, IInv', Tracked(Lines, task, ids), NEW h \in Handles, txn[h] # None,
         NEW t, t.job = txn[h].job, txn' = [txn EXCEPT ![h] = t],
         UNCHANGED <<db, history, lock, queue, task, ids>>
  PROVE  Follows
<1>1. txn'[h] = t
  BY DEF IInv, TypeOK
<1>2. t # None
  BY <1>1 DEF IInv, LockHeld
<1> QED BY <1>2, WorkFollows

\* Statements are staged for COMMIT.
LEMMA StageFollows ==
  ASSUME IInv, IInv', Tracked(Lines, task, ids), NEW h \in Handles, txn[h] # None,
         NEW tables, NEW ans, Stage(h, tables, ans)
  PROVE  Follows
<1> DEFINE u == [txn[h] EXCEPT !.tables = tables, !.phase = "ready", !.ans = ans]
<1>1. txn' = [txn EXCEPT ![h] = u] /\ UNCHANGED <<db, history, lock, queue, task, ids>>
  BY DEF Stage
<1>2. u.job = txn[h].job
  <2>1. txn[h] \in Txn
    BY DEF IInv, TypeOK
  <2> QED BY <2>1 DEF Txn
<1> HIDE DEF u
<1> QED BY <1>1, <1>2, GoesOn

\* The statements of a run are staged, or fail.
LEMMA AppendFollows ==
  ASSUME IInv, IInv', Tracked(Lines, task, ids), NEW h \in Handles, txn[h] # None,
         NEW s, NEW run, AppendOrFail(h, s, run)
  PROVE  Follows
<1>1. CASE RunTaken(txn[h].tables, s, run)
  BY <1>1, FailureFollows DEF AppendOrFail
<1>2. CASE ~RunTaken(txn[h].tables, s, run)
  BY <1>2, StageFollows DEF AppendOrFail
<1> QED BY <1>1, <1>2

\* A job that is not a transaction closure runs.
LEMMA ExecFollows ==
  ASSUME IInv, IInv', Tracked(Lines, task, ids), NEW h \in Handles,
         ExecAppend(h) \/ ExecExpect(h) \/ ExecDecide(h) \/ ExecRetain(h)
  PROVE  Follows
<1> DEFINE req == txn[h].job.req
           d == txn[h].tables
<1>1. /\ txn[h] # None /\ txn[h].phase = "open"
      /\ req.op \in {"append", "expect", "decide", "retain"}
  BY DEF ExecAppend, ExecExpect, ExecDecide, ExecRetain, Running
<1>2. req \in Requests /\ d = db
  BY <1>1, RunningTxn DEF Sound
<1>3. ASSUME NEW tag, tag \in {"mismatch", "none", "nothing"}, Rollback(h, Answer(tag)),
             \/ /\ req.op = "expect" /\ CounterHead(db, req.stream) # req.expected
                /\ tag = "mismatch"
             \/ /\ req.op = "decide" /\ StreamRows(db, req.stream, req.kinds) # {} /\ tag = "none"
             \/ /\ req.op = "retain" /\ Matching(db, req.plan) = {} /\ tag = "nothing"
      PROVE  Follows
  <2>1. UNCHANGED <<history, db>>
    BY <1>3 DEF Rollback
  <2> HIDE DEF req
  <2>2. Outcome(req, Answer(tag))
    BY <1>2, <1>3, <2>1, NothingOutcome
  <2>3. tag \in Tags
    BY <1>3 DEF Tags
  <2> QED BY <1>1, <1>3, <2>2, <2>3, RollbackFollows DEF req
<1>4. CASE ExecAppend(h)
  BY <1>1, <1>4, AppendFollows DEF ExecAppend
<1>5. CASE ExecExpect(h)
  <2>1. req.op = "expect"
    BY <1>5 DEF ExecExpect, Running
  <2>2. CASE CounterHead(d, req.stream) = req.expected
    BY <1>1, <1>5, <2>2, AppendFollows DEF ExecExpect
  <2>3. CASE CounterHead(d, req.stream) # req.expected
    BY <1>2, <1>3, <1>5, <2>1, <2>3 DEF ExecExpect
  <2> QED BY <2>2, <2>3
<1>6. CASE ExecDecide(h)
  <2>1. req.op = "decide"
    BY <1>6 DEF ExecDecide, Running
  <2>2. CASE StreamRows(d, req.stream, req.kinds) = {}
    BY <1>1, <1>6, <2>2, AppendFollows DEF ExecDecide
  <2>3. CASE StreamRows(d, req.stream, req.kinds) # {}
    BY <1>2, <1>3, <1>6, <2>1, <2>3 DEF ExecDecide
  <2> QED BY <2>2, <2>3
<1>7. CASE ExecRetain(h)
  <2> DEFINE tag == RetainAnswer(d, req.plan, req.guard)
  <2>1. req.op = "retain"
    BY <1>7 DEF ExecRetain, Running
  <2>2. /\ tag \in {"nothing", "NotExported", "ConsumerBehind", "removed"}
        /\ tag = "nothing" => Matching(d, req.plan) = {}
    BY DEF RetainAnswer
  <2>3. CASE tag = "removed"
    BY <1>1, <1>7, <2>3, StageFollows DEF ExecRetain
  <2>4. CASE tag # "removed"
    <3>1. Rollback(h, Answer(tag))
      BY <1>7, <2>4 DEF ExecRetain
    <3> HIDE DEF tag
    <3>2. CASE tag = "nothing"
      BY <1>2, <1>3, <2>1, <2>2, <3>1, <3>2
    <3>3. CASE tag # "nothing"
      BY <1>1, <2>2, <2>4, <3>1, <3>3, FailureFollows
    <3> QED BY <3>2, <3>3
  <2> QED BY <2>3, <2>4
<1> QED BY <1>4, <1>5, <1>6, <1>7

\* A closure makes its calls, and returns.
LEMMA BodyFollows ==
  ASSUME IInv, IInv', Tracked(Lines, task, ids), SwallowErrors = FALSE, NEW h \in Handles,
         TxnAppend(h) \/ ImportItem(h) \/ ImportRefused(h) \/ ImportFlush(h) \/ BodyOk(h)
  PROVE  Follows
<1>1. txn[h] # None
  BY DEF TxnAppend, ImportItem, ImportRefused, ImportFlush, BodyOk, Importing, InBody, Running
<1>2. txn[h] \in Txn
  BY <1>1 DEF IInv, TypeOK
<1>3. ASSUME NEW t, t.job = txn[h].job, StepTxn(h, t) PROVE Follows
  BY <1>1, <1>3, GoesOn DEF StepTxn
<1>4. CASE TxnAppend(h)
  <2> DEFINE items == ThisCall(h).items
             s == items[1].stream
             tables == AppendRun(txn[h].tables, s, items)
             new == Positions(RunRows(txn[h].tables, s, items))
             n == NextCall(txn[h])
             u == [n EXCEPT !.tables = tables, !.pub = n.pub \cup new]
  <2>1. CASE RunTaken(txn[h].tables, s, items)
    BY <1>1, <1>4, <2>1, FailureFollows DEF TxnAppend
  <2>2. CASE ~RunTaken(txn[h].tables, s, items)
    <3>1. StepTxn(h, u)
      BY <1>4, <2>2 DEF TxnAppend
    <3>2. n \in Txn /\ n.job = txn[h].job
      BY <1>2, NextCallTyped
    <3> HIDE DEF tables, new, n
    <3>3. u.job = txn[h].job
      BY <3>2 DEF Txn
    <3> HIDE DEF u
    <3> QED BY <1>3, <3>1, <3>3
  <2> QED BY <2>1, <2>2
<1>5. CASE ImportItem(h)
  <2> DEFINE e == ThisCall(h).items[txn[h].item]
             n == CachedNext(txn[h], e.stream)
             tables == InsertStamped(txn[h].tables, e.stream, n, e)
             seen == [txn[h].seen EXCEPT ![e.stream] = n + 1]
             k == txn[h].item + 1
             u == [txn[h] EXCEPT !.tables = tables, !.seen = seen, !.item = k]
  <2>1. CASE Taken(txn[h].tables, e.stream, n)
    BY <1>1, <1>5, <2>1, FailureFollows DEF ImportItem
  <2>2. CASE ~Taken(txn[h].tables, e.stream, n)
    <3>1. StepTxn(h, u)
      BY <1>5, <2>2 DEF ImportItem
    <3> HIDE DEF tables, seen, k
    <3>2. u.job = txn[h].job
      BY <1>2 DEF Txn
    <3> HIDE DEF u
    <3> QED BY <1>3, <3>1, <3>2
  <2> QED BY <2>1, <2>2
<1>6. CASE ImportRefused(h)
  <2>1. Rollback(h, Answer("err"))
    BY <1>6 DEF ImportRefused
  <2> QED BY <1>1, <2>1, FailureFollows
<1>7. CASE ImportFlush(h)
  <2> DEFINE len == Len(ThisCall(h).items)
             next == [s \in Streams |-> CachedNext(txn[h], s)]
             tables == [txn[h].tables EXCEPT !.next = next]
             new == txn[h].tables.autoinc - len + 1 .. txn[h].tables.autoinc
             n == NextCall(txn[h])
             u == [n EXCEPT !.tables = tables, !.pub = n.pub \cup new]
  <2>1. StepTxn(h, u)
    BY <1>7 DEF ImportFlush
  <2>2. n \in Txn /\ n.job = txn[h].job
    BY <1>2, NextCallTyped
  <2> HIDE DEF tables, new, n
  <2>3. u.job = txn[h].job
    BY <2>2 DEF Txn
  <2> HIDE DEF u
  <2> QED BY <1>3, <2>1, <2>3
<1>8. CASE BodyOk(h)
  BY <1>1, <1>8, StageFollows DEF BodyOk
<1> QED BY <1>4, <1>5, <1>6, <1>7, <1>8

-----------------------------------------------------------------------------
(* The refinement.                                                         *)

\* A caller that is idle waits for nothing and remembers nothing.
Rests == \A c \in Clients : task[c].st = "idle" => task[c] = Idle

\* One caller's new state is never a half-forgotten call.
LEMMA RestsOn ==
  ASSUME IInv, Rests, NEW c \in Clients, NEW t, task' = [task EXCEPT ![c] = t],
         t.st = "idle" => t = Idle
  PROVE  Rests'
<1>1. \A b \in Clients : task'[b] = IF b = c THEN t ELSE task[b]
  BY DEF IInv, TypeOK
<1>2. ASSUME NEW b \in Clients, task'[b].st = "idle" PROVE task'[b] = Idle
  BY <1>1, <1>2 DEF Rests
<1> QED BY <1>2 DEF Rests

\* Every step leaves callers idle or in a call.
LEMMA RestsNext ==
  ASSUME IInv, Rests, [Next]_vars
  PROVE  Rests'
<1>1. \A c \in Clients : task[c] \in Task
  BY DEF IInv, TypeOK
<1>2. ASSUME UNCHANGED task PROVE Rests'
  BY <1>2 DEF Rests
<1>3. ASSUME NEW c \in Clients, NEW ans, Settle(c, ans) PROVE Rests'
  <2> DEFINE t == [task[c] EXCEPT !.st = "answered", !.ans = ans]
  <2>1. t.st = "answered" /\ task' = [task EXCEPT ![c] = t]
    BY <1>1, <1>3 DEF Settle, Task
  <2> HIDE DEF t
  <2> QED BY <2>1, RestsOn
<1>4. ASSUME NEW job \in Job, NEW ans, Reply(job, ans) PROVE Rests'
  <2>1. job.client \in Clients \cup {None}
    BY DEF Job
  <2>2. CASE job.client = None
    BY <1>2, <1>4, <2>2 DEF Reply
  <2>3. CASE job.client # None
    BY <1>3, <1>4, <2>1, <2>3 DEF Reply
  <2> QED BY <2>2, <2>3
<1>5. ASSUME NEW h \in Handles, NEW ans, txn[h] # None, Rollback(h, ans) PROVE Rests'
  <2>1. txn[h].job \in Job /\ Reply(txn[h].job, ans)
    BY <1>5, RunningTxn DEF Rollback
  <2> QED BY <1>4, <2>1
<1>6. ASSUME NEW h \in Handles, IsleStep(h) PROVE Rests'
  <2>1. CASE Contend(h)
    <3> DEFINE q == queue[h]
    <3>1. q \in Seq(Job) /\ q # <<>> /\ Reply(Head(q), Answer("busy"))
      BY <2>1 DEF Contend, IInv, TypeOK
    <3> HIDE DEF q
    <3>2. Head(q) \in Job
      BY <3>1
    <3> QED BY <1>4, <3>1, <3>2
  <2>2. CASE Commit(h)
    <3>1. txn[h] # None /\ Reply(txn[h].job, txn[h].ans)
      BY <2>2 DEF Commit
    <3>2. txn[h].job \in Job
      BY <3>1, RunningTxn
    <3> QED BY <1>4, <3>1, <3>2
  <2>3. CASE Begin(h)
    BY <1>2, <2>3 DEF Begin
  <2>4. CASE ~(Begin(h) \/ Contend(h) \/ Commit(h))
    <3>1. txn[h] # None
      BY <1>6, <2>4 DEF IsleStep, ExecAppend, ExecExpect, ExecDecide, ExecRetain, TxnAppend,
         ImportItem, ImportRefused, ImportFlush, BodyOk, Importing, InBody, Running
    <3>2. UNCHANGED task \/ \E ans : Rollback(h, ans)
      BY <1>6, <2>4 DEF IsleStep, ExecAppend, ExecExpect, ExecDecide, ExecRetain, AppendOrFail,
         TxnAppend, ImportItem, ImportRefused, ImportFlush, BodyOk, Stage, StepTxn
    <3> QED BY <1>2, <1>5, <3>1, <3>2
  <2> QED BY <2>1, <2>2, <2>3, <2>4
<1>7. ASSUME NEW h \in Handles, StatementFails(h) \/ BodyErr(h) PROVE Rests'
  BY <1>5, <1>7 DEF StatementFails, BodyErr, Running
<1>8. ASSUME NEW h \in Handles,
             Shutdown(h) \/ Drained(h) \/ Reopen(h) \/ \E req \in Detachable : Detach(h, req)
      PROVE  Rests'
  BY <1>2, <1>8 DEF Shutdown, Drained, Reopen, Detach
<1>9. ASSUME NEW h \in Handles, Crash(h) PROVE Rests'
  <2>1. \A c \in Clients : task'[c] = IF HandleOf[c] = h THEN Idle ELSE task[c]
    BY <1>9 DEF Crash
  <2> QED BY <2>1 DEF Rests
<1>10. ASSUME NEW c \in Clients, Cancel(c) \/ Return(c) PROVE Rests'
  <2>1. task' = [task EXCEPT ![c] = Idle]
    BY <1>10 DEF Cancel, Return
  <2> QED BY <2>1, RestsOn
<1>11. ASSUME NEW c \in Clients, NEW req \in Requests, Call(c, req) PROVE Rests'
  <2> DEFINE t == Asked(ids + 1, req)
  <2>1. task' = [task EXCEPT ![c] = t] /\ t.st = "waiting"
    BY <1>11 DEF Call, Asked
  <2> HIDE DEF t
  <2> QED BY <2>1, RestsOn
<1>12. ASSUME NEW c \in Clients, BackOff(c) PROVE Rests'
  <2> DEFINE t == [task[c] EXCEPT !.st = "backoff", !.tries = task[c].tries + 1, !.ans = None]
  <2>1. task' = [task EXCEPT ![c] = t] /\ t.st = "backoff"
    BY <1>1, <1>12 DEF BackOff, Task
  <2> HIDE DEF t
  <2> QED BY <2>1, RestsOn
<1>13. ASSUME NEW c \in Clients, Resubmit(c) PROVE Rests'
  <2>1. CASE mode[HandleOf[c]] = "open"
    <3> DEFINE t == [task[c] EXCEPT !.st = "waiting"]
    <3>1. task' = [task EXCEPT ![c] = t] /\ t.st = "waiting"
      BY <1>1, <1>13, <2>1 DEF Resubmit, Task
    <3> HIDE DEF t
    <3> QED BY <3>1, RestsOn
  <2>2. CASE mode[HandleOf[c]] # "open"
    BY <1>3, <1>13, <2>2 DEF Resubmit
  <2> QED BY <2>1, <2>2
<1>14. CASE UNCHANGED vars
  BY <1>2, <1>14 DEF vars
<1> QED BY <1>6, <1>7, <1>8, <1>9, <1>10, <1>11, <1>12, <1>13, <1>14 DEF Next, CallerStep

\* Everything the refinement rests on.
LInv == IInv /\ Rests /\ AllMeant /\ Tracked(Lines, task, ids)

\* It holds at the beginning.
LEMMA InitLinear ==
  ASSUME Init
  PROVE  LInv /\ Linear!Init
<1>1. IInv
  BY InitInv
<1>2. Rests
  BY DEF Init, Rests
<1>3. AllMeant
  BY DEF Init, AllMeant
<1>4. Tracked(Lines, task, ids)
  <2>1. \A h \in Handles : Lines[h] = <<>>
    BY DEF Init, Lines, LineOf
  <2>2. \A h \in Handles : DOMAIN Lines[h] = {}
    BY <2>1
  <2>3. \A c \in Clients : task[c].st = "idle"
    BY DEF Init, Idle
  <2> QED BY <2>2, <2>3 DEF Tracked, OneEach, Awaited, Apart
<1>5. Linear!Init
  <2>1. \A c \in Clients : AbstractCall(c) = None
    BY DEF Init, AbstractCall, Idle
  <2>2. \A h \in Handles : Ownerless(h) = {}
    BY DEF Init, Ownerless
  <2>3. history = {} /\ db.events = {}
    BY DEF Init, EmptyTables
  <2> QED BY <2>1, <2>2, <2>3 DEF Linear!Init
<1> QED BY <1>1, <1>2, <1>3, <1>4, <1>5 DEF LInv

\* Every step of the write path is one of LinearLog, or none that it sees.
LEMMA NextLinear ==
  ASSUME SwallowErrors = FALSE, LInv, [Next]_vars
  PROVE  LInv' /\ [Linear!Next]_Linear!vars
<1>1. IInv /\ Rests /\ AllMeant /\ Tracked(Lines, task, ids)
  BY DEF LInv
<1>2. IInv' /\ Rests' /\ AllMeant'
  BY <1>1, NextInv, RestsNext, MeantNext
<1>3. ASSUME NEW h \in Handles, IsleStep(h) PROVE Follows
  <2>1. CASE Begin(h)
    BY <1>1, <1>2, <2>1, WorkFollows
  <2>2. CASE Contend(h)
    BY <1>1, <1>2, <2>2, ContendFollows
  <2>3. CASE Commit(h)
    BY <1>1, <1>2, <2>3, CommitFollows
  <2>4. CASE ExecAppend(h) \/ ExecExpect(h) \/ ExecDecide(h) \/ ExecRetain(h)
    BY <1>1, <1>2, <2>4, ExecFollows
  <2>5. CASE TxnAppend(h) \/ ImportItem(h) \/ ImportRefused(h) \/ ImportFlush(h) \/ BodyOk(h)
    BY <1>1, <1>2, <2>5, BodyFollows
  <2> QED BY <1>3, <2>1, <2>2, <2>3, <2>4, <2>5 DEF IsleStep
<1>4. ASSUME NEW h \in Handles, StatementFails(h) \/ BodyErr(h) PROVE Follows
  <2>1. /\ txn[h] # None
        /\ Rollback(h, Answer("failed")) \/ Rollback(h, Answer("err"))
    BY <1>4 DEF StatementFails, BodyErr, Running
  <2> QED BY <1>1, <1>2, <2>1, FailureFollows
<1>5. ASSUME NEW h \in Handles, Shutdown(h) \/ Drained(h) \/ Reopen(h) PROVE Follows
  <2>1. /\ db' = db /\ history' = history /\ queue' = queue
        /\ txn' = txn /\ task' = task /\ ids' = ids
    BY <1>5 DEF Shutdown, Drained, Reopen
  <2> QED BY <1>1, <1>2, <2>1, IdleFollows
<1>6. ASSUME NEW h \in Handles, Crash(h) PROVE Follows
  BY <1>1, <1>2, <1>6, CrashFollows
<1>7. ASSUME NEW h \in Handles, NEW req \in Detachable, Detach(h, req) PROVE Follows
  BY <1>1, <1>2, <1>7, DetachFollows
<1>8. ASSUME NEW c \in Clients, CallerStep(c) PROVE Follows
  BY <1>1, <1>2, <1>8, BackOffFollows, ResubmitFollows, ReturnFollows DEF CallerStep
<1>9. ASSUME NEW c \in Clients, Cancel(c) PROVE Follows
  <2>1. task[c].st # "idle"
    BY <1>1, <1>9 DEF Cancel, Rests
  <2> QED BY <1>1, <1>2, <1>9, <2>1, CancelFollows
<1>10. ASSUME NEW c \in Clients, NEW req \in Requests, Call(c, req) PROVE Follows
  BY <1>1, <1>2, <1>10, CallFollows
<1>11. ASSUME UNCHANGED vars PROVE Follows
  <2>1. /\ db' = db /\ history' = history /\ queue' = queue
        /\ txn' = txn /\ task' = task /\ ids' = ids
    BY <1>11 DEF vars
  <2> QED BY <1>1, <1>2, <2>1, IdleFollows
<1>12. Follows
  <2>1. CASE Next
    <3>1. CASE \E c \in Clients : CallerStep(c) \/ Cancel(c) \/ \E req \in Requests : Call(c, req)
      BY <1>8, <1>9, <1>10, <3>1
    <3>2. CASE \E h \in Handles : IsleStep(h) \/ StatementFails(h) \/ BodyErr(h)
      BY <1>3, <1>4, <3>2
    <3>3. CASE \E h \in Handles : \/ Shutdown(h) \/ Drained(h) \/ Crash(h) \/ Reopen(h)
                                 \/ \E req \in Detachable : Detach(h, req)
      BY <1>5, <1>6, <1>7, <3>3
    <3> QED BY <2>1, <3>1, <3>2, <3>3 DEF Next
  <2> QED BY <1>11, <2>1
<1>13. Tracked(Lines', task', ids') /\ [Linear!Next]_Linear!vars
  BY <1>12 DEF Follows
<1>14. LInv'
  BY <1>2, <1>13 DEF LInv
<1> QED BY <1>13, <1>14

\* When no closure goes on after a refused import, the write path implements
\* LinearLog: whatever was queued, contended, retried, rolled back, cancelled,
\* detached or killed, each call takes effect at most once, at one instant
\* between being made and being answered, and what it does and answers is its
\* sequential meaning over the whole history.
THEOREM Linearizes == ASSUME SwallowErrors = FALSE PROVE Spec => Linearizable
<1>1. Init => LInv /\ Linear!Init
  BY InitLinear
<1>2. LInv /\ [Next]_vars => LInv' /\ [Linear!Next]_Linear!vars
  BY NextLinear
<1> QED BY <1>1, <1>2, PTL DEF Spec, Linearizable, Linear!Spec
-----------------------------------------------------------------------------
(* What readers see of the write path.  LogWriters has it as runs of one   *)
(* stream and removals, each a step of its own.                            *)

\* What no append touches.
Beside(d, e) == e.ckpt = d.ckpt /\ e.ledger = d.ledger /\ e.receipts = d.receipts

\* The tables after the first k items of a list, with the counters written.
AfterItems(d, D, k) ==
  [d EXCEPT !.events  = @ \cup {RowAt(d, D, i) : i \in 1..k},
            !.autoinc = @ + k,
            !.next    = [s \in Streams |-> d.next[s] + Count(D, k, s)]]

\* What retain answers for, on the tables d.
MayRemove(d, req) == RetainAnswer(d, req.plan, req.guard) = "removed"

\* An open transaction leaves the other tables as they were; one that is about to
\* commit is the committed tables with its items, or less what it may remove.
Aside(d, t) ==
  LET req == t.job.req IN
  /\ t.phase = "open" => Beside(d, t.tables)
  /\ t.phase = "ready" =>
       IF req.op = "retain" THEN t.tables = RemoveMatching(d, req.plan) /\ MayRemove(d, req)
       ELSE t.tables = AfterItems(d, ItemsOf(req), Len(ItemsOf(req)))

AllAside == \A h \in Handles : txn[h] # None => Aside(db, txn[h])

\* A list that can be appended.
ItemList(D) ==
  /\ Len(D) \in Nat /\ DOMAIN D = 1..Len(D)
  /\ \A i \in 1..Len(D) : D[i].stream \in Streams /\ D[i].kind \in Kinds /\ D[i].at \in Times

\* The items of a request are one.
LEMMA ItemsAreListed ==
  ASSUME NEW req \in Requests, req.op \in {"append", "expect", "decide", "txn"}
  PROVE  ItemList(ItemsOf(req))
<1> DEFINE D == ItemsOf(req)
<1>1. /\ Len(D) \in Nat /\ DOMAIN D = 1..Len(D)
      /\ \A i \in 1..Len(D) : D[i].stream \in Streams
  BY ItemsShape
<1>2. CASE req.op = "txn"
  <2>1. req.calls \in Seq(TxnCall)
    BY <1>2, RequestShape
  <2> DEFINE cs == req.calls
             n == Len(cs)
  <2>2. n \in 0..n
    <3>1. n \in Nat
      <4> HIDE DEF cs
      <4> QED BY <2>1
    <3> HIDE DEF n
    <3> QED BY <3>1
  <2>3. D = Pre(cs)[n]
    BY <1>2 DEF ItemsOf
  <2>4. D \in Seq(Item)
    <3>1. Pre(cs)[n] \in Seq(Item)
      <4>1. cs \in Seq(TxnCall) /\ Len(cs) \in 0..Len(cs)
        BY <2>1, <2>2
      <4> HIDE DEF cs, D
      <4>2. Pre(cs) \in [0..Len(cs) -> Seq(Item)]
        BY <4>1, PreIs
      <4> QED BY <4>1, <4>2
    <3> HIDE DEF D
    <3> QED BY <2>3, <3>1
  <2> HIDE DEF D
  <2>5. \A i \in 1..Len(D) : D[i] \in Item
    BY <2>4
  <2>6. \A i \in 1..Len(D) : D[i].kind \in Kinds /\ D[i].at \in Times
    BY <2>5 DEF Item
  <2> QED BY <1>1, <2>6 DEF ItemList, D
<1>3. CASE req.op # "txn"
  <2>1. req.run \in Seq(Event)
    BY <1>3, RequestShape
  <2>2. D = [i \in DOMAIN req.run |-> [stream |-> req.stream, kind |-> req.run[i].kind,
                                       at |-> req.run[i].at]]
    BY <1>3 DEF ItemsOf
  <2> HIDE DEF D
  <2>3. DOMAIN D = DOMAIN req.run
    BY <2>2
  <2>4. ASSUME NEW i \in 1..Len(D) PROVE D[i].kind \in Kinds /\ D[i].at \in Times
    <3>1. i \in DOMAIN req.run /\ D[i].kind = req.run[i].kind /\ D[i].at = req.run[i].at
      BY <1>1, <2>2, <2>3
    <3>2. req.run[i] \in Event
      BY <2>1, <3>1
    <3> QED BY <3>1, <3>2 DEF Event
  <2> QED BY <1>1, <2>4 DEF ItemList, D
<1> QED BY <1>2, <1>3

\* The next item of a list counts for its stream only.
LEMMA CountNext ==
  ASSUME NEW D, NEW k \in Nat \ {0}, NEW s
  PROVE  /\ Count(D, k - 1, s) \in Nat
         /\ Count(D, k, s) = Count(D, k - 1, s) + (IF D[k].stream = s THEN 1 ELSE 0)
<1> DEFINE n == k - 1
           u == D[k].stream
<1>1. n \in Nat /\ n <= k /\ k - n = 1 /\ k \in Nat /\ (n + 1)..k = {k}
  OBVIOUS
<1>2. Count(D, n, s) \in Nat
  BY <1>1, CountType
<1>3. Continues(D, D, n, k, u)
  BY <1>1 DEF Continues
<1>4. /\ Count(D, k, u) = Count(D, n, u) + (k - n)
      /\ \A v : v # u => Count(D, k, v) = Count(D, n, v)
  <2> HIDE DEF n, u
  <2> QED BY <1>1, <1>3, CountAfter
<1> HIDE DEF u
<1>5. CASE s = u
  BY <1>1, <1>2, <1>4, <1>5 DEF u
<1>6. CASE s # u
  BY <1>1, <1>2, <1>4, <1>6 DEF u
<1> QED BY <1>5, <1>6

\* The tables e are those of d and the rows of the first k items of D.
Gained(d, D, k, e) ==
  /\ e \in Tables /\ Beside(d, e)
  /\ e.events = d.events \cup {RowAt(d, D, i) : i \in 1..k}
  /\ e.autoinc = d.autoinc + k
  /\ e.next = [s \in Streams |-> d.next[s] + Count(D, k, s)]
  /\ \A i \in 1..k : RowAt(d, D, i) \in Row

\* What the tables after some items are.
LEMMA AfterItemsIs ==
  ASSUME NEW d \in Tables, NEW D, ItemList(D), NEW k \in 0..Len(D),
         NEW e, e = AfterItems(d, D, k)
  PROVE  Gained(d, D, k, e)
<1>1. k \in Nat /\ Len(D) \in Nat /\ k <= Len(D)
  BY DEF ItemList
<1>2. d.autoinc \in Nat /\ d.next \in [Streams -> Nat \ {0}] /\ d.events \in SUBSET Row
  BY DEF Tables
<1>3. ASSUME NEW i \in 1..k PROVE RowAt(d, D, i) \in Row
  <2> DEFINE s == D[i].stream
             c == Count(D, i - 1, s)
             n == d.next[s]
  <2>1. i \in Nat \ {0} /\ i \in 1..Len(D)
    BY <1>1
  <2>2. s \in Streams /\ D[i].kind \in Kinds /\ D[i].at \in Times
    BY <2>1 DEF ItemList
  <2>3. c \in Nat /\ Count(D, i, s) = c + 1
    BY <2>1, CountNext
  <2>4. n \in Nat \ {0}
    BY <1>2, <2>2
  <2> DEFINE seq == n - 1 + Count(D, i, s)
             pos == d.autoinc + i
  <2>5. RowAt(d, D, i) = [pos |-> pos, stream |-> s, seq |-> seq, kind |-> D[i].kind, at |-> D[i].at]
    BY DEF RowAt
  <2> HIDE DEF c, n, s
  <2>6. seq \in Nat \ {0} /\ pos \in Nat \ {0}
    BY <1>2, <2>1, <2>3, <2>4
  <2> HIDE DEF seq, pos
  <2> QED BY <2>2, <2>5, <2>6 DEF Row
<1> DEFINE rows == {RowAt(d, D, i) : i \in 1..k}
           next == [s \in Streams |-> d.next[s] + Count(D, k, s)]
<1>4. rows \subseteq Row
  BY <1>3
<1>5. next \in [Streams -> Nat \ {0}]
  <2>1. ASSUME NEW s \in Streams PROVE d.next[s] + Count(D, k, s) \in Nat \ {0}
    <3>1. d.next[s] \in Nat \ {0} /\ Count(D, k, s) \in Nat
      BY <1>1, <1>2, CountType
    <3> QED BY <3>1
  <2> QED BY <2>1
<1>6. e = [d EXCEPT !.events = d.events \cup rows, !.autoinc = d.autoinc + k, !.next = next]
  BY DEF AfterItems
<1>7. d.autoinc + k \in Nat
  BY <1>1, <1>2
<1> HIDE DEF rows, next
<1>8. /\ e \in Tables /\ Beside(d, e) /\ e.events = d.events \cup rows
      /\ e.autoinc = d.autoinc + k /\ e.next = next
  BY <1>2, <1>4, <1>5, <1>6, <1>7 DEF Tables, Beside
<1> QED BY <1>3, <1>8 DEF rows, next, Gained

\* All the items of a list are its rows.
LEMMA ItemsInRows ==
  ASSUME NEW d \in Tables, NEW D, ItemList(D)
  PROVE  AfterItems(d, D, Len(D)).events = d.events \cup Rows(d, D)
<1> DEFINE f == AfterItems(d, D, Len(D))
<1>1. Len(D) \in 0..Len(D)
  BY DEF ItemList
<1> DEFINE n == Len(D)
<1>2. n \in 0..Len(D) /\ f = AfterItems(d, D, n)
  BY <1>1
<1> HIDE DEF n, f
<1>3. Gained(d, D, n, f)
  BY <1>2, AfterItemsIs
<1>4. f.events = d.events \cup {RowAt(d, D, i) : i \in 1..n}
  BY <1>3 DEF Gained
<1>5. Rows(d, D) = {RowAt(d, D, i) : i \in 1..n}
  BY DEF Rows, n
<1>6. f.events = d.events \cup Rows(d, D)
  BY <1>4, <1>5
<1> QED BY ONLY <1>6 DEF f

\* Tables that agree on every column are the same.
LEMMA SameTables ==
  ASSUME NEW d \in Tables, NEW e \in Tables, d.events = e.events, d.autoinc = e.autoinc,
         d.next = e.next, d.ckpt = e.ckpt, d.ledger = e.ledger, d.receipts = e.receipts
  PROVE  d = e
<1> DEFINE columns(t) == [events |-> t.events, autoinc |-> t.autoinc, next |-> t.next,
                          ckpt |-> t.ckpt, ledger |-> t.ledger, receipts |-> t.receipts]
<1>1. d = columns(d)
  BY DEF Tables
<1>2. e = columns(e)
  BY DEF Tables
<1>3. columns(d) = columns(e)
  OBVIOUS
<1> HIDE DEF columns
<1> QED BY ONLY <1>1, <1>2, <1>3

\* What the statements of an append leave alone.
LEMMA AppendsBeside ==
  ASSUME NEW d \in Tables
  PROVE  /\ \A s, run : Beside(d, AppendRun(d, s, run))
         /\ \A s, n, e : Beside(d, InsertStamped(d, s, n, e))
         /\ \A next : Beside(d, [d EXCEPT !.next = next])
<1>1. ASSUME NEW s, NEW run PROVE Beside(d, AppendRun(d, s, run))
  <2> DEFINE rows == RunRows(d, s, run)
             k == Len(run)
             n == NextSeq(d, s) + Len(run)
  <2> HIDE DEF rows, k, n
  <2>1. AppendRun(d, s, run) =
          SetNextSeq([d EXCEPT !.events = d.events \cup rows, !.autoinc = d.autoinc + k], s, n)
    BY DEF AppendRun, rows, k, n
  <2> QED BY <2>1 DEF Beside, SetNextSeq, Tables
<1>2. ASSUME NEW s, NEW n, NEW e PROVE Beside(d, InsertStamped(d, s, n, e))
  BY DEF Beside, InsertStamped, Tables
<1>3. ASSUME NEW next PROVE Beside(d, [d EXCEPT !.next = next])
  BY DEF Beside, Tables
<1> QED BY <1>1, <1>2, <1>3

\* The run of a request is its items.
LEMMA RunIsItems ==
  ASSUME NEW d \in Tables, NEW req \in Requests, req.op \in {"append", "expect", "decide"}
  PROVE  AppendRun(d, req.stream, req.run) = AfterItems(d, ItemsOf(req), Len(ItemsOf(req)))
<1> DEFINE run == req.run
           s == req.stream
           D == ItemsOf(req)
           k == Len(D)
           e == AppendRun(d, s, run)
           f == AfterItems(d, D, k)
<1>1. s \in Streams /\ run \in Seq(Event) /\ ItemList(D)
  BY RequestShape, ItemsAreListed
<1>2. k \in Nat /\ k \in 0..k
  BY <1>1 DEF ItemList
<1>3. D = [i \in DOMAIN run |-> [stream |-> s, kind |-> run[i].kind, at |-> run[i].at]]
  BY DEF ItemsOf
<1>4. RunRows(d, s, run) = Rows(d, D)
  BY RunItems
<1> HIDE DEF D, run, s
<1>5. \A j \in 1..k : D[j].stream = s
  <2>1. DOMAIN D = 1..k
    BY <1>1 DEF ItemList
  <2> QED BY <1>3, <2>1
<1>6. Len(run) = k
  <2>1. DOMAIN D = DOMAIN run /\ DOMAIN D = 1..k
    BY <1>1, <1>3 DEF ItemList
  <2>2. DOMAIN run = 1..Len(run) /\ Len(run) \in Nat
    BY <1>1
  <2> HIDE DEF k
  <2> DEFINE l == Len(run)
  <2>3. l \in Nat /\ 1..l = 1..k
    BY <2>1, <2>2
  <2> HIDE DEF l
  <2>4. l = k
    <3>1. l # 0 => l \in 1..l
      BY <2>3
    <3>2. k # 0 => k \in 1..k
      BY <1>2
    <3>3. (l # 0 => l \in 1..k) /\ (k # 0 => k \in 1..l)
      BY <2>3, <3>1, <3>2
    <3> QED BY <1>2, <2>3, <3>3
  <2> QED BY <2>4 DEF l
<1>7. IsRun(run)
  BY <1>1, EventsAreRun
<1>8. /\ e \in Tables /\ e.events = d.events \cup RunRows(d, s, run) /\ e.autoinc = d.autoinc + k
      /\ e.next = [d.next EXCEPT ![s] = d.next[s] + k] /\ Beside(d, e)
  BY <1>1, <1>6, <1>7, AppendRunType, AppendsBeside
<1>9. /\ f \in Tables /\ Beside(d, f) /\ f.events = d.events \cup Rows(d, D)
      /\ f.autoinc = d.autoinc + k
      /\ f.next = [u \in Streams |-> d.next[u] + Count(D, k, u)]
  <2>1. Gained(d, D, k, f)
    BY <1>1, <1>2, AfterItemsIs
  <2> QED BY <1>1, <2>1 DEF Gained, Rows
<1>10. e.next = f.next
  <2>1. 0 \in Nat /\ 0 <= k /\ k - 0 = k /\ Continues(D, D, 0, k, s)
    <3>1. 1..0 = {} /\ 0 + 1 = 1
      OBVIOUS
    <3> QED BY <1>2, <1>5, <3>1 DEF Continues
  <2>2. /\ Count(D, k, s) = Count(D, 0, s) + (k - 0)
        /\ \A u : u # s => Count(D, k, u) = Count(D, 0, u)
    <3> HIDE DEF k
    <3> QED BY <1>2, <2>1, CountAfter
  <2>3. \A u : Count(D, 0, u) = 0
    BY CountType
  <2>4. d.next \in [Streams -> Nat \ {0}]
    BY DEF Tables
  <2>5. \A u \in Streams : d.next[u] + Count(D, k, u) = IF u = s THEN d.next[s] + k ELSE d.next[u]
    <3> HIDE DEF k
    <3> QED BY <1>2, <2>2, <2>3, <2>4
  <2> HIDE DEF k, e, f
  <2> QED BY <1>8, <1>9, <2>4, <2>5
<1> HIDE DEF e, f
<1>11. e = f
  <2>1. e.ckpt = f.ckpt /\ e.ledger = f.ledger /\ e.receipts = f.receipts
    BY <1>8, <1>9 DEF Beside
  <2>2. e.events = f.events /\ e.autoinc = f.autoinc
    BY <1>4, <1>8, <1>9
  <2>3. e \in Tables /\ f \in Tables
    BY <1>8, <1>9
  <2> HIDE DEF k
  <2> QED BY <1>10, <2>1, <2>2, <2>3, SameTables
<1> QED BY <1>11 DEF e, f, D, k, run, s

\* A step of the open transaction.
LEMMA AsideStep ==
  ASSUME IInv, AllAside, NEW h \in Handles, NEW t, Aside(db, t),
         txn' = [txn EXCEPT ![h] = t], UNCHANGED db
  PROVE  AllAside'
<1>1. \A g \in Handles : txn'[g] = IF g = h THEN t ELSE txn[g]
  BY DEF IInv, TypeOK
<1>2. ASSUME NEW g \in Handles, txn'[g] # None PROVE Aside(db, txn'[g])
  BY <1>1, <1>2 DEF AllAside
<1> QED BY <1>2 DEF AllAside

\* A transaction that goes on as it was, or ends without a commit.
LEMMA AsideKept ==
  ASSUME AllAside, UNCHANGED db,
         \A g \in Handles : txn'[g] # None =>
            /\ txn[g] # None /\ txn'[g].tables = txn[g].tables
            /\ txn'[g].phase = txn[g].phase /\ txn'[g].job.req = txn[g].job.req
  PROVE  AllAside'
BY DEF AllAside, Aside

\* A transaction is dropped.
LEMMA DroppedAside ==
  ASSUME IInv, AllAside, NEW h \in Handles, txn' = [txn EXCEPT ![h] = None], UNCHANGED db
  PROVE  AllAside'
<1>1. \A g \in Handles : txn'[g] = IF g = h THEN None ELSE txn[g]
  BY DEF IInv, TypeOK
<1>2. \A g \in Handles : txn'[g] # None => txn[g] # None /\ txn'[g] = txn[g]
  BY <1>1
<1> QED BY <1>2, AsideKept

\* An open transaction takes on tables that an append's statement made.
LEMMA BesideStep ==
  ASSUME IInv, AllAside, NEW h \in Handles, txn[h] # None, txn[h].phase = "open",
         NEW u, u.job = txn[h].job, u.phase = "open",
         Beside(txn[h].tables, u.tables), txn' = [txn EXCEPT ![h] = u], UNCHANGED db
  PROVE  AllAside'
<1>1. Beside(db, txn[h].tables)
  BY DEF AllAside, Aside
<1>2. Aside(db, u)
  BY <1>1 DEF Aside, Beside
<1> QED BY <1>2, AsideStep

\* A job is taken up, or its statements are staged.
LEMMA ExecAside ==
  ASSUME IInv, AllAside, NEW h \in Handles,
         \/ Begin(h) \/ ExecAppend(h) \/ ExecExpect(h) \/ ExecDecide(h) \/ ExecRetain(h)
  PROVE  AllAside'
<1> DEFINE t == txn[h]
           req == t.job.req
<1>1. ASSUME NEW ans, Rollback(h, ans) PROVE AllAside'
  <2>1. txn' = [txn EXCEPT ![h] = None] /\ UNCHANGED db
    BY <1>1 DEF Rollback
  <2> QED BY <2>1, DroppedAside
<1>2. CASE Begin(h)
  <2> DEFINE u == Start(Head(queue[h]))
  <2>1. u.tables = db /\ u.phase = "open"
    BY DEF Start
  <2>2. Aside(db, u)
    BY <2>1 DEF Aside, Beside
  <2>3. txn' = [txn EXCEPT ![h] = u] /\ UNCHANGED db
    BY <1>2 DEF Begin
  <2> HIDE DEF u
  <2> QED BY <2>2, <2>3, AsideStep
<1>3. ASSUME t # None, t.phase = "open", req.op \in {"append", "expect", "decide"},
             AppendOrFail(h, req.stream, req.run)
      PROVE  AllAside'
  <2> DEFINE s == req.stream
             run == req.run
             D == ItemsOf(req)
  <2>1. t \in Txn /\ t.tables \in Tables /\ req \in Requests /\ t.tables = db
    BY <1>3, RunningTxn DEF Sound
  <2>2. CASE RunTaken(t.tables, s, run)
    BY <1>1, <1>3, <2>2 DEF AppendOrFail
  <2>3. CASE ~RunTaken(t.tables, s, run)
    <3> DEFINE tables == AppendRun(t.tables, s, run)
               ans == Landed(Positions(RunRows(t.tables, s, run)))
               u == [t EXCEPT !.tables = tables, !.phase = "ready", !.ans = ans]
    <3>1. txn' = [txn EXCEPT ![h] = u] /\ UNCHANGED db
      BY <1>3, <2>3 DEF AppendOrFail, Stage
    <3>2. tables = AfterItems(db, D, Len(D))
      BY <1>3, <2>1, RunIsItems
    <3> HIDE DEF tables, ans
    <3>3. u.job = t.job /\ u.tables = tables /\ u.phase = "ready"
      BY <2>1 DEF Txn
    <3> HIDE DEF u
    <3>4. u.job.req = req
      BY <3>3
    <3>5. req.op # "retain"
      BY <1>3
    <3> HIDE DEF req, t
    <3>6. Aside(db, u)
      BY <3>2, <3>3, <3>4, <3>5 DEF Aside, D
    <3> QED BY <3>1, <3>6, AsideStep
  <2> QED BY <2>2, <2>3
<1>4. CASE ExecAppend(h)
  BY <1>3, <1>4 DEF ExecAppend, Running
<1>5. CASE ExecExpect(h)
  BY <1>1, <1>3, <1>5 DEF ExecExpect, Running
<1>6. CASE ExecDecide(h)
  BY <1>1, <1>3, <1>6 DEF ExecDecide, Running
<1>7. CASE ExecRetain(h)
  <2>1. t # None /\ t.phase = "open" /\ req.op = "retain"
    BY <1>7 DEF ExecRetain, Running
  <2>2. t \in Txn /\ t.tables = db
    BY <2>1, RunningTxn DEF Sound
  <2>3. CASE RetainAnswer(t.tables, req.plan, req.guard) = "removed"
    <3> DEFINE tables == RemoveMatching(t.tables, req.plan)
               ans == Answer("removed")
               u == [t EXCEPT !.tables = tables, !.phase = "ready", !.ans = ans]
    <3>1. txn' = [txn EXCEPT ![h] = u] /\ UNCHANGED db
      BY <1>7, <2>3 DEF ExecRetain, Stage
    <3>2. tables = RemoveMatching(db, req.plan)
      BY <2>2
    <3> HIDE DEF tables, ans
    <3>3. u.job = t.job /\ u.phase = "ready" /\ u.tables = tables
      BY <2>2 DEF Txn
    <3> HIDE DEF u
    <3>4. u.job.req = req
      BY <3>3
    <3> HIDE DEF req, t
    <3>5. Aside(db, u)
      BY <2>1, <2>2, <2>3, <3>2, <3>3, <3>4 DEF Aside, MayRemove
    <3> QED BY <3>1, <3>5, AsideStep
  <2>4. CASE RetainAnswer(t.tables, req.plan, req.guard) # "removed"
    BY <1>1, <1>7, <2>4 DEF ExecRetain
  <2> QED BY <2>3, <2>4
<1> QED BY <1>2, <1>4, <1>5, <1>6, <1>7

\* A closure goes on.
LEMMA BodyAside ==
  ASSUME SwallowErrors = FALSE, IInv, AllMeant, AllAside, NEW h \in Handles,
         \/ TxnAppend(h) \/ ImportItem(h) \/ ImportRefused(h) \/ ImportFlush(h) \/ BodyOk(h)
  PROVE  AllAside'
<1> DEFINE t == txn[h]
<1>1. ASSUME NEW ans, Rollback(h, ans) PROVE AllAside'
  <2>1. txn' = [txn EXCEPT ![h] = None] /\ UNCHANGED db
    BY <1>1 DEF Rollback
  <2> QED BY <2>1, DroppedAside
<1>2. t # None /\ t.phase = "open" /\ t.job.req.op = "txn"
  BY DEF TxnAppend, ImportItem, ImportRefused, ImportFlush, BodyOk, Importing, InBody, Running
<1>3. t \in Txn /\ t.tables \in Tables
  BY <1>2, RunningTxn
<1>4. CASE TxnAppend(h)
  <2> DEFINE items == ThisCall(h).items
             s == items[1].stream
             tables == AppendRun(t.tables, s, items)
             new == Positions(RunRows(t.tables, s, items))
             n == NextCall(t)
             u == [n EXCEPT !.tables = tables, !.pub = @ \cup new]
  <2>1. CASE RunTaken(t.tables, s, items)
    BY <1>1, <1>4, <2>1 DEF TxnAppend
  <2>2. CASE ~RunTaken(t.tables, s, items)
    <3>1. txn' = [txn EXCEPT ![h] = u] /\ UNCHANGED db
      BY <1>4, <2>2 DEF TxnAppend, StepTxn
    <3>2. Beside(t.tables, tables)
      BY <1>3, AppendsBeside
    <3> HIDE DEF tables, new
    <3>3. u.job = t.job /\ u.phase = t.phase /\ u.tables = tables
      BY <1>3 DEF Txn, NextCall
    <3> HIDE DEF u
    <3> QED BY <1>2, <3>1, <3>2, <3>3, BesideStep
  <2> QED BY <2>1, <2>2
<1>5. CASE ImportItem(h)
  <2> DEFINE e == ThisCall(h).items[t.item]
             k == CachedNext(t, e.stream)
             tables == InsertStamped(t.tables, e.stream, k, e)
             seen == [t.seen EXCEPT ![e.stream] = k + 1]
             u == [t EXCEPT !.tables = tables, !.seen = seen, !.item = @ + 1]
  <2>1. CASE Taken(t.tables, e.stream, k)
    BY <1>1, <1>5, <2>1 DEF ImportItem
  <2>2. CASE ~Taken(t.tables, e.stream, k)
    <3>1. txn' = [txn EXCEPT ![h] = u] /\ UNCHANGED db
      BY <1>5, <2>2 DEF ImportItem, StepTxn
    <3>2. Beside(t.tables, tables)
      BY <1>3, AppendsBeside
    <3> HIDE DEF tables, seen
    <3>3. u.job = t.job /\ u.phase = t.phase /\ u.tables = tables
      BY <1>3 DEF Txn
    <3> HIDE DEF u
    <3> QED BY <1>2, <3>1, <3>2, <3>3, BesideStep
  <2> QED BY <2>1, <2>2
<1>6. CASE ImportRefused(h)
  BY <1>1, <1>6 DEF ImportRefused
<1>7. CASE ImportFlush(h)
  <2> DEFINE nx == [s \in Streams |-> CachedNext(t, s)]
             tables == [t.tables EXCEPT !.next = nx]
             done == t.tables.autoinc - Len(ThisCall(h).items) + 1 .. t.tables.autoinc
             n == NextCall(t)
             u == [n EXCEPT !.tables = tables, !.pub = @ \cup done]
  <2>1. txn' = [txn EXCEPT ![h] = u] /\ UNCHANGED db
    BY <1>7 DEF ImportFlush, StepTxn
  <2>2. Beside(t.tables, tables)
    BY <1>3, AppendsBeside
  <2> HIDE DEF tables, done
  <2>3. u.job = t.job /\ u.phase = t.phase /\ u.tables = tables
    BY <1>3 DEF Txn, NextCall
  <2> HIDE DEF u
  <2> QED BY <1>2, <2>1, <2>2, <2>3, BesideStep
<1>8. CASE BodyOk(h)
  <2> DEFINE ans == Landed(t.pub)
             u == [t EXCEPT !.tables = t.tables, !.phase = "ready", !.ans = ans]
  <2>1. txn' = [txn EXCEPT ![h] = u] /\ UNCHANGED db
    BY <1>8 DEF BodyOk, Stage
  <2> DEFINE req == t.job.req
             D == ItemsOf(req)
             f == AfterItems(db, D, Len(D))
  <2>2. /\ t.call = Len(req.calls) + 1 /\ Len(req.calls) \in Nat /\ Built(db, t) /\ Beside(db, t.tables)
        /\ db \in Tables /\ req \in Requests
    <3>1. req.calls \in Seq(TxnCall) /\ db \in Tables /\ req \in Requests
      BY <1>2, RunningTxn, RequestShape
    <3>2. t.call > Len(req.calls) /\ t.call \in 1..(Len(req.calls) + 1) /\ Built(db, t)
      BY <1>2, <1>8 DEF BodyOk, AllMeant, Meant, Placed
    <3>3. Beside(db, t.tables)
      BY <1>2 DEF AllAside, Aside
    <3> DEFINE cs == req.calls
               n == Len(cs)
               c == t.call
    <3>4. n \in Nat
      <4>1. cs \in Seq(TxnCall)
        BY <3>1
      <4> HIDE DEF cs
      <4> QED BY <4>1
    <3>5. c > n /\ c \in 1..(n + 1)
      BY <3>2
    <3> HIDE DEF n, c
    <3>6. c = n + 1
      BY <3>4, <3>5
    <3> QED BY <3>1, <3>2, <3>3, <3>4, <3>6 DEF n, c
  <2>a. ~(t.call <= Len(req.calls)) /\ t.call - 1 = Len(req.calls)
    <3> DEFINE n == Len(req.calls)
               c == t.call
    <3>1. c = n + 1 /\ n \in Nat
      BY <2>2
    <3> HIDE DEF c, n
    <3>2. ~(c <= n) /\ c - 1 = n
      BY <3>1
    <3> QED BY <3>2 DEF c, n
  <2>3. Done(t) = D
    <3>1. Done(t) = Pre(req.calls)[Len(req.calls)]
      BY <2>a DEF Done
    <3> QED BY <1>2, <3>1 DEF ItemsOf
  <2>4. t.seen = Unseen
    <3>1. ~MidImport(t)
      BY <2>a DEF MidImport
    <3> QED BY <1>2, <3>1, NoCache
  <2>5. ItemList(D) /\ Len(D) \in 0..Len(D)
    BY <1>2, <2>2, ItemsAreListed DEF ItemList
  <2> HIDE DEF D
  <2>6. /\ f \in Tables /\ Beside(db, f) /\ f.events = db.events \cup Rows(db, D)
        /\ f.autoinc = db.autoinc + Len(D)
        /\ f.next = [s \in Streams |-> db.next[s] + Count(D, Len(D), s)]
    <3>1. Gained(db, D, Len(D), f)
      BY <2>2, <2>5, AfterItemsIs
    <3> QED BY <3>1 DEF Gained, Rows
  <2>7. /\ t.tables.events = db.events \cup Rows(db, D) /\ t.tables.autoinc = db.autoinc + Len(D)
        /\ \A s \in Streams : CachedNext(t, s) = db.next[s] + Count(D, Len(D), s)
    BY <2>2, <2>3 DEF Built
  <2>8. t.tables.next = f.next
    <3>1. t.tables.next \in [Streams -> Nat \ {0}]
      BY <1>3 DEF Tables
    <3>2. \A s \in Streams : CachedNext(t, s) = t.tables.next[s]
      BY <2>4 DEF CachedNext, Unseen, NextSeq
    <3> DEFINE g(s) == db.next[s] + Count(D, Len(D), s)
               v == t.tables.next
    <3>3. v \in [Streams -> Nat \ {0}] /\ \A s \in Streams : v[s] = g(s)
      BY <2>7, <3>1, <3>2
    <3>4. f.next = [s \in Streams |-> g(s)]
      BY <2>6
    <3> HIDE DEF f, v, g
    <3>5. v = f.next
      BY <3>3, <3>4
    <3> QED BY <3>5 DEF v
  <2> HIDE DEF f
  <2>9. t.tables = f
    <3> DEFINE e == t.tables
    <3>1. /\ e \in Tables /\ f \in Tables /\ Beside(db, e) /\ Beside(db, f)
          /\ e.events = f.events /\ e.autoinc = f.autoinc /\ e.next = f.next
      BY <1>3, <2>2, <2>6, <2>7, <2>8
    <3> HIDE DEF e
    <3>2. e.ckpt = f.ckpt /\ e.ledger = f.ledger /\ e.receipts = f.receipts
      BY <3>1 DEF Beside
    <3>3. e = f
      BY <3>1, <3>2, SameTables
    <3> QED BY <3>3 DEF e
  <2> HIDE DEF ans
  <2>10. u.job = t.job /\ u.tables = t.tables /\ u.phase = "ready"
    BY <1>3 DEF Txn
  <2> HIDE DEF u
  <2>11. u.job.req = req /\ req.op # "retain"
    BY <1>2, <2>10
  <2> HIDE DEF req, t
  <2>12. Aside(db, u)
    BY <2>9, <2>10, <2>11 DEF Aside, f, D
  <2> QED BY <2>1, <2>12, AsideStep
<1> QED BY <1>4, <1>5, <1>6, <1>7, <1>8

\* Every step keeps what transactions leave alone.
LEMMA AsideNext ==
  ASSUME SwallowErrors = FALSE, IInv, AllMeant, AllAside, [Next]_vars
  PROVE  AllAside'
<1>1. txn \in [Handles -> Txn \cup {None}]
  BY DEF IInv, TypeOK
<1>2. ASSUME UNCHANGED <<db, txn>> PROVE AllAside'
  BY <1>2 DEF AllAside
<1>3. ASSUME NEW h \in Handles, NEW ans, Rollback(h, ans) PROVE AllAside'
  <2>1. txn' = [txn EXCEPT ![h] = None] /\ UNCHANGED db
    BY <1>3 DEF Rollback
  <2> QED BY <2>1, DroppedAside
<1>4. ASSUME NEW h \in Handles, Commit(h) PROVE AllAside'
  <2>1. txn' = [txn EXCEPT ![h] = None] /\ txn[h] # None
    BY <1>4 DEF Commit
  <2>2. \A g \in Handles : txn[g] # None => g = h
    BY <2>1 DEF IInv, LockHeld
  <2>3. \A g \in Handles : txn'[g] = None
    BY <1>1, <2>1, <2>2
  <2> QED BY <2>3 DEF AllAside
<1>5. ASSUME NEW h \in Handles, IsleStep(h) PROVE AllAside'
  <2>1. CASE Contend(h)
    BY <1>2, <2>1 DEF Contend
  <2> QED BY <1>4, <1>5, <2>1, ExecAside, BodyAside DEF IsleStep
<1>6. ASSUME NEW c \in Clients, CallerStep(c) \/ \E req \in Requests : Call(c, req) PROVE AllAside'
  BY <1>2, <1>6 DEF CallerStep, BackOff, Resubmit, Return, Call
<1>7. ASSUME NEW c \in Clients, Cancel(c) PROVE AllAside'
  <2> DEFINE h == HandleOf[c]
             v == IF txn[h] = None THEN None
                  ELSE [txn[h] EXCEPT !.job = Orphaned(txn[h].job, c)]
  <2>1. h \in Handles /\ txn' = [txn EXCEPT ![h] = v] /\ UNCHANGED db
    BY <1>7, HandleOfAssumption DEF Cancel
  <2>2. \A g \in Handles : txn'[g] = IF g = h THEN v ELSE txn[g]
    <3> HIDE DEF v
    <3> QED BY <1>1, <2>1
  <2>3. v # None => /\ txn[h] # None /\ v.tables = txn[h].tables
                    /\ v.phase = txn[h].phase /\ v.job.req = txn[h].job.req
    <3>1. CASE txn[h] = None
      BY <3>1
    <3>2. CASE txn[h] # None
      <4> DEFINE t == txn[h]
                 job == Orphaned(t.job, c)
      <4>1. t \in Txn
        BY <1>1, <2>1, <3>2
      <4>2. job.req = t.job.req
        BY <4>1 DEF Orphaned, Txn, Job
      <4> HIDE DEF job
      <4>3. v = [t EXCEPT !.job = job]
        BY <3>2 DEF job
      <4> HIDE DEF v, t
      <4>4. v.tables = t.tables /\ v.phase = t.phase /\ v.job = job
        BY <4>1, <4>3 DEF Txn
      <4> QED BY <3>2, <4>2, <4>4 DEF t
    <3> QED BY <3>1, <3>2
  <2> HIDE DEF v
  <2>4. \A g \in Handles : txn'[g] # None =>
          /\ txn[g] # None /\ txn'[g].tables = txn[g].tables
          /\ txn'[g].phase = txn[g].phase /\ txn'[g].job.req = txn[g].job.req
    BY <2>2, <2>3
  <2> QED BY <2>1, <2>4, AsideKept
<1>8. ASSUME NEW h \in Handles, StatementFails(h) \/ BodyErr(h) PROVE AllAside'
  BY <1>3, <1>8 DEF StatementFails, BodyErr
<1>9. ASSUME NEW h \in Handles,
             Shutdown(h) \/ Drained(h) \/ Reopen(h) \/ \E req \in Detachable : Detach(h, req)
      PROVE  AllAside'
  BY <1>2, <1>9 DEF Shutdown, Drained, Reopen, Detach
<1>10. ASSUME NEW h \in Handles, Crash(h) PROVE AllAside'
  <2>1. txn' = [txn EXCEPT ![h] = None] /\ UNCHANGED db
    BY <1>10 DEF Crash
  <2> QED BY <2>1, DroppedAside
<1>11. CASE UNCHANGED vars
  BY <1>2, <1>11 DEF vars
<1> QED BY <1>5, <1>6, <1>7, <1>8, <1>9, <1>10, <1>11 DEF Next

\* What becomes of tables d and a history h when one run of a stream is written:
\* LogWriters' Write, but for its bound.
Writes(d, h, e, g) ==
  \E s \in Streams, run \in Run : e = AppendRun(d, s, run) /\ g = h \cup RunRows(d, s, run)

\* ... or several, one after another.
WritesLead(d, h, e, g) ==
  \E n \in Nat : \E p \in [0..n -> Tables], q \in [0..n -> SUBSET Row] :
    /\ p[0] = d /\ q[0] = h /\ p[n] = e /\ q[n] = g
    /\ \A i \in 1..n : Writes(p[i - 1], q[i - 1], p[i], q[i])

\* What becomes of them when retention removes: its Trim.
Trims(d, h, e, g) ==
  \E plan \in Plan, guard \in Guards :
    /\ RetainAnswer(d, plan, guard) = "removed"
    /\ e = RemoveMatching(d, plan) /\ g = h

\* The committed log changes by runs written at its end, or by one removal that its
\* guard let through on the committed tables, and in no other way.
ChangesAsWritten ==
  [][WritesLead(db, history, db', history') \/ Trims(db, history, db', history')]_<<db, history>>

\* The tables f are e with the k-th item appended to its stream, a run of one.
ItemsMeet(d, D, k, e, f, s, run) ==
  /\ s \in Streams /\ run \in Run
  /\ f = AppendRun(e, s, run) /\ RunRows(e, s, run) = {RowAt(d, D, k)}

\* One item more is one run more.
LEMMA OneItemMore ==
  ASSUME NEW d \in Tables, NEW D, ItemList(D), NEW k \in 1..Len(D),
         NEW e, e = AfterItems(d, D, k - 1), NEW f, f = AfterItems(d, D, k),
         NEW s, s = D[k].stream, NEW run, run = <<[kind |-> D[k].kind, at |-> D[k].at]>>
  PROVE  ItemsMeet(d, D, k, e, f, s, run)
<1>1. k \in Nat \ {0} /\ k - 1 \in 0..Len(D) /\ k \in 0..Len(D)
  BY DEF ItemList
<1>2. s \in Streams /\ D[k].kind \in Kinds /\ D[k].at \in Times
  BY DEF ItemList
<1>3. run \in Seq(Event) /\ run \in Run /\ Len(run) = 1 /\ DOMAIN run = {1}
  BY <1>2 DEF Event, Run
<1>4. run[1].kind = D[k].kind /\ run[1].at = D[k].at
  OBVIOUS
<1>5. /\ e \in Tables /\ Beside(d, e) /\ e.events = d.events \cup {RowAt(d, D, i) : i \in 1..(k - 1)}
      /\ e.autoinc = d.autoinc + (k - 1)
      /\ e.next = [u \in Streams |-> d.next[u] + Count(D, k - 1, u)]
  <2>1. Gained(d, D, k - 1, e)
    BY <1>1, AfterItemsIs
  <2> QED BY <2>1 DEF Gained
<1>6. /\ f \in Tables /\ Beside(d, f) /\ f.events = d.events \cup {RowAt(d, D, i) : i \in 1..k}
      /\ f.autoinc = d.autoinc + k
      /\ f.next = [u \in Streams |-> d.next[u] + Count(D, k, u)]
  <2>1. Gained(d, D, k, f)
    BY <1>1, AfterItemsIs
  <2> QED BY <2>1 DEF Gained
<1>7. d.autoinc \in Nat /\ d.next \in [Streams -> Nat \ {0}]
  BY DEF Tables
<1>8. \A u : /\ Count(D, k - 1, u) \in Nat
             /\ Count(D, k, u) = Count(D, k - 1, u) + (IF s = u THEN 1 ELSE 0)
  BY <1>1, CountNext
<1>9. RunRows(e, s, run) = {RowAt(d, D, k)}
  <2> DEFINE new(i) == [pos |-> e.autoinc + i, stream |-> s, seq |-> NextSeq(e, s) + i - 1,
                        kind |-> run[i].kind, at |-> run[i].at]
  <2>1. RunRows(e, s, run) = {new(i) : i \in DOMAIN run}
    BY DEF RunRows
  <2>2. e.autoinc + 1 = d.autoinc + k
    BY <1>1, <1>5, <1>7
  <2>3. NextSeq(e, s) + 1 - 1 = d.next[s] - 1 + Count(D, k, s)
    <3> DEFINE b == Count(D, k - 1, s)
               c == Count(D, k, s)
               m == d.next[s]
    <3>1. NextSeq(e, s) = m + b
      BY <1>2, <1>5 DEF NextSeq
    <3>2. m \in Nat
      BY <1>2, <1>7
    <3>3. b \in Nat /\ c = b + 1
      BY <1>8
    <3> HIDE DEF b, c, m, new
    <3> DEFINE x == NextSeq(e, s)
    <3> HIDE DEF x
    <3>4. x = m + b
      BY <3>1 DEF x
    <3>5. x + 1 - 1 = m - 1 + c
      BY <3>2, <3>3, <3>4
    <3> QED BY <3>5 DEF x, m, c
  <2>4. new(1) = RowAt(d, D, k)
    BY <1>4, <2>2, <2>3 DEF RowAt
  <2>5. {new(i) : i \in DOMAIN run} = {new(1)}
    <3> HIDE DEF new
    <3> QED BY <1>3
  <2> QED BY <2>1, <2>4, <2>5
<1> DEFINE a == AppendRun(e, s, run)
<1>10. IsRun(run)
  BY <1>3, EventsAreRun
<1>11. /\ a \in Tables /\ a.events = e.events \cup RunRows(e, s, run) /\ a.autoinc = e.autoinc + 1
       /\ a.next = [e.next EXCEPT ![s] = e.next[s] + 1] /\ Beside(e, a)
  <2>1. /\ a \in Tables /\ a.events = e.events \cup RunRows(e, s, run)
        /\ a.autoinc = e.autoinc + Len(run) /\ a.next = [e.next EXCEPT ![s] = e.next[s] + Len(run)]
    <3>1. e \in Tables
      BY <1>5
    <3>2. /\ AppendRun(e, s, run) \in Tables
          /\ AppendRun(e, s, run).events = e.events \cup RunRows(e, s, run)
          /\ AppendRun(e, s, run).autoinc = e.autoinc + Len(run)
          /\ AppendRun(e, s, run).next = [e.next EXCEPT ![s] = e.next[s] + Len(run)]
      <4>1. s \in Streams
        BY <1>2
      <4> QED BY ONLY <3>1, <4>1, <1>10, AppendRunType
    <3> QED BY <3>2
  <2>2. Beside(e, a)
    BY <1>5, AppendsBeside
  <2> HIDE DEF a
  <2> QED BY <1>3, <2>1, <2>2
<1> HIDE DEF a
<1>12. a.events = f.events
  <2>1. 1..k = 1..(k - 1) \cup {k}
    BY <1>1
  <2>2. {RowAt(d, D, i) : i \in 1..k} = {RowAt(d, D, i) : i \in 1..(k - 1)} \cup {RowAt(d, D, k)}
    BY <2>1
  <2> QED BY <1>5, <1>6, <1>9, <1>11, <2>2
<1>13. a.autoinc = f.autoinc
  BY <1>1, <1>5, <1>6, <1>7, <1>11
<1>14. a.next = f.next
  <2>1. \A u \in Streams : d.next[u] \in Nat
    BY <1>7
  <2>2. \A u \in Streams : a.next[u] = d.next[u] + Count(D, k, u)
    <3> TAKE u \in Streams
    <3> DEFINE b == Count(D, k - 1, u)
               c == Count(D, k, u)
               m == d.next[u]
    <3>1. e.next[u] = m + b
      BY <1>5
    <3>2. e.next \in [Streams -> Nat \ {0}]
      BY <1>5 DEF Tables
    <3>3. a.next[u] = IF u = s THEN e.next[u] + 1 ELSE e.next[u]
      BY <1>2, <1>11, <3>2
    <3>4. m \in Nat /\ b \in Nat /\ c = b + (IF s = u THEN 1 ELSE 0)
      BY <1>8, <2>1
    <3> DEFINE x == a.next[u]
               y == e.next[u]
    <3> HIDE DEF b, c, m, x, y
    <3>5. y = m + b /\ x = (IF u = s THEN y + 1 ELSE y)
      BY <3>1, <3>3 DEF x, y
    <3>6. x = m + c
      BY <3>4, <3>5
    <3> QED BY <3>6 DEF x, m, c
  <2>3. a.next \in [Streams -> Nat \ {0}]
    BY <1>11 DEF Tables
  <2> QED BY <1>6, <2>2, <2>3
<1>15. f = a
  <2>1. a.ckpt = f.ckpt /\ a.ledger = f.ledger /\ a.receipts = f.receipts
    BY <1>5, <1>6, <1>11 DEF Beside
  <2>2. a \in Tables /\ f \in Tables
    BY <1>6, <1>11
  <2> QED BY <1>12, <1>13, <1>14, <2>1, <2>2, SameTables
<1> QED BY <1>2, <1>3, <1>9, <1>15 DEF a, ItemsMeet

\* A list is written item by item.
LEMMA ItemsAreWrites ==
  ASSUME NEW d \in Tables, NEW h \in SUBSET Row, NEW D, ItemList(D)
  PROVE  WritesLead(d, h, AfterItems(d, D, Len(D)), h \cup Rows(d, D))
<1> DEFINE n == Len(D)
           p == [i \in 0..n |-> AfterItems(d, D, i)]
           q == [i \in 0..n |-> h \cup {RowAt(d, D, j) : j \in 1..i}]
<1>1. n \in Nat
  BY DEF ItemList
<1>2. p \in [0..n -> Tables]
  <2>1. ASSUME NEW i \in 0..n PROVE AfterItems(d, D, i) \in Tables
    <3> DEFINE e == AfterItems(d, D, i)
    <3>1. i \in 0..Len(D) /\ e = AfterItems(d, D, i)
      OBVIOUS
    <3> HIDE DEF e, p, q, n
    <3>2. Gained(d, D, i, e)
      BY <3>1, AfterItemsIs
    <3> QED BY <3>1, <3>2 DEF Gained
  <2> QED BY <2>1
<1>3. q \in [0..n -> SUBSET Row]
  <2>1. ASSUME NEW i \in 0..n PROVE {RowAt(d, D, j) : j \in 1..i} \subseteq Row
    <3> DEFINE e == AfterItems(d, D, i)
    <3>1. i \in 0..Len(D) /\ e = AfterItems(d, D, i)
      OBVIOUS
    <3>2. \A j \in 1..i : RowAt(d, D, j) \in Row
      <4> HIDE DEF p, q, n, e
      <4>1. Gained(d, D, i, e)
        BY <3>1, AfterItemsIs
      <4> QED BY <4>1 DEF Gained
    <3> QED BY <3>2
  <2> QED BY <2>1
<1>4. 0 \in 0..n /\ n \in 0..n
  BY <1>1
<1>5. p[0] = d
  <2>1. p[0] = AfterItems(d, D, 0)
    BY <1>4
  <2> DEFINE e == AfterItems(d, D, 0)
  <2>2. /\ e \in Tables /\ Beside(d, e) /\ e.events = d.events \cup {RowAt(d, D, i) : i \in 1..0}
        /\ e.autoinc = d.autoinc + 0
        /\ e.next = [s \in Streams |-> d.next[s] + Count(D, 0, s)]
    <3>1. 0 \in 0..Len(D) /\ e = AfterItems(d, D, 0)
      BY <1>4
    <3> HIDE DEF e, p, q, n
    <3>2. Gained(d, D, 0, e)
      BY <3>1, AfterItemsIs
    <3> QED BY <3>2 DEF Gained
  <2> HIDE DEF e
  <2>3. d.autoinc \in Nat /\ d.next \in [Streams -> Nat \ {0}]
    BY DEF Tables
  <2>4. e.events = d.events /\ e.autoinc = d.autoinc
    BY <2>2, <2>3
  <2>5. e.next = d.next
    <3>1. \A s \in Streams : Count(D, 0, s) = 0
      BY CountType
    <3> QED BY <2>2, <2>3, <3>1
  <2>6. e = d
    <3>1. e.ckpt = d.ckpt /\ e.ledger = d.ledger /\ e.receipts = d.receipts
      BY <2>2 DEF Beside
    <3> QED BY <2>2, <2>4, <2>5, <3>1, SameTables
  <2> QED BY <2>1, <2>6 DEF e
<1>6. q[0] = h
  BY <1>4
<1>7. p[n] = AfterItems(d, D, n) /\ q[n] = h \cup Rows(d, D)
  BY <1>4 DEF Rows
<1>8. ASSUME NEW i \in 1..n PROVE Writes(p[i - 1], q[i - 1], p[i], q[i])
  <2> DEFINE s == D[i].stream
             run == <<[kind |-> D[i].kind, at |-> D[i].at]>>
  <2>1. i \in 0..n /\ i - 1 \in 0..n /\ i \in Nat
    BY <1>1
  <2>2. p[i - 1] = AfterItems(d, D, i - 1) /\ p[i] = AfterItems(d, D, i)
    BY <2>1
  <2>3. q[i - 1] = h \cup {RowAt(d, D, j) : j \in 1..(i - 1)} /\ q[i] = h \cup {RowAt(d, D, j) : j \in 1..i}
    BY <2>1
  <2> HIDE DEF p, q
  <2>4. /\ s \in Streams /\ run \in Run
        /\ p[i] = AppendRun(p[i - 1], s, run) /\ RunRows(p[i - 1], s, run) = {RowAt(d, D, i)}
    <3> DEFINE e == AfterItems(d, D, i - 1)
               f == AfterItems(d, D, i)
    <3>1. i \in 1..Len(D)
      OBVIOUS
    <3>2. /\ e = AfterItems(d, D, i - 1) /\ f = AfterItems(d, D, i)
          /\ s = D[i].stream /\ run = <<[kind |-> D[i].kind, at |-> D[i].at]>>
      OBVIOUS
    <3> HIDE DEF e, f, s, run, n
    <3>a. ItemsMeet(d, D, i, e, f, s, run)
      BY <3>1, <3>2, OneItemMore
    <3>3. /\ s \in Streams /\ run \in Run
          /\ f = AppendRun(e, s, run) /\ RunRows(e, s, run) = {RowAt(d, D, i)}
      BY <3>a DEF ItemsMeet
    <3>4. p[i - 1] = e /\ p[i] = f
      BY <2>2 DEF e, f
    <3> QED BY <3>3, <3>4
  <2>5. q[i] = q[i - 1] \cup {RowAt(d, D, i)}
    <3>1. 1..i = 1..(i - 1) \cup {i}
      BY <2>1
    <3> QED BY <2>3, <3>1
  <2> HIDE DEF s, run
  <2> QED BY <2>4, <2>5 DEF Writes
<1> HIDE DEF p, q
<1> QED BY <1>1, <1>2, <1>3, <1>5, <1>6, <1>7, <1>8 DEF WritesLead

\* A step that changes the log is a commit, and commits runs or a removal.
LEMMA StepIsWritten ==
  ASSUME SwallowErrors = FALSE, IInv, AllMeant, AllAside, [Next]_vars
  PROVE  [WritesLead(db, history, db', history') \/ Trims(db, history, db', history')]_<<db, history>>
<1>1. ASSUME NEW h \in Handles, Commit(h)
      PROVE  WritesLead(db, history, db', history') \/ Trims(db, history, db', history')
  <2> DEFINE t == txn[h]
             req == t.job.req
             D == ItemsOf(req)
  <2>1. /\ t # None /\ t.phase = "ready" /\ db' = t.tables /\ history' = history \cup t.tables.events
    BY <1>1 DEF Commit
  <2>2. req \in Requests /\ db \in Tables /\ history \in SUBSET Row /\ db.events \subseteq history
    BY <2>1, RunningTxn DEF IInv, HistoryDense
  <2>3. Aside(db, t)
    BY <2>1 DEF AllAside
  <2>4. req \in Request
    BY <2>2, RequestsAssumption
  <2>5. CASE req.op = "retain"
    <3>1. req.plan \in Plan /\ req.guard \in Guards
      BY <2>4, <2>5 DEF Request
    <3>2. db' = RemoveMatching(db, req.plan) /\ RetainAnswer(db, req.plan, req.guard) = "removed"
      BY <2>1, <2>3, <2>5 DEF Aside, MayRemove
    <3>3. db'.events = db.events \ Matching(db, req.plan)
      <4> DEFINE plan == req.plan
      <4>1. db' = RemoveMatching(db, plan)
        BY <3>2
      <4> HIDE DEF plan
      <4>2. db'.events = db.events \ Matching(db, plan)
        BY <2>2, <4>1 DEF RemoveMatching, Tables
      <4> QED BY <4>2 DEF plan
    <3>4. history' = history
      BY <2>1, <2>2, <3>3
    <3> QED BY <3>1, <3>2, <3>4 DEF Trims
  <2>6. CASE req.op # "retain"
    <3>1. req.op \in {"append", "expect", "decide", "txn"}
      BY <2>4, <2>6 DEF Request
    <3>2. ItemList(D) /\ Len(D) \in 0..Len(D)
      BY <2>2, <3>1, ItemsAreListed DEF ItemList
    <3>3. db' = AfterItems(db, D, Len(D))
      BY <2>1, <2>3, <2>6 DEF Aside
    <3> HIDE DEF D
    <3>4. db'.events = db.events \cup Rows(db, D)
      <4> DEFINE f == AfterItems(db, D, Len(D))
      <4>1. f.events = db.events \cup Rows(db, D)
        BY <2>2, <3>2, ItemsInRows
      <4> HIDE DEF f
      <4>2. db' = f
        BY <3>3 DEF f
      <4> QED BY <4>1, <4>2
    <3>5. history' = history \cup Rows(db, D)
      BY <2>1, <2>2, <3>4
    <3>6. WritesLead(db, history, AfterItems(db, D, Len(D)), history \cup Rows(db, D))
      BY <2>2, <3>2, ItemsAreWrites
    <3> QED BY <3>3, <3>5, <3>6
  <2> QED BY <2>5, <2>6
<1>2. (\E h \in Handles : Commit(h)) \/ UNCHANGED <<db, history>>
  BY OnlyCommitsWrite
<1> QED BY <1>1, <1>2

\* What subscriptions, projections, archives and listings are modelled over is what
\* the write path shows: however calls are queued, retried, composed in closures,
\* imported, rolled back or killed, the committed log changes only by whole runs,
\* written one after another at its end, and by removals that their guard let
\* through on the very tables they are made of.
THEOREM WrittenForReaders == ASSUME SwallowErrors = FALSE PROVE Spec => ChangesAsWritten
<1>1. Init => LInv /\ AllAside
  BY InitLinear DEF Init, AllAside
<1>2. LInv /\ AllAside /\ [Next]_vars => LInv' /\ AllAside'
  BY NextLinear, AsideNext DEF LInv
<1>3. LInv /\ AllAside /\ [Next]_vars =>
        [WritesLead(db, history, db', history') \/ Trims(db, history, db', history')]_<<db, history>>
  BY StepIsWritten DEF LInv
<1> QED BY <1>1, <1>2, <1>3, PTL DEF Spec, ChangesAsWritten

\* A stream that holds an event has a counter, and it stands behind the event, as
\* long as no closure goes on after a refused import: that one is the only way.
THEOREM CountersAreTrue == ASSUME SwallowErrors = FALSE PROVE Spec => []CounterIsTruth
<1>1. IInv => CounterIsTruth
  BY DEF IInv, HistoryDense, Dense, CounterIsTruth, NextSeq
<1> QED BY <1>1, Invariance, PTL

=============================================================================
