---------------------------- MODULE Hatch_proofs ----------------------------
(***************************************************************************)
(* What caller code cannot do, for any statements, queries and number of   *)
(* jobs.  Where a job stands fixes whether trust is up and what the        *)
(* guards of trust will put back; a statement of the caller's therefore    *)
(* always meets the authorizer with trust down.  What it may write is      *)
(* then its own tables, and a write of the crate's finds another table in  *)
(* the log's place only behind an alias, which is as lasting as that       *)
(* write.  That holds of any caller code.  A connection also comes back    *)
(* without a transaction, a job is committed whole or not at all, and a    *)
(* query only reads, when caller code leaves BEGIN, SAVEPOINT, COMMIT and  *)
(* ROLLBACK to the crate.                                                  *)
(***************************************************************************)
EXTENDS Hatch, TLAPS, FiniteSetTheorems

\* Caller code that leaves the transaction to the crate.  A statement that ends
\* it, or one that opens another, is let through: AllOrNothing fails with one.
Tame == /\ \A st \in Statements : st.verb \notin Controls
        /\ \A q \in Queries : q.st.verb \notin Controls

-----------------------------------------------------------------------------
(* The invariant.                                                          *)

\* Where a job of a kind may be, with what its connection then has: a
\* transaction, trust, and the values the guards of trust put back.
Place(j, o, t) ==
  \/ j.pc = "idle" /\ j = None /\ ~o /\ ~t
  \/ j.pc = "query" /\ j.op = "query" /\ ~o /\ ~t /\ j.saved = <<>>
  \/ j.pc = "leave" /\ ~o /\ ~t /\ j.saved = <<>>
  \/ /\ j.pc \in {"begin", "commit"} /\ j.op = "txn" /\ o = (j.pc = "commit")
     /\ ~t /\ j.saved = <<>>
  \/ /\ j.pc \in {"begin", "runner", "commit"} /\ j.op = "fold" /\ o = (j.pc # "begin")
     /\ t /\ j.saved = <<FALSE>>
  \/ j.pc = "caller" /\ j.op = "txn" /\ o /\ ~t /\ j.saved = <<>>
  \/ j.pc = "caller" /\ j.op = "fold" /\ o /\ ~t /\ j.saved = <<FALSE, TRUE>>
  \/ j.pc = "crate" /\ j.op = "txn" /\ o /\ t /\ j.saved = <<FALSE>>

ConnFine(c, j, g, t, o, s, n) ==
  /\ j \in Job /\ j.id <= n
  /\ g \in BOOLEAN /\ t \in BOOLEAN /\ o \in BOOLEAN /\ s \in BOOLEAN
  /\ Place(j, o, t)
  /\ IF j.pc = "idle" THEN g => s ELSE g
  /\ j.pc \notin {"leave"} => j.tag = "ok"
  /\ j.op \in {"none", "query"} \/ j.pc = "begin" => j.did = {}
  /\ c # Writer => j.op \in {"none", "query"}

ConnsOK ==
  /\ guard \in [Conns -> BOOLEAN] /\ trusted \in [Conns -> BOOLEAN]
  /\ open \in [Conns -> BOOLEAN] /\ stuck \in [Conns -> BOOLEAN]
  /\ job \in [Conns -> Job]
  /\ attached = [c \in Conns |-> FALSE]
  /\ ids \in 0..MaxJobs
  /\ \A c \in Conns : ConnFine(c, job[c], guard[c], trusted[c], open[c], stuck[c], ids)

Inside == {"begin", "caller", "crate", "runner", "commit"}

\* What is committed, what the open transaction adds to it, and what the last job
\* left, told apart by the job that wrote it.
DataFine(j, w, d, l, n) ==
  /\ w \cup d \subseteq Token
  /\ \A t \in d : t.job <= n
  /\ j.pc \in Inside => w = d \cup j.did /\ \A t \in d : t.job # j.id
  /\ j.pc \notin Inside => w = d
  /\ \A t \in j.did : t.job = j.id
  /\ j.pc = "leave" /\ j.tag = "ok" => j.did \subseteq d
  /\ j.pc = "leave" /\ j.tag = "error" => j.did \cap d = {}
  /\ l.did \subseteq Token
  /\ \A t \in l.did : t.job <= n /\ (j.pc # "idle" => t.job # j.id)
  /\ l.tag = "ok" => l.did \subseteq d
  /\ l.tag = "error" => l.did \cap d = {}

IInv ==
  /\ inMemory \in BOOLEAN /\ steps \in 0..MaxSteps
  /\ ConnsOK
  /\ DataFine(job[Writer], work, db, last, ids)

-----------------------------------------------------------------------------
(* One connection moves.                                                   *)

\* One connection moves, and is sound where it arrives.
LEMMA ConnMoves ==
  ASSUME ConnsOK, NEW c \in Conns,
         job' \in [Conns -> Job], guard' \in [Conns -> BOOLEAN],
         trusted' \in [Conns -> BOOLEAN], open' \in [Conns -> BOOLEAN],
         stuck' \in [Conns -> BOOLEAN], attached' = attached,
         \A d \in Conns : d # c => /\ job'[d] = job[d] /\ guard'[d] = guard[d]
                                   /\ trusted'[d] = trusted[d] /\ open'[d] = open[d]
                                   /\ stuck'[d] = stuck[d],
         ids' \in 0..MaxJobs, ids <= ids',
         ConnFine(c, job'[c], guard'[c], trusted'[c], open'[c], stuck'[c], ids')
  PROVE  ConnsOK'
<1>1. attached' = [d \in Conns |-> FALSE]
  BY DEF ConnsOK
<1>2. ASSUME NEW d \in Conns
      PROVE  ConnFine(d, job'[d], guard'[d], trusted'[d], open'[d], stuck'[d], ids')
  <2>1. CASE d = c
    BY <2>1
  <2>2. CASE d # c
    <3>1. /\ job'[d] = job[d] /\ guard'[d] = guard[d] /\ trusted'[d] = trusted[d]
          /\ open'[d] = open[d] /\ stuck'[d] = stuck[d]
      BY <2>2
    <3>2. ConnFine(d, job[d], guard[d], trusted[d], open[d], stuck[d], ids)
      BY DEF ConnsOK
    <3>3. ids \in Nat /\ ids' \in Nat /\ job[d].id \in Nat
      BY HatchAssumption DEF ConnsOK, Job
    <3>4. ConnFine(d, job[d], guard[d], trusted[d], open[d], stuck[d], ids')
      BY <3>2, <3>3 DEF ConnFine
    <3> QED BY <3>1, <3>4
  <2> QED BY <2>1, <2>2
<1>3. \A d \in Conns : ConnFine(d, job[d], guard[d], trusted[d], open[d], stuck[d], ids)'
  BY <1>2
<1> QED BY <1>1, <1>3 DEF ConnsOK

\* A job of a reader's connection has written nothing.
LEMMA ReadersWriteNothing ==
  ASSUME ConnsOK, NEW c \in Conns, c # Writer PROVE job[c].did = {}
BY DEF ConnsOK, ConnFine

\* What is known of a connection.
LEMMA Known ==
  ASSUME IInv, NEW c \in Conns
  PROVE  /\ ConnsOK /\ ConnFine(c, job[c], guard[c], trusted[c], open[c], stuck[c], ids)
         /\ job[c] \in Job /\ Place(job[c], open[c], trusted[c])
         /\ ids \in Nat /\ ids \in 0..MaxJobs /\ MaxJobs \in Nat /\ job[c].id \in Nat
         /\ job[c].id <= ids
         /\ attached[c] = FALSE
<1>1. ConnsOK /\ ConnFine(c, job[c], guard[c], trusted[c], open[c], stuck[c], ids)
  BY DEF IInv, ConnsOK
<1>2. job[c] \in Job /\ ids \in 0..MaxJobs /\ attached[c] = FALSE /\ MaxJobs \in Nat
  BY <1>1, HatchAssumption DEF ConnsOK
<1>3. job[c].id \in Nat /\ ids \in Nat
  BY <1>2 DEF Job
<1> QED BY <1>1, <1>2, <1>3 DEF ConnFine

\* The count of jobs grows.
LEMMA OneMore ==
  ASSUME IInv, NEW c \in Conns, NEW n \in Nat, ids <= n
  PROVE  ConnFine(c, job[c], guard[c], trusted[c], open[c], stuck[c], n)
<1>1. job[c].id \in Nat /\ ids \in Nat /\ job[c].id <= ids
  BY Known
<1>2. job[c].id <= n
  BY <1>1
<1>3. ConnFine(c, job[c], guard[c], trusted[c], open[c], stuck[c], ids)
  BY Known
<1> QED BY <1>2, <1>3 DEF ConnFine

\* Between jobs.
LEMMA BetweenJobs ==
  ASSUME IInv, NEW c \in Conns, job[c].pc = "idle"
  PROVE  job[c] = None /\ ~open[c] /\ ~trusted[c]
BY Known DEF Place

\* Only what a job of a reader's connection is at changes.
LEMMA DataStays ==
  ASSUME IInv, NEW c \in Conns, c # Writer, job'[Writer] = job[Writer],
         UNCHANGED <<work, db>>, ids' \in Nat, ids <= ids',
         \/ last' = last
         \/ last'.did = {}
  PROVE  DataFine(job[Writer], work, db, last, ids)'
<1>1. ids \in Nat /\ DataFine(job[Writer], work, db, last, ids)
  BY Known DEF IInv
<1>2. \A t \in db \cup last.did : t.job \in Nat
  BY <1>1 DEF DataFine, Token
<1>3. DataFine(job[Writer], work, db, last', ids')
  BY <1>1, <1>2 DEF DataFine
<1>4. job'[Writer] = job[Writer] /\ work' = work /\ db' = db
  OBVIOUS
<1> QED BY <1>3, <1>4

\* Only the writer's connection runs transactions.
LEMMA InsideIsWriter ==
  ASSUME IInv, NEW c \in Conns, job[c].pc \in Inside PROVE c = Writer
BY Known DEF ConnFine, Place, Inside

-----------------------------------------------------------------------------
(* Jobs begin.                                                             *)

\* What a stream handle's own append does.
LEMMA StoreWriteDoes ==
  ASSUME StoreWrite, steps \in Nat, ids \in Nat
  PROVE  \/ db' = db /\ work' = work /\ last'.did = {} /\ last'.tag = "error"
         \/ \E token \in Token :
              /\ token.job = ids' /\ token.n = steps /\ token.by = "crate"
              /\ token.reached \in Reaches(db)
              /\ db' = db \cup {token} /\ work' = db'
              /\ last' = [op |-> "write", tag |-> "ok", did |-> db' \ db]
<1>1. CASE last' = [op |-> "write", tag |-> "error", did |-> {}] /\ UNCHANGED <<db, work>>
  BY <1>1
<1>2. CASE /\ \E reached \in Reaches(db) :
                db' = db \cup {[job |-> ids + 1, n |-> steps, by |-> "crate", reached |-> reached]}
           /\ work' = db' /\ last' = [op |-> "write", tag |-> "ok", did |-> db' \ db]
  <2>1. PICK reached \in Reaches(db) :
          db' = db \cup {[job |-> ids + 1, n |-> steps, by |-> "crate", reached |-> reached]}
    BY <1>2
  <2> DEFINE token == [job |-> ids + 1, n |-> steps, by |-> "crate", reached |-> reached]
  <2>2. reached \in {"log", "astray"} /\ ids' = ids + 1
    BY DEF Reaches, StoreWrite, Takes
  <2>3. /\ token \in Token /\ token.job = ids' /\ token.n = steps /\ token.by = "crate"
        /\ token.reached \in Reaches(db) /\ db' = db \cup {token}
    BY <2>1, <2>2 DEF Token
  <2> HIDE DEF token
  <2> QED BY <1>2, <2>3
<1> QED BY <1>1, <1>2 DEF StoreWrite

\* A stream handle's own append.
LEMMA StoreWriteOK == ASSUME IInv, StoreWrite PROVE IInv'
<1>1. Writer \in Conns
  BY DEF Conns
<1>2. /\ job[Writer].pc = "idle" /\ ids < MaxJobs /\ ids' = ids + 1
      /\ UNCHANGED <<inMemory, guard, trusted, open, attached, stuck, job, steps>>
  BY DEF StoreWrite, Takes, At, kept
<1>3. /\ ids \in Nat /\ MaxJobs \in Nat /\ ids' \in 0..MaxJobs /\ ids <= ids'
  <2>1. ids \in Nat /\ MaxJobs \in Nat
    BY <1>1, Known
  <2> QED BY <1>2, <2>1
<1>4. ConnsOK'
  <2>1. ASSUME NEW c \in Conns
        PROVE  ConnFine(c, job[c], guard[c], trusted[c], open[c], stuck[c], ids')
    BY <1>3, OneMore
  <2> QED BY <1>2, <1>3, <2>1 DEF IInv, ConnsOK
<1> DEFINE j == job[Writer]
<1>5. j.pc = "idle" /\ j.did = {} /\ DataFine(j, work, db, last, ids) /\ j.pc \notin Inside
  <2>1. j = None
    BY <1>1, <1>2, BetweenJobs
  <2> QED BY <2>1 DEF IInv, None, Inside
<1>6. DataFine(j, work', db', last', ids')
  <2>0. /\ \A t \in db \cup last.did : t.job \in Nat
        /\ work = db
    BY <1>5 DEF DataFine, Token
  <2>1. CASE db' = db /\ work' = work /\ last'.did = {} /\ last'.tag = "error"
    BY <1>3, <1>5, <2>0, <2>1 DEF DataFine
  <2>2. ASSUME NEW token \in Token, token.job = ids', db' = db \cup {token}, work' = db',
               last' = [op |-> "write", tag |-> "ok", did |-> db' \ db]
        PROVE  DataFine(j, work', db', last', ids')
    <3>3. last'.did \subseteq {token} /\ last'.tag = "ok" /\ last'.did \subseteq db'
      BY <2>2
    <3> HIDE DEF j
    <3> QED BY <1>3, <1>5, <2>0, <2>2, <3>3 DEF DataFine
  <2>3. steps \in Nat /\ ids \in Nat
    BY <1>3, HatchAssumption DEF IInv
  <2> QED BY <2>1, <2>2, <2>3, StoreWriteDoes
<1>7. DataFine(job[Writer], work, db, last, ids)'
  BY <1>2, <1>6
<1> QED BY <1>2, <1>4, <1>7 DEF IInv

\* The authorizer of a call goes on.
LEMMA InstallOK ==
  ASSUME IInv, NEW c \in Conns, NEW new, NEW flag, Install(c, new, flag),
         \/ /\ c = Writer /\ new = [None EXCEPT !.op = "txn", !.pc = "begin"] /\ flag = FALSE
         \/ /\ c = Writer /\ flag = TRUE
            /\ new = [None EXCEPT !.op = "fold", !.pc = "begin", !.saved = <<FALSE>>]
         \/ new = [None EXCEPT !.op = "query", !.pc = "query"] /\ flag = FALSE
  PROVE  IInv'
<1> DEFINE j == [new EXCEPT !.id = ids + 1]
<1>1. /\ job[c].pc = "idle" /\ ids < MaxJobs /\ ids' = ids + 1
      /\ guard' = [guard EXCEPT ![c] = TRUE] /\ trusted' = [trusted EXCEPT ![c] = flag]
      /\ job' = [job EXCEPT ![c] = j]
      /\ UNCHANGED <<inMemory, open, attached, stuck, work, db, last, steps>>
  BY DEF Install, Takes, At, Set
<1>2. /\ ids \in Nat /\ MaxJobs \in Nat /\ ids' \in 0..MaxJobs /\ ids <= ids' /\ ids' \in Nat
      /\ ConnsOK /\ ~open[c] /\ stuck[c] \in BOOLEAN /\ open[c] \in BOOLEAN
  <2>1. ids \in Nat /\ MaxJobs \in Nat /\ ConnsOK
    BY Known
  <2>2. ids' \in 0..MaxJobs /\ ids <= ids' /\ ids' \in Nat
    BY <1>1, <2>1
  <2>3. ~open[c] /\ stuck[c] \in BOOLEAN /\ open[c] \in BOOLEAN
    BY <1>1, <2>1, BetweenJobs DEF ConnsOK
  <2> QED BY <2>1, <2>2, <2>3
<1>3. /\ j.id = ids' /\ j.did = {} /\ j.tag = "ok" /\ j.op = new.op /\ j.pc = new.pc
      /\ j.saved = new.saved /\ j.pc \in {"begin", "query"}
      /\ j \in Job
  <2>1. <<>> \in Seq(BOOLEAN) /\ <<FALSE>> \in Seq(BOOLEAN)
    OBVIOUS
  <2> QED BY <1>1, <1>2, <2>1 DEF None, Job
<1>4. Place(j, open[c], flag)
  BY <1>2, <1>3 DEF Place, None
<1>5. ConnsOK' /\ job'[c] = j /\ \A d \in Conns : d # c => job'[d] = job[d]
  <2>1. /\ job \in [Conns -> Job] /\ guard \in [Conns -> BOOLEAN]
        /\ trusted \in [Conns -> BOOLEAN] /\ open \in [Conns -> BOOLEAN]
        /\ stuck \in [Conns -> BOOLEAN] /\ flag \in BOOLEAN
    BY <1>2 DEF ConnsOK
  <2>2. c # Writer => j.op = "query"
    BY <1>3 DEF None
  <2>3. j.id <= ids' /\ j.pc # "idle"
    BY <1>2, <1>3
  <2> HIDE DEF j
  <2>4. /\ job' \in [Conns -> Job] /\ guard' \in [Conns -> BOOLEAN]
        /\ trusted' \in [Conns -> BOOLEAN] /\ open' \in [Conns -> BOOLEAN]
        /\ stuck' \in [Conns -> BOOLEAN] /\ attached' = attached
        /\ \A d \in Conns : d # c =>
             /\ job'[d] = job[d] /\ guard'[d] = guard[d]
             /\ trusted'[d] = trusted[d] /\ open'[d] = open[d] /\ stuck'[d] = stuck[d]
        /\ job'[c] = j /\ guard'[c] = TRUE /\ trusted'[c] = flag
        /\ open'[c] = open[c] /\ stuck'[c] = stuck[c]
    BY <1>1, <1>3, <2>1
  <2>5. ConnFine(c, job'[c], guard'[c], trusted'[c], open'[c], stuck'[c], ids')
    <3>1. Place(job'[c], open'[c], trusted'[c])
      BY <1>4, <2>4
    <3>2. guard'[c]
      BY <2>4
    <3>3. /\ job'[c] \in Job /\ job'[c].id <= ids' /\ job'[c].pc # "idle"
          /\ job'[c].tag = "ok" /\ job'[c].did = {} /\ (c # Writer => job'[c].op = "query")
      BY <1>3, <2>2, <2>3, <2>4
    <3>4. /\ guard'[c] \in BOOLEAN /\ trusted'[c] \in BOOLEAN /\ open'[c] \in BOOLEAN
          /\ stuck'[c] \in BOOLEAN
      BY <2>4
    <3> QED BY <3>1, <3>2, <3>3, <3>4 DEF ConnFine
  <2> QED BY <1>2, <2>4, <2>5, ConnMoves
<1> HIDE DEF j
<1>6. DataFine(job[Writer], work, db, last, ids)'
  <2>1. Writer \in Conns
    BY DEF Conns
  <2>2. CASE c # Writer
    BY <1>1, <1>2, <1>5, <2>1, <2>2, DataStays
  <2>3. CASE c = Writer
    <3>1. job[Writer] = None /\ DataFine(job[Writer], work, db, last, ids)
      BY <1>1, <2>3, Known DEF Place, IInv
    <3>2. \A t \in db \cup last.did : t.job \in Nat /\ t.job <= ids
      BY <3>1 DEF DataFine, Token
    <3>3. DataFine(j, work, db, last, ids')
      BY <1>1, <1>2, <1>3, <3>1, <3>2 DEF DataFine, Inside, None
    <3>4. job'[Writer] = j /\ work' = work /\ db' = db /\ last' = last
      BY <1>1, <1>5, <2>3
    <3> QED BY <3>3, <3>4
  <2> QED BY <2>2, <2>3
<1> QED BY <1>1, <1>5, <1>6 DEF IInv

\* A call that is refused its authorizer.
LEMMA InstallFailsOK == ASSUME IInv, NEW c \in Conns, InstallFails(c) PROVE IInv'
<1>1. /\ ids < MaxJobs /\ ids' = ids + 1 /\ last'.did = {} /\ last'.tag = "error"
      /\ UNCHANGED <<inMemory, guard, trusted, open, attached, stuck, job, work, db, steps>>
  BY DEF InstallFails, Takes, kept
<1>2. /\ ids \in Nat /\ MaxJobs \in Nat /\ ids' \in 0..MaxJobs /\ ids <= ids'
  <2>1. ids \in Nat /\ MaxJobs \in Nat
    BY Known
  <2> QED BY <1>1, <2>1
<1>3. ConnsOK'
  <2>1. ASSUME NEW d \in Conns
        PROVE  ConnFine(d, job[d], guard[d], trusted[d], open[d], stuck[d], ids')
    BY <1>2, OneMore
  <2> QED BY <1>1, <1>2, <2>1 DEF IInv, ConnsOK
<1>4. DataFine(job[Writer], work, db, last', ids')
  <2>1. DataFine(job[Writer], work, db, last, ids)
    BY DEF IInv
  <2>2. \A t \in db : t.job \in Nat
    BY <2>1 DEF DataFine, Token
  <2> QED BY <1>1, <1>2, <2>1, <2>2 DEF DataFine
<1>5. DataFine(job[Writer], work, db, last, ids)'
  BY <1>1, <1>4
<1> QED BY <1>1, <1>3, <1>5 DEF IInv

\* A call that gets its authorizer.
LEMMA TakesOK ==
  ASSUME IInv, Transact \/ Fold \/ \E c \in Conns : Ask(c) PROVE IInv'
<1>1. Writer \in Conns
  BY DEF Conns
<1> QED BY <1>1, InstallOK DEF Transact, Fold, Ask

-----------------------------------------------------------------------------
(* The body.                                                               *)

\* The body of the writer's job moves on without touching data.
LEMMA BodyMoves ==
  ASSUME IInv, NEW j,
         job[Writer].pc \in Inside,
         job' = [job EXCEPT ![Writer] = j],
         trusted' \in [Conns -> BOOLEAN], open' \in [Conns -> BOOLEAN],
         \A d \in Conns : d # Writer => trusted'[d] = trusted[d] /\ open'[d] = open[d],
         UNCHANGED <<inMemory, guard, attached, stuck, ids, last>>,
         steps' \in 0..MaxSteps,
         j \in Job, Place(j, open'[Writer], trusted'[Writer]),
         j.pc \in Inside \cup {"leave"}, j.pc # "begin",
         j.op = job[Writer].op, j.id = job[Writer].id,
         j.pc # "leave" => j.tag = "ok",
         DataFine(j, work', db', last, ids)
  PROVE  IInv'
<1>1. Writer \in Conns
  BY DEF Conns
<1>2. /\ ConnsOK /\ ids \in 0..MaxJobs /\ ids \in Nat /\ job[Writer].id <= ids
      /\ ConnFine(Writer, job[Writer], guard[Writer], trusted[Writer], open[Writer],
                  stuck[Writer], ids)
  BY <1>1, Known
<1>3. job[Writer].op \in {"txn", "fold"} /\ job[Writer].pc # "idle" /\ guard[Writer]
  BY <1>2 DEF ConnFine, Place, Inside
<1>4. /\ job' \in [Conns -> Job] /\ guard' \in [Conns -> BOOLEAN]
      /\ stuck' \in [Conns -> BOOLEAN] /\ attached' = attached
      /\ \A d \in Conns : d # Writer =>
           /\ job'[d] = job[d] /\ guard'[d] = guard[d]
           /\ trusted'[d] = trusted[d] /\ open'[d] = open[d] /\ stuck'[d] = stuck[d]
      /\ job'[Writer] = j /\ guard'[Writer] = guard[Writer] /\ stuck'[Writer] = stuck[Writer]
      /\ ids' \in 0..MaxJobs /\ ids <= ids'
  BY <1>1, <1>2 DEF ConnsOK
<1>5. ConnFine(Writer, job'[Writer], guard'[Writer], trusted'[Writer], open'[Writer],
               stuck'[Writer], ids')
  <2>1. /\ job'[Writer] \in Job /\ job'[Writer].id <= ids' /\ job'[Writer].pc # "idle"
        /\ job'[Writer].pc # "leave" => job'[Writer].tag = "ok"
        /\ job'[Writer].op \notin {"none", "query"} /\ job'[Writer].pc # "begin"
        /\ Place(job'[Writer], open'[Writer], trusted'[Writer])
    BY <1>2, <1>3, <1>4 DEF Inside
  <2>2. /\ guard'[Writer] /\ guard'[Writer] \in BOOLEAN /\ trusted'[Writer] \in BOOLEAN
        /\ open'[Writer] \in BOOLEAN /\ stuck'[Writer] \in BOOLEAN
    BY <1>1, <1>3, <1>4
  <2> QED BY <2>1, <2>2 DEF ConnFine
<1>6. ConnsOK'
  BY <1>1, <1>2, <1>4, <1>5, ConnMoves
<1>7. DataFine(job[Writer], work, db, last, ids)'
  BY <1>4
<1> QED BY <1>6, <1>7 DEF IInv

\* The body is left by an error, and what its transaction had is gone.
LEMMA FailsOK ==
  ASSUME IInv, job[Writer].pc \in Inside, Fails(Writer), work' = db,
         open' \in [Conns -> BOOLEAN], ~open'[Writer],
         \A d \in Conns : d # Writer => open'[d] = open[d]
  PROVE  IInv'
<1> DEFINE w == job[Writer]
           j == [w EXCEPT !.pc = "leave", !.saved = <<>>, !.tag = "error"]
<1>1. /\ job' = [job EXCEPT ![Writer] = j] /\ trusted' = [trusted EXCEPT ![Writer] = FALSE]
      /\ db' = db /\ UNCHANGED <<inMemory, guard, attached, stuck, ids, last, steps>>
  BY DEF Fails, Set
<1>2. /\ w \in Job /\ DataFine(w, work, db, last, ids) /\ Writer \in Conns /\ steps \in 0..MaxSteps
      /\ trusted \in [Conns -> BOOLEAN]
  BY Known DEF IInv, Conns, ConnsOK
<1>3. /\ j \in Job /\ j.pc = "leave" /\ j.saved = <<>> /\ j.tag = "error" /\ j.did = w.did
      /\ j.id = w.id /\ j.op = w.op
  <2>1. <<>> \in Seq(BOOLEAN)
    OBVIOUS
  <2> QED BY <1>2, <2>1 DEF Job
<1> HIDE DEF j
<1>4. DataFine(j, work', db', last, ids)
  BY <1>1, <1>2, <1>3 DEF DataFine, Inside
<1>5. /\ trusted' \in [Conns -> BOOLEAN] /\ ~trusted'[Writer]
      /\ \A d \in Conns : d # Writer => trusted'[d] = trusted[d] /\ open'[d] = open[d]
  BY <1>1, <1>2
<1>6. Place(j, open'[Writer], trusted'[Writer])
  BY <1>3, <1>5 DEF Place
<1> QED BY <1>1, <1>2, <1>3, <1>4, <1>5, <1>6, BodyMoves

\* A body that is left with an error.
LEMMA LeavesOK ==
  ASSUME IInv, NEW c \in Conns, BeginFails(c) \/ CommitFails(c) \/ GivesUp(c) PROVE IInv'
<1>1. job[c].pc \in Inside /\ Fails(c)
  BY DEF BeginFails, CommitFails, GivesUp, RollsBack, At, Inside
<1>2. c = Writer
  BY <1>1, InsideIsWriter
<1>3. /\ open \in [Conns -> BOOLEAN] /\ Place(job[c], open[c], trusted[c])
      /\ ConnFine(c, job[c], guard[c], trusted[c], open[c], stuck[c], ids)
      /\ DataFine(job[c], work, db, last, ids)
  BY <1>2, Known DEF ConnsOK, IInv
<1>4. CASE BeginFails(c)
  <2>1. job[c].pc = "begin" /\ open' = open /\ work' = work
    BY <1>4 DEF BeginFails, At
  <2>2. ~open[c] /\ job[c].did = {}
    BY <1>3, <2>1 DEF Place, ConnFine
  <2>3. work' = db
    BY <1>1, <1>3, <2>1, <2>2 DEF DataFine
  <2> QED BY <1>1, <1>2, <1>3, <2>1, <2>2, <2>3, FailsOK
<1>5. CASE CommitFails(c) \/ GivesUp(c)
  <2>1. open' = [open EXCEPT ![c] = FALSE] /\ work' = db
    BY <1>5 DEF CommitFails, GivesUp, RollsBack, Set
  <2>2. /\ open' \in [Conns -> BOOLEAN] /\ ~open'[c]
        /\ \A d \in Conns : d # c => open'[d] = open[d]
    BY <1>3, <2>1
  <2> QED BY <1>1, <1>2, <2>1, <2>2, FailsOK
<1> QED BY <1>4, <1>5

\* What is known of a transaction of the writer's.
LEMMA Working ==
  ASSUME IInv, job[Writer].pc \in Inside
  PROVE  /\ Writer \in Conns
         /\ job[Writer] \in Job /\ DataFine(job[Writer], work, db, last, ids)
         /\ trusted \in [Conns -> BOOLEAN] /\ open \in [Conns -> BOOLEAN]
         /\ Place(job[Writer], open[Writer], trusted[Writer])
         /\ job[Writer].tag = "ok" /\ steps \in 0..MaxSteps
         /\ work = db \cup job[Writer].did
         /\ \A t \in db : t.job # job[Writer].id
<1>1. Writer \in Conns
  BY DEF Conns
<1>2. /\ ConnsOK
      /\ ConnFine(Writer, job[Writer], guard[Writer], trusted[Writer], open[Writer],
                  stuck[Writer], ids)
  BY <1>1, Known
<1> QED BY <1>1, <1>2 DEF IInv, ConnsOK, ConnFine, DataFine, Inside

\* A place has a list of Booleans to put back.
LEMMA Lists ==
  /\ <<>> \in Seq(BOOLEAN) /\ <<FALSE>> \in Seq(BOOLEAN) /\ <<FALSE, TRUE>> \in Seq(BOOLEAN)
OBVIOUS

\* A step of the body that writes nothing.
LEMMA StepOK ==
  ASSUME IInv, job[Writer].pc \in Inside, NEW pc \in Inside, pc # "begin",
         NEW saved \in Seq(BOOLEAN),
         job' = [job EXCEPT ![Writer] = [job[Writer] EXCEPT !.pc = pc, !.saved = saved]],
         trusted' \in [Conns -> BOOLEAN], open' \in [Conns -> BOOLEAN],
         \A d \in Conns : d # Writer => trusted'[d] = trusted[d] /\ open'[d] = open[d],
         UNCHANGED <<inMemory, guard, attached, stuck, ids, last, work, db>>,
         steps' \in 0..MaxSteps,
         Place([job[Writer] EXCEPT !.pc = pc, !.saved = saved], open'[Writer], trusted'[Writer])
  PROVE  IInv'
<1> DEFINE w == job[Writer]
           j == [w EXCEPT !.pc = pc, !.saved = saved]
<1>1. /\ w \in Job /\ DataFine(w, work, db, last, ids) /\ w.tag = "ok"
  BY Working
<1>2. /\ j \in Job /\ j.pc = pc /\ j.did = w.did /\ j.id = w.id /\ j.op = w.op /\ j.tag = "ok"
  <2>1. pc \in {"begin", "caller", "crate", "runner", "commit"}
    BY DEF Inside
  <2> QED BY <1>1, <2>1 DEF Job
<1>3. job' = [job EXCEPT ![Writer] = j] /\ Place(j, open'[Writer], trusted'[Writer])
  OBVIOUS
<1> HIDE DEF j
<1>4. DataFine(j, work', db', last, ids)
  BY <1>1, <1>2 DEF DataFine, Inside
<1> QED BY <1>2, <1>3, <1>4, BodyMoves

\* A step that writes, or takes back, with a transaction open.
LEMMA WritesOK ==
  ASSUME IInv, job[Writer].pc \in Inside, NEW pc \in {"caller", "commit"},
         NEW saved \in Seq(BOOLEAN), NEW did \in SUBSET Token,
         job' = [job EXCEPT ![Writer] =
                   [job[Writer] EXCEPT !.pc = pc, !.saved = saved, !.did = did]],
         \A t \in did : t.job = job[Writer].id,
         work' = db \cup did, db' = db,
         trusted' \in [Conns -> BOOLEAN], open' = open,
         \A d \in Conns : d # Writer => trusted'[d] = trusted[d],
         UNCHANGED <<inMemory, guard, attached, stuck, ids, last>>,
         steps' \in 0..MaxSteps,
         \A new : /\ new.pc = pc /\ new.saved = saved /\ new.op = job[Writer].op
                  => Place(new, open[Writer], trusted'[Writer])
  PROVE  IInv'
<1> DEFINE w == job[Writer]
           j == [w EXCEPT !.pc = pc, !.saved = saved, !.did = did]
<1>1. /\ w \in Job /\ DataFine(w, work, db, last, ids) /\ w.tag = "ok" /\ Writer \in Conns
      /\ open \in [Conns -> BOOLEAN] /\ \A t \in db : t.job # w.id
  BY Working
<1>2. job' = [job EXCEPT ![Writer] = j]
  OBVIOUS
<1>3. /\ j \in Job /\ j.pc = pc /\ j.did = did /\ j.id = w.id /\ j.op = w.op
      /\ j.tag = "ok" /\ j.saved = saved
  BY <1>1 DEF Job
<1> HIDE DEF j
<1>4. DataFine(j, work', db', last, ids)
  <2>1. j.pc \in Inside /\ j.pc # "idle" /\ j.pc # "leave" /\ w.pc # "idle"
    BY <1>3 DEF Inside
  <2>2. work' \cup db' \subseteq Token
    BY <1>1 DEF DataFine
  <2> QED BY <1>1, <1>3, <2>1, <2>2 DEF DataFine
<1>5. Place(j, open'[Writer], trusted'[Writer])
  BY <1>3
<1>6. j.pc \in Inside \cup {"leave"} /\ j.pc # "begin"
  BY <1>3 DEF Inside
<1> QED BY <1>1, <1>2, <1>3, <1>4, <1>5, <1>6, BodyMoves

\* What a job stores.
LEMMA Stored ==
  ASSUME NEW c \in Conns, job[c].id \in Nat, steps \in Nat, NEW by \in {"crate", "caller"},
         NEW reached \in {"log", "own", "setting", "shadow", "alias", "astray"},
         Stores(c, by, reached)
  PROVE  \E token \in Token :
           /\ token.job = job[c].id /\ token.n = steps /\ token.by = by
           /\ token.reached = reached
           /\ work' = work \cup {token}
           /\ db' = IF open[c] THEN db ELSE work'
<1> DEFINE token == [job |-> job[c].id, n |-> steps, by |-> by, reached |-> reached]
<1>1. /\ token \in Token /\ token.job = job[c].id /\ token.n = steps /\ token.by = by
      /\ token.reached = reached
  BY DEF Token
<1>2. work' = work \cup {token} /\ db' = IF open[c] THEN db ELSE work'
  BY DEF Stores
<1> HIDE DEF token
<1> QED BY <1>1, <1>2

\* What the crate's writes reach.
LEMMA CrateReaches == ASSUME NEW w PROVE Reaches(w) \subseteq {"log", "astray"}
BY DEF Reaches

\* A write of the crate's, with a transaction open.
LEMMA WroteOK ==
  ASSUME IInv, job[Writer].pc \in Inside, open[Writer],
         NEW pc \in {"caller", "commit"}, NEW saved \in Seq(BOOLEAN),
         Wrote(Writer, pc, saved),
         trusted' \in [Conns -> BOOLEAN], open' = open,
         \A d \in Conns : d # Writer => trusted'[d] = trusted[d],
         UNCHANGED <<inMemory, guard, attached, stuck, ids, last>>,
         steps' \in 0..MaxSteps,
         \A new : /\ new.pc = pc /\ new.saved = saved /\ new.op = job[Writer].op
                  => Place(new, open[Writer], trusted'[Writer])
  PROVE  IInv'
<1> DEFINE w == job[Writer]
           did == w.did \cup (work' \ work)
<1>1. /\ w \in Job /\ DataFine(w, work, db, last, ids) /\ Writer \in Conns
      /\ work = db \cup w.did /\ steps \in Nat /\ w.id \in Nat
  <2>1. /\ w \in Job /\ DataFine(w, work, db, last, ids) /\ Writer \in Conns
        /\ work = db \cup w.did /\ steps \in 0..MaxSteps
    BY Working
  <2>2. steps \in Nat /\ w.id \in Nat
    BY <2>1, HatchAssumption DEF Job
  <2> QED BY <2>1, <2>2
<1>2. /\ \E reached \in Reaches(work) : Stores(Writer, "crate", reached)
      /\ job' = [job EXCEPT ![Writer] = [w EXCEPT !.pc = pc, !.saved = saved, !.did = did]]
  BY DEF Wrote, Set
<1>3. PICK token \in Token : token.job = w.id /\ work' = work \cup {token} /\ db' = db
  BY <1>1, <1>2, CrateReaches, Stored
<1>4. did \in SUBSET Token /\ (\A t \in did : t.job = w.id) /\ work' = db \cup did
  <2>1. w.did \subseteq Token /\ \A t \in w.did : t.job = w.id
    BY <1>1 DEF DataFine, Job
  <2>2. did \subseteq w.did \cup {token}
    BY <1>3
  <2>3. work' = db \cup did
    BY <1>1, <1>3
  <2> HIDE DEF did
  <2> QED BY <1>3, <2>1, <2>2, <2>3
<1> HIDE DEF did
<1> QED BY <1>1, <1>2, <1>3, <1>4, WritesOK

\* What caller code gets past the authorizer with trust down writes its own tables,
\* or makes an alias.
LEMMA CallersReachTheirOwn ==
  ASSUME NEW st \in Statement, Authorize(st, FALSE), NEW reached \in Writes(st)
  PROVE  reached \in {"own", "alias"}
<1>1. /\ st.reserved => st.verb \notin Reshapes \cup CreatesInMain \cup CreatesInTemp
      /\ st.verb \notin Outside \cup {"PragmaSet"}
  BY DEF Authorize, Shown
<1>2. st.reserved => st.verb \notin OtherDrops
  <2>1. st.verb \in OtherDrops => "Delete" \in Shown(st) /\ "Delete" \in Reshapes
    BY DEF Shown, Reshapes
  <2> QED BY <2>1 DEF Authorize
<1> QED BY <1>1, <1>2 DEF Writes

\* The transaction opens.
LEMMA BeginOK == ASSUME IInv, NEW c \in Conns, Begin(c) PROVE IInv'
<1>1. c = Writer /\ job[Writer].pc \in Inside /\ job[Writer].pc = "begin"
  BY InsideIsWriter DEF Begin, At, Inside
<1> DEFINE w == job[Writer]
           pc == IF w.op = "fold" THEN "runner" ELSE "caller"
           saved == w.saved
<1>2. /\ w \in Job /\ Writer \in Conns /\ trusted \in [Conns -> BOOLEAN]
      /\ open \in [Conns -> BOOLEAN] /\ steps \in 0..MaxSteps
      /\ Place(w, open[Writer], trusted[Writer])
  BY <1>1, Working
<1>3. /\ job' = [job EXCEPT ![Writer] = [w EXCEPT !.pc = pc]]
      /\ open' = [open EXCEPT ![Writer] = TRUE]
      /\ UNCHANGED <<inMemory, guard, trusted, attached, stuck, work, db, last, ids, steps>>
  BY <1>1 DEF Begin, Set
<1>4. saved \in Seq(BOOLEAN) /\ [w EXCEPT !.pc = pc] = [w EXCEPT !.pc = pc, !.saved = saved]
  BY <1>2 DEF Job
<1>5. pc \in Inside /\ pc # "begin"
  BY DEF Inside
<1>6. /\ open' \in [Conns -> BOOLEAN] /\ trusted' \in [Conns -> BOOLEAN]
      /\ open'[Writer] /\ trusted'[Writer] = trusted[Writer]
      /\ \A d \in Conns : d # Writer => trusted'[d] = trusted[d] /\ open'[d] = open[d]
  BY <1>2, <1>3
<1>7. Place([w EXCEPT !.pc = pc, !.saved = saved], open'[Writer], trusted'[Writer])
  <2> DEFINE j == [w EXCEPT !.pc = pc, !.saved = saved]
  <2>1. j.pc = pc /\ j.saved = w.saved /\ j.op = w.op
    BY <1>2 DEF Job
  <2>2. \/ w.op = "txn" /\ ~trusted[Writer] /\ w.saved = <<>>
        \/ w.op = "fold" /\ trusted[Writer] /\ w.saved = <<FALSE>>
    BY <1>1, <1>2 DEF Place
  <2> HIDE DEF j
  <2>3. Place(j, open'[Writer], trusted'[Writer])
    BY <1>6, <2>1, <2>2 DEF Place
  <2> QED BY <2>3 DEF j
<1> HIDE DEF pc, saved
<1> QED BY <1>1, <1>2, <1>3, <1>4, <1>5, <1>6, <1>7, StepOK

\* What a statement does that leaves the transaction alone, with one open.
LEMMA TameDoes ==
  ASSUME NEW c \in Conns, NEW st, Does(c, st), open[c], Authorize(st, FALSE),
         st.verb \notin Controls
  PROVE  /\ UNCHANGED <<open, attached>>
         /\ \/ \E reached \in Writes(st) : Stores(c, "caller", reached)
            \/ db' = db /\ \E n \in 0..steps : work' = db \cup {t \in work : t.n < n}
            \/ UNCHANGED <<work, db>>
<1>1. st.verb \notin {"Begin", "Savepoint", "Commit", "Rollback", "Attach"}
  BY DEF Authorize, Controls, Outside
<1> QED BY <1>1 DEF Does

\* A statement of the caller's.
LEMMA RunOK ==
  ASSUME IInv, Tame, NEW c \in Conns, NEW st \in Statements, Run(c, st) PROVE IInv'
<1>1. c = Writer /\ job[Writer].pc \in Inside /\ job[Writer].pc = "caller"
  BY InsideIsWriter DEF Run, At, Inside
<1> DEFINE w == job[Writer]
           did == {t \in work' : t.job = w.id}
           saved == w.saved
<1>2. /\ w \in Job /\ Writer \in Conns /\ trusted \in [Conns -> BOOLEAN]
      /\ open \in [Conns -> BOOLEAN] /\ steps \in 0..MaxSteps
      /\ Place(w, open[Writer], trusted[Writer])
      /\ work = db \cup w.did /\ (\A t \in db : t.job # w.id)
      /\ DataFine(w, work, db, last, ids)
  BY <1>1, Working
<1>3. open[Writer] /\ ~trusted[Writer] /\ trusted[Writer] = FALSE /\ saved \in Seq(BOOLEAN)
  BY <1>1, <1>2 DEF Place, Job
<1>4. st \in Statement /\ st.verb \notin Controls
  BY HatchAssumption DEF Tame
<1>5. /\ Authorize(st, FALSE) /\ steps < MaxSteps /\ steps' = steps + 1 /\ Does(Writer, st)
      /\ job' = [job EXCEPT ![Writer] = [w EXCEPT !.did = did]]
      /\ UNCHANGED <<inMemory, guard, trusted, stuck, last, ids>>
  BY <1>1, <1>3 DEF Run, Set
<1>6. steps' \in 0..MaxSteps /\ steps \in Nat /\ w.id \in Nat
  BY <1>2, <1>5, HatchAssumption DEF Job
<1>7. UNCHANGED <<open, attached>> /\ db' = db /\ work' \subseteq Token /\ db \subseteq work'
      /\ \A t \in work' \ db : t.job = w.id
  <2>1. /\ UNCHANGED <<open, attached>>
        /\ \/ \E reached \in Writes(st) : Stores(Writer, "caller", reached)
           \/ db' = db /\ \E n \in 0..steps : work' = db \cup {t \in work : t.n < n}
           \/ UNCHANGED <<work, db>>
    BY <1>2, <1>3, <1>4, <1>5, TameDoes
  <2>2. work \subseteq Token /\ \A t \in w.did : t.job = w.id
    BY <1>2 DEF DataFine
  <2>3. ASSUME NEW reached \in Writes(st), Stores(Writer, "caller", reached)
        PROVE  /\ db' = db
               /\ \E token \in Token : token.job = w.id /\ work' = work \cup {token}
    <3>1. reached \in {"own", "alias"}
      BY <1>4, <1>5, <2>3, CallersReachTheirOwn
    <3> QED BY <1>2, <1>3, <1>6, <2>3, <3>1, Stored
  <2>4. CASE \E reached \in Writes(st) : Stores(Writer, "caller", reached)
    BY <1>2, <2>1, <2>2, <2>3, <2>4
  <2>5. CASE db' = db /\ \E n \in 0..steps : work' = db \cup {t \in work : t.n < n}
    BY <1>2, <2>1, <2>2, <2>5
  <2>6. CASE UNCHANGED <<work, db>>
    BY <1>2, <2>1, <2>2, <2>6
  <2> QED BY <2>1, <2>4, <2>5, <2>6
<1>8. did \in SUBSET Token /\ (\A t \in did : t.job = w.id) /\ work' = db \cup did
  BY <1>2, <1>7
<1>9. \A new : /\ new.pc = "caller" /\ new.saved = saved /\ new.op = w.op
               => Place(new, open[Writer], trusted'[Writer])
  <2>1. trusted'[Writer] = trusted[Writer]
    BY <1>5
  <2> QED BY <1>1, <1>2, <2>1 DEF Place
<1> HIDE DEF did
<1>10. [w EXCEPT !.did = did] = [w EXCEPT !.pc = "caller", !.saved = saved, !.did = did]
  BY <1>1, <1>2 DEF Job
<1>11. job' = [job EXCEPT ![Writer] = [w EXCEPT !.pc = "caller", !.saved = saved, !.did = did]]
  BY <1>5, <1>10
<1> HIDE DEF saved
<1> QED BY <1>1, <1>2, <1>3, <1>5, <1>6, <1>7, <1>8, <1>9, <1>11, WritesOK

\* Trust goes up around the crate's inserts and down around a callback, and comes
\* back down, or up, as it was.
LEMMA TrustOK ==
  ASSUME IInv, NEW c \in Conns, Raise(c) \/ Callback(c) \/ CallbackReturns(c) PROVE IInv'
<1>1. c = Writer /\ job[Writer].pc \in Inside
  BY InsideIsWriter DEF Raise, Callback, CallbackReturns, At, Inside
<1> DEFINE w == job[Writer]
<1>2. /\ w \in Job /\ Writer \in Conns /\ trusted \in [Conns -> BOOLEAN]
      /\ open \in [Conns -> BOOLEAN] /\ steps \in 0..MaxSteps
      /\ Place(w, open[Writer], trusted[Writer])
  BY <1>1, Working
<1>3. UNCHANGED <<inMemory, guard, open, attached, stuck, work, db, last, ids>>
  BY DEF Raise, Callback, CallbackReturns
<1>4. steps' \in 0..MaxSteps
  <2>1. steps \in 0..MaxSteps /\ MaxSteps \in Nat
    BY <1>2, HatchAssumption
  <2>2. CASE steps < MaxSteps /\ steps' = steps + 1
    BY <2>1, <2>2
  <2>3. CASE steps' = steps
    BY <2>1, <2>3
  <2> QED BY <2>2, <2>3 DEF Raise, Callback, CallbackReturns
<1>5. PICK pc \in Inside \ {"begin"}, saved \in Seq(BOOLEAN), t \in BOOLEAN :
        /\ job' = [job EXCEPT ![Writer] = [w EXCEPT !.pc = pc, !.saved = saved]]
        /\ trusted' = [trusted EXCEPT ![Writer] = t]
        /\ open[Writer]
        /\ \/ w.op = "txn" /\ pc = "crate" /\ saved = <<FALSE>> /\ t
           \/ w.op = "fold" /\ pc = "caller" /\ saved = <<FALSE, TRUE>> /\ ~t
           \/ w.op = "fold" /\ pc = "runner" /\ saved = <<FALSE>> /\ t
  <2>1. CASE Raise(c)
    <3>1. /\ w.pc = "caller" /\ w.op = "txn"
          /\ job' = [job EXCEPT ![Writer] = [w EXCEPT !.pc = "crate", !.saved = <<trusted[Writer]>>]]
          /\ trusted' = [trusted EXCEPT ![Writer] = TRUE]
      BY <1>1, <2>1 DEF Raise, At, Set
    <3>2. trusted[Writer] = FALSE /\ open[Writer]
      BY <1>2, <3>1 DEF Place
    <3>3. job' = [job EXCEPT ![Writer] = [w EXCEPT !.pc = "crate", !.saved = <<FALSE>>]]
      BY <3>1, <3>2
    <3>4. "crate" \in Inside \ {"begin"}
      BY DEF Inside
    <3> QED BY <3>1, <3>2, <3>3, <3>4, Lists
  <2>2. CASE Callback(c)
    <3>1. /\ w.pc = "runner" /\ trusted' = [trusted EXCEPT ![Writer] = FALSE]
          /\ job' = [job EXCEPT ![Writer] =
                      [w EXCEPT !.pc = "caller", !.saved = <<FALSE, trusted[Writer]>>]]
      BY <1>1, <2>2 DEF Callback, At, Set
    <3>2. trusted[Writer] = TRUE /\ open[Writer] /\ w.op = "fold"
      BY <1>2, <3>1 DEF Place
    <3>3. job' = [job EXCEPT ![Writer] = [w EXCEPT !.pc = "caller", !.saved = <<FALSE, TRUE>>]]
      BY <3>1, <3>2
    <3>4. "caller" \in Inside \ {"begin"}
      BY DEF Inside
    <3> QED BY <3>1, <3>2, <3>3, <3>4, Lists
  <2>3. CASE CallbackReturns(c)
    <3>1. /\ w.pc = "caller" /\ w.op = "fold"
          /\ trusted' = [trusted EXCEPT ![Writer] = w.saved[2]]
          /\ job' = [job EXCEPT ![Writer] = [w EXCEPT !.pc = "runner", !.saved = <<FALSE>>]]
      BY <1>1, <2>3 DEF CallbackReturns, At, Set
    <3>2. w.saved = <<FALSE, TRUE>> /\ open[Writer]
      BY <1>2, <3>1 DEF Place
    <3>3. w.saved[2] = TRUE
      BY <3>2
    <3>4. "runner" \in Inside \ {"begin"}
      BY DEF Inside
    <3>5. trusted' = [trusted EXCEPT ![Writer] = TRUE]
      BY <3>1, <3>3
    <3> QED BY <3>1, <3>2, <3>4, <3>5, Lists
  <2> QED BY <2>1, <2>2, <2>3
<1>6. /\ trusted' \in [Conns -> BOOLEAN] /\ open' \in [Conns -> BOOLEAN]
      /\ trusted'[Writer] = t /\ open'[Writer] = open[Writer]
      /\ \A d \in Conns : d # Writer => trusted'[d] = trusted[d] /\ open'[d] = open[d]
  BY <1>2, <1>3, <1>5
<1>7. Place([w EXCEPT !.pc = pc, !.saved = saved], open'[Writer], trusted'[Writer])
  <2> DEFINE j == [w EXCEPT !.pc = pc, !.saved = saved]
  <2>1. j.pc = pc /\ j.saved = saved /\ j.op = w.op
    BY <1>2 DEF Job
  <2> HIDE DEF j
  <2>2. Place(j, open'[Writer], trusted'[Writer])
    BY <1>5, <1>6, <2>1 DEF Place
  <2> QED BY <2>2 DEF j
<1> QED BY <1>1, <1>3, <1>4, <1>5, <1>6, <1>7, StepOK

\* The inserts of the transaction's context.
LEMMA InsertsOK == ASSUME IInv, NEW c \in Conns, Inserts(c) PROVE IInv'
<1>1. c = Writer /\ job[Writer].pc \in Inside /\ job[Writer].pc = "crate"
  BY InsideIsWriter DEF Inserts, At, Inside
<1> DEFINE w == job[Writer]
<1>2. /\ w \in Job /\ Writer \in Conns /\ trusted \in [Conns -> BOOLEAN]
      /\ open \in [Conns -> BOOLEAN] /\ steps \in 0..MaxSteps
      /\ Place(w, open[Writer], trusted[Writer])
  BY <1>1, Working
<1>3. /\ UNCHANGED <<inMemory, guard, open, attached, stuck, last, ids>>
      /\ trusted' = [trusted EXCEPT ![Writer] = w.saved[1]] /\ steps' \in 0..MaxSteps
  <2>1. steps < MaxSteps /\ steps' = steps + 1
    BY DEF Inserts
  <2>2. steps' \in 0..MaxSteps
    BY <1>2, <2>1, HatchAssumption
  <2> QED BY <1>1, <2>2 DEF Inserts, Set
<1>4. w.op = "txn" /\ w.saved = <<FALSE>> /\ open[Writer]
  BY <1>1, <1>2 DEF Place
<1>5. w.saved[1] = FALSE
  BY <1>4
<1>6. /\ trusted' \in [Conns -> BOOLEAN] /\ ~trusted'[Writer] /\ open' = open
      /\ \A d \in Conns : d # Writer => trusted'[d] = trusted[d]
  BY <1>2, <1>3, <1>5
<1>7. CASE Wrote(Writer, "caller", <<>>)
  <2>2. \A new : /\ new.pc = "caller" /\ new.saved = <<>> /\ new.op = w.op
                 => Place(new, open[Writer], trusted'[Writer])
    BY <1>4, <1>6 DEF Place
  <2> QED BY <1>1, <1>2, <1>3, <1>4, <1>6, <1>7, <2>2, Lists, WroteOK
<1>8. CASE /\ job' = [job EXCEPT ![Writer] = [w EXCEPT !.pc = "caller", !.saved = <<>>]]
           /\ UNCHANGED <<work, db>>
  <2> DEFINE j == [w EXCEPT !.pc = "caller", !.saved = <<>>]
  <2>1. j.pc = "caller" /\ j.saved = <<>> /\ j.op = w.op
    BY <1>2 DEF Job
  <2> HIDE DEF j
  <2>2. Place(j, open'[Writer], trusted'[Writer])
    BY <1>4, <1>6, <2>1 DEF Place
  <2>3. "caller" \in Inside /\ "caller" # "begin"
    BY DEF Inside
  <2>4. Place([w EXCEPT !.pc = "caller", !.saved = <<>>], open'[Writer], trusted'[Writer])
    BY <2>2 DEF j
  <2> QED BY <1>1, <1>2, <1>3, <1>6, <1>8, <2>3, <2>4, Lists, StepOK
<1> QED BY <1>1, <1>7, <1>8 DEF Inserts, Set

\* The checkpoint of a batch.
LEMMA SaveOK == ASSUME IInv, NEW c \in Conns, Save(c) PROVE IInv'
<1>1. c = Writer /\ job[Writer].pc \in Inside /\ job[Writer].pc = "runner"
  BY InsideIsWriter DEF Save, At, Inside
<1> DEFINE w == job[Writer]
<1>2. /\ w \in Job /\ Writer \in Conns /\ trusted \in [Conns -> BOOLEAN]
      /\ open \in [Conns -> BOOLEAN] /\ steps \in 0..MaxSteps
      /\ Place(w, open[Writer], trusted[Writer])
  BY <1>1, Working
<1>3. /\ UNCHANGED <<inMemory, guard, trusted, open, attached, stuck, last, ids, steps>>
      /\ Wrote(Writer, "commit", w.saved)
  BY <1>1 DEF Save, kept
<1>4. w.op = "fold" /\ w.saved = <<FALSE>> /\ open[Writer] /\ trusted[Writer]
  BY <1>1, <1>2 DEF Place
<1>6. \A new : /\ new.pc = "commit" /\ new.saved = w.saved /\ new.op = w.op
               => Place(new, open[Writer], trusted'[Writer])
  <2>1. trusted'[Writer]
    BY <1>3, <1>4
  <2> QED BY <1>4, <2>1 DEF Place
<1>7. w.saved \in Seq(BOOLEAN)
  BY <1>4, Lists
<1> QED BY <1>1, <1>2, <1>3, <1>4, <1>6, <1>7, WroteOK

\* The closure returns Ok.
LEMMA ReturnsOK == ASSUME IInv, NEW c \in Conns, Returns(c) PROVE IInv'
<1>1. /\ c = Writer /\ job[Writer].pc \in Inside /\ job[Writer].pc = "caller"
      /\ job[Writer].op = "txn"
  BY InsideIsWriter DEF Returns, At, Inside
<1> DEFINE w == job[Writer]
           saved == w.saved
<1>2. /\ w \in Job /\ Writer \in Conns /\ trusted \in [Conns -> BOOLEAN]
      /\ open \in [Conns -> BOOLEAN] /\ steps \in 0..MaxSteps
      /\ Place(w, open[Writer], trusted[Writer])
  BY <1>1, Working
<1>3. /\ job' = [job EXCEPT ![Writer] = [w EXCEPT !.pc = "commit"]]
      /\ UNCHANGED <<inMemory, guard, trusted, open, attached, stuck, work, db, last, ids, steps>>
  BY <1>1 DEF Returns, Set, kept
<1>4. saved \in Seq(BOOLEAN) /\ [w EXCEPT !.pc = "commit"] = [w EXCEPT !.pc = "commit", !.saved = saved]
  BY <1>2 DEF Job
<1>5. Place([w EXCEPT !.pc = "commit", !.saved = saved], open'[Writer], trusted'[Writer])
  <2> DEFINE j == [w EXCEPT !.pc = "commit", !.saved = saved]
  <2>1. j.pc = "commit" /\ j.saved = w.saved /\ j.op = "txn"
    BY <1>1, <1>2 DEF Job
  <2>2. open[Writer] /\ ~trusted[Writer] /\ w.saved = <<>> /\ open[Writer] \in BOOLEAN
    BY <1>1, <1>2 DEF Place
  <2> HIDE DEF j
  <2>3. open'[Writer] /\ ~trusted'[Writer] /\ open'[Writer] = TRUE
    BY <1>3, <2>2
  <2>4. Place(j, open'[Writer], trusted'[Writer])
    BY <2>1, <2>2, <2>3 DEF Place
  <2> QED BY <2>4 DEF j
<1>6. "commit" \in Inside /\ "commit" # "begin"
  BY DEF Inside
<1> HIDE DEF saved
<1> QED BY <1>1, <1>2, <1>3, <1>4, <1>5, <1>6, StepOK

\* What the transaction added is committed, and no other job's.
LEMMA CommitOK == ASSUME IInv, NEW c \in Conns, Commit(c) PROVE IInv'
<1>1. /\ c = Writer /\ job[Writer].pc \in Inside /\ job[Writer].pc = "commit"
  BY InsideIsWriter DEF Commit, At, Inside
<1> DEFINE w == job[Writer]
           j == [w EXCEPT !.pc = "leave", !.saved = <<>>]
<1>2. /\ w \in Job /\ Writer \in Conns /\ trusted \in [Conns -> BOOLEAN]
      /\ open \in [Conns -> BOOLEAN] /\ steps \in 0..MaxSteps /\ w.tag = "ok"
      /\ DataFine(w, work, db, last, ids) /\ work = db \cup w.did
  BY <1>1, Working
<1>3. /\ job' = [job EXCEPT ![Writer] = j] /\ db' = work /\ work' = work
      /\ open' = [open EXCEPT ![Writer] = FALSE] /\ trusted' = [trusted EXCEPT ![Writer] = FALSE]
      /\ UNCHANGED <<inMemory, guard, attached, stuck, last, ids, steps>>
  BY <1>1 DEF Commit, Set
<1>4. /\ j \in Job /\ j.pc = "leave" /\ j.did = w.did /\ j.id = w.id /\ j.op = w.op
      /\ j.tag = "ok" /\ j.saved = <<>>
  BY <1>2, Lists DEF Job
<1> HIDE DEF j
<1>5. /\ trusted' \in [Conns -> BOOLEAN] /\ open' \in [Conns -> BOOLEAN]
      /\ ~trusted'[Writer] /\ ~open'[Writer]
      /\ \A d \in Conns : d # Writer => trusted'[d] = trusted[d] /\ open'[d] = open[d]
  BY <1>2, <1>3
<1>6. Place(j, open'[Writer], trusted'[Writer])
  BY <1>4, <1>5 DEF Place
<1>7. DataFine(j, work', db', last, ids)
  <2>1. /\ \A t \in w.did : t.job = w.id
        /\ \A t \in db : t.job <= ids
        /\ \A t \in last.did : t.job <= ids /\ t.job # w.id
        /\ work \cup db \subseteq Token
        /\ last.did \subseteq Token
        /\ last.tag = "ok" => last.did \subseteq db
        /\ last.tag = "error" => last.did \cap db = {}
    BY <1>1, <1>2 DEF DataFine
  <2>2. w.id <= ids
    BY <1>2, Known
  <2>3. j.pc \notin Inside /\ j.pc # "idle"
    BY <1>4 DEF Inside
  <2>4. \A t \in db' : t.job <= ids
    BY <1>2, <1>3, <2>1, <2>2
  <2>5. last.tag = "error" => last.did \cap db' = {}
    BY <1>2, <1>3, <2>1
  <2>6. /\ last.tag = "ok" => last.did \subseteq db'
        /\ j.did \subseteq db' /\ work' = db' /\ work' \cup db' \subseteq Token
        /\ \A t \in j.did : t.job = j.id
        /\ \A t \in last.did : t.job <= ids /\ t.job # j.id
    BY <1>2, <1>3, <1>4, <2>1
  <2> QED BY <1>4, <2>1, <2>3, <2>4, <2>5, <2>6 DEF DataFine
<1> QED BY <1>1, <1>2, <1>3, <1>4, <1>5, <1>6, <1>7, BodyMoves

-----------------------------------------------------------------------------
(* Jobs end.                                                               *)

\* A query that leaves the transaction alone only reads.
LEMMA RunsOnlyRead ==
  ASSUME NEW c \in Conns, NEW q, Runs(q), q.st.verb \notin Controls, ~open[c], Does(c, q.st)
  PROVE  UNCHANGED <<work, db, open, attached>>
<1>1. q.st.verb \in {"Select", "PragmaRead", "PragmaDescribe", "RollbackTo"}
  BY DEF Runs, Authorize, ReadOnly, Outside, Pragmas
<1>2. Writes(q.st) = {}
  BY <1>1 DEF Writes, Reshapes, CreatesInMain, CreatesInTemp, OtherDrops
<1> QED BY <1>1, <1>2 DEF Does

\* A query is answered, and nothing of its statement stays.
LEMMA AnswersReads ==
  ASSUME IInv, Tame, NEW c \in Conns, NEW q \in Queries, Answers(c, q)
  PROVE  UNCHANGED <<work, db, open, attached>>
<1>1. job[c].pc = "query" /\ Place(job[c], open[c], trusted[c])
  BY Known DEF Answers, At
<1>2. ~open[c]
  BY <1>1 DEF Place
<1>3. q.st.verb \notin Controls
  BY DEF Tame
<1>4. (Runs(q) /\ Does(c, q.st)) \/ UNCHANGED <<work, db, open, attached>>
  BY DEF Answers
<1> QED BY <1>2, <1>3, <1>4, RunsOnlyRead

\* What a query may answer.
LEMMA Answerable ==
  ASSUME NEW q
  PROVE  {Answered(q), "error"} \cup Late(q)
           \subseteq {"rows", "error", "Unsupported", "Validation", "Timeout"}
BY DEF Answered, Late

\* The job of a query ends with its answer.
LEMMA AnswersOK ==
  ASSUME IInv, Tame, NEW c \in Conns, NEW q \in Queries, Answers(c, q) PROVE IInv'
<1> DEFINE w == job[c]
<1>1. PICK tag \in {"rows", "error", "Unsupported", "Validation", "Timeout"} :
        job' = [job EXCEPT ![c] = [w EXCEPT !.pc = "leave", !.tag = tag]]
  BY Answerable DEF Answers, Set
<1> DEFINE j == [w EXCEPT !.pc = "leave", !.tag = tag]
<1>2. /\ w.pc = "query" /\ w \in Job /\ ConnsOK /\ attached[c] = FALSE
      /\ ConnFine(c, w, guard[c], trusted[c], open[c], stuck[c], ids)
      /\ ids \in 0..MaxJobs /\ ids \in Nat /\ w.id <= ids
  BY Known DEF Answers, At
<1>3. /\ w.op = "query" /\ ~open[c] /\ ~trusted[c] /\ w.saved = <<>> /\ guard[c] /\ w.did = {}
  BY <1>2 DEF ConnFine, Place
<1>6. /\ attached' = attached /\ open' = open
      /\ UNCHANGED <<inMemory, guard, trusted, stuck, work, db, last, ids, steps>>
  BY AnswersReads DEF Answers
<1>7. /\ j \in Job /\ j.pc = "leave" /\ j.did = {} /\ j.id = w.id /\ j.op = "query"
      /\ j.saved = <<>> /\ j.tag \in {"rows", "error", "Unsupported", "Validation", "Timeout"}
  BY <1>2, <1>3 DEF Job
<1> HIDE DEF j
<1>8. /\ job' \in [Conns -> Job] /\ job'[c] = j
      /\ \A d \in Conns : d # c => job'[d] = job[d]
  BY <1>1, <1>2, <1>7 DEF ConnsOK, j
<1>9. ConnsOK'
  <2>1. Place(job'[c], open'[c], trusted'[c])
    BY <1>3, <1>6, <1>7, <1>8 DEF Place
  <2>2. ConnFine(c, job'[c], guard'[c], trusted'[c], open'[c], stuck'[c], ids')
    <3>1. guard'[c] = guard[c] /\ trusted'[c] = trusted[c] /\ open'[c] = open[c]
          /\ stuck'[c] = stuck[c] /\ ids' = ids
      BY <1>6
    <3>2. /\ guard[c] \in BOOLEAN /\ trusted[c] \in BOOLEAN /\ open[c] \in BOOLEAN
          /\ stuck[c] \in BOOLEAN
      BY <1>2 DEF ConnFine
    <3> QED BY <1>2, <1>3, <1>7, <1>8, <2>1, <3>1, <3>2 DEF ConnFine
  <2> QED BY <1>2, <1>6, <1>8, <2>2, ConnMoves DEF ConnsOK
<1>10. DataFine(job[Writer], work, db, last, ids)'
  <2>1. Writer \in Conns
    BY DEF Conns
  <2>2. CASE c # Writer
    BY <1>2, <1>6, <1>8, <2>1, <2>2, DataStays
  <2>3. CASE c = Writer
    <3>1. DataFine(w, work, db, last, ids)
      BY <2>3 DEF IInv
    <3>2. DataFine(j, work, db, last, ids)
      <4>1. w.pc \notin Inside /\ j.pc \notin Inside /\ j.pc = "leave" /\ j.tag # "ok"
        BY <1>2, <1>7 DEF Inside
      <4> QED BY <1>2, <1>7, <3>1, <4>1 DEF DataFine
    <3>3. job'[Writer] = j /\ work' = work /\ db' = db /\ last' = last /\ ids' = ids
      BY <1>6, <1>8, <2>3
    <3> QED BY <3>2, <3>3
  <2> QED BY <2>2, <2>3
<1> QED BY <1>6, <1>9, <1>10 DEF IInv

\* The authorizer comes off, or stays and is remembered.
LEMMA RemovesOK ==
  ASSUME IInv, NEW c \in Conns, Remove(c) \/ RemoveFails(c) PROVE IInv'
<1> DEFINE w == job[c]
<1>1. /\ w.pc = "leave" /\ job' = [job EXCEPT ![c] = None]
      /\ trusted' = [trusted EXCEPT ![c] = FALSE]
      /\ last'.did = w.did /\ last'.tag \in {w.tag, "stuck"}
      /\ UNCHANGED <<inMemory, open, attached, work, db, ids, steps>>
  BY DEF Remove, RemoveFails, At, Set
<1>2. /\ w \in Job /\ ConnsOK /\ ids \in 0..MaxJobs /\ ids \in Nat /\ w.id <= ids
      /\ ConnFine(c, w, guard[c], trusted[c], open[c], stuck[c], ids)
  BY Known
<1>3. ~open[c]
  BY <1>1, <1>2 DEF ConnFine, Place
<1>4. /\ guard' \in [Conns -> BOOLEAN] /\ stuck' \in [Conns -> BOOLEAN]
      /\ guard'[c] => stuck'[c]
      /\ \A d \in Conns : d # c => guard'[d] = guard[d] /\ stuck'[d] = stuck[d]
  <2>1. \/ guard' = [guard EXCEPT ![c] = FALSE] /\ stuck' = [stuck EXCEPT ![c] = FALSE]
        \/ guard' = guard /\ stuck' = [stuck EXCEPT ![c] = TRUE]
    BY DEF Remove, RemoveFails, Set
  <2>2. guard \in [Conns -> BOOLEAN] /\ stuck \in [Conns -> BOOLEAN]
    BY <1>2 DEF ConnsOK
  <2> QED BY <2>1, <2>2
<1>5. None \in Job /\ None.id = 0 /\ None.pc = "idle" /\ None.did = {} /\ None.tag = "ok" /\ None.op = "none"
  BY Lists, HatchAssumption DEF None, Job
<1>6. /\ job' \in [Conns -> Job] /\ trusted' \in [Conns -> BOOLEAN] /\ open' \in [Conns -> BOOLEAN]
      /\ job'[c] = None /\ ~trusted'[c] /\ ~open'[c]
      /\ \A d \in Conns : d # c => /\ job'[d] = job[d] /\ trusted'[d] = trusted[d]
                                   /\ open'[d] = open[d]
  BY <1>1, <1>2, <1>3, <1>5 DEF ConnsOK
<1>7. ConnsOK'
  <2>1. Place(job'[c], open'[c], trusted'[c])
    BY <1>5, <1>6 DEF Place
  <2>2. ConnFine(c, job'[c], guard'[c], trusted'[c], open'[c], stuck'[c], ids')
    <3>1. /\ guard'[c] \in BOOLEAN /\ trusted'[c] \in BOOLEAN /\ open'[c] \in BOOLEAN
          /\ stuck'[c] \in BOOLEAN /\ ids' = ids /\ 0 <= ids
      BY <1>1, <1>2, <1>4, <1>6
    <3> QED BY <1>4, <1>5, <1>6, <2>1, <3>1 DEF ConnFine
  <2> QED BY <1>1, <1>2, <1>4, <1>6, <2>2, ConnMoves DEF ConnsOK
<1>8. DataFine(job[Writer], work, db, last, ids)'
  <2>1. Writer \in Conns
    BY DEF Conns
  <2>2. CASE c # Writer
    <3>1. last'.did = {}
      BY <1>1, <1>2, <2>2, ReadersWriteNothing
    <3> QED BY <1>1, <1>2, <1>6, <2>1, <2>2, <3>1, DataStays
  <2>3. CASE c = Writer
    <3>1. DataFine(w, work, db, last, ids)
      BY <2>3 DEF IInv
    <3>2. w.pc \notin Inside
      BY <1>1 DEF Inside
    <3>3. \A t \in w.did : t \in Token /\ t.job <= ids
      BY <1>2, <3>1 DEF Job, DataFine
    <3>4. None.pc \notin Inside /\ None.pc = "idle" /\ None.did = {}
      BY <1>5 DEF Inside
    <3>5. /\ last'.tag = "ok" => w.tag = "ok" /\ w.did \subseteq db
          /\ last'.tag = "error" => w.tag = "error" /\ w.did \cap db = {}
      BY <1>1, <3>1 DEF DataFine
    <3>6. DataFine(None, work, db, last', ids)
      BY <1>1, <3>1, <3>2, <3>3, <3>4, <3>5 DEF DataFine
    <3>7. job'[Writer] = None /\ work' = work /\ db' = db /\ ids' = ids
      BY <1>1, <1>6, <2>3
    <3> QED BY <3>6, <3>7
  <2> QED BY <2>2, <2>3
<1> QED BY <1>1, <1>7, <1>8 DEF IInv

-----------------------------------------------------------------------------
(* The invariant is inductive.                                             *)

\* The log is opened with every connection between jobs.
LEMMA InitOK == Init => IInv
<1> SUFFICES ASSUME Init PROVE IInv
  OBVIOUS
<1>1. /\ inMemory \in BOOLEAN /\ job = [c \in Conns |-> None]
      /\ guard = [c \in Conns |-> FALSE] /\ trusted = [c \in Conns |-> FALSE]
      /\ open = [c \in Conns |-> FALSE] /\ stuck = [c \in Conns |-> FALSE]
      /\ attached = [c \in Conns |-> FALSE]
      /\ work = {} /\ db = {} /\ last.did = {} /\ ids = 0 /\ steps = 0
  BY DEF Init, NoAnswer
<1>2. 0 \in 0..MaxJobs /\ 0 \in 0..MaxSteps
  BY HatchAssumption
<1>3. /\ None \in Job /\ None.id = 0 /\ None.pc = "idle" /\ None.did = {} /\ None.tag = "ok"
      /\ None.op = "none"
  BY <1>2, Lists DEF None, Job
<1>4. ConnsOK
  <2>1. ASSUME NEW c \in Conns
        PROVE  ConnFine(c, None, FALSE, FALSE, FALSE, FALSE, 0)
    BY <1>3 DEF ConnFine, Place
  <2>2. ASSUME NEW c \in Conns
        PROVE  ConnFine(c, job[c], guard[c], trusted[c], open[c], stuck[c], ids)
    <3>1. /\ job[c] = None /\ guard[c] = FALSE /\ trusted[c] = FALSE /\ open[c] = FALSE
          /\ stuck[c] = FALSE /\ ids = 0
      BY <1>1
    <3> QED BY <2>1, <3>1
  <2>3. /\ guard \in [Conns -> BOOLEAN] /\ trusted \in [Conns -> BOOLEAN]
        /\ open \in [Conns -> BOOLEAN] /\ stuck \in [Conns -> BOOLEAN]
        /\ job \in [Conns -> Job]
    BY <1>1, <1>3
  <2> QED BY <1>1, <1>2, <2>2, <2>3 DEF ConnsOK
<1>5. DataFine(job[Writer], work, db, last, ids)
  <2>1. job[Writer] = None
    BY <1>1 DEF Conns
  <2> QED BY <1>1, <1>3, <2>1 DEF DataFine, Inside
<1> QED BY <1>1, <1>2, <1>4, <1>5 DEF IInv

\* Nothing of the state changes.
LEMMA StutterOK == ASSUME IInv, UNCHANGED vars PROVE IInv'
<1>1. /\ UNCHANGED <<inMemory, guard, trusted, open, attached, stuck>>
      /\ UNCHANGED <<job, work, db, last, ids, steps>>
  BY DEF vars, kept
<1>2. ConnsOK'
  BY <1>1 DEF IInv, ConnsOK
<1>3. DataFine(job[Writer], work, db, last, ids)'
  BY <1>1 DEF IInv
<1> QED BY <1>1, <1>2, <1>3 DEF IInv

\* Every step of every job keeps it.
LEMMA NextOK == ASSUME Tame, IInv, [Next]_vars PROVE IInv'
<1>1. CASE StoreWrite
  BY <1>1, StoreWriteOK
<1>2. CASE Transact \/ Fold \/ \E c \in Conns : Ask(c)
  BY <1>2, TakesOK
<1>3. ASSUME NEW c \in Conns, InstallFails(c) PROVE IInv'
  BY <1>3, InstallFailsOK
<1>4. ASSUME NEW c \in Conns, Body(c) PROVE IInv'
  <2>1. CASE Begin(c)
    BY <2>1, BeginOK
  <2>2. CASE BeginFails(c) \/ CommitFails(c) \/ GivesUp(c)
    BY <2>2, LeavesOK
  <2>3. ASSUME NEW st \in Statements, Run(c, st) PROVE IInv'
    BY <2>3, RunOK
  <2>4. CASE Raise(c) \/ Callback(c) \/ CallbackReturns(c)
    BY <2>4, TrustOK
  <2>5. CASE Inserts(c)
    BY <2>5, InsertsOK
  <2>6. CASE Save(c)
    BY <2>6, SaveOK
  <2>7. CASE Returns(c)
    BY <2>7, ReturnsOK
  <2>8. CASE Commit(c)
    BY <2>8, CommitOK
  <2> QED BY <1>4, <2>1, <2>2, <2>3, <2>4, <2>5, <2>6, <2>7, <2>8 DEF Body
<1>5. ASSUME NEW c \in Conns, NEW q \in Queries, Answers(c, q) PROVE IInv'
  BY <1>5, AnswersOK
<1>6. ASSUME NEW c \in Conns, Remove(c) \/ RemoveFails(c) PROVE IInv'
  BY <1>6, RemovesOK
<1>7. CASE UNCHANGED vars
  BY <1>7, StutterOK
<1> QED BY <1>1, <1>2, <1>3, <1>4, <1>5, <1>6, <1>7 DEF Next

\* Where a job stands decides its connection's transaction, trust and what the
\* guards of trust put back, for any tame caller code.
THEOREM Invariance == ASSUME Tame PROVE Spec => []IInv
<1>1. IInv /\ [Next]_vars => IInv'
  BY NextOK
<1> QED BY <1>1, InitOK, PTL DEF Spec

-----------------------------------------------------------------------------
(* What follows from it.                                                   *)

\* A connection between two jobs has no transaction, no trust, no foreign database,
\* and no authorizer that could have been removed.
THEOREM ConnectionsComeBack == ASSUME Tame PROVE Spec => []NothingOutlivesAJob
<1>1. ASSUME IInv PROVE NothingOutlivesAJob
  <2> SUFFICES ASSUME NEW c \in Conns, At(c, "idle")
               PROVE  ~open[c] /\ ~trusted[c] /\ ~attached[c] /\ (guard[c] => stuck[c])
    BY DEF NothingOutlivesAJob
  <2>1. ConnFine(c, job[c], guard[c], trusted[c], open[c], stuck[c], ids) /\ ~attached[c]
    BY <1>1, Known
  <2> QED BY <2>1 DEF ConnFine, Place, At
<1> QED BY <1>1, Invariance, PTL

\* A transaction that answers Ok has all it wrote committed, and one that answers an
\* error of its body has none of it.
THEOREM WholeOrNotAtAll == ASSUME Tame PROVE Spec => []AllOrNothing
<1>1. ASSUME IInv PROVE AllOrNothing
  BY <1>1 DEF IInv, DataFine, AllOrNothing
<1> QED BY <1>1, Invariance, PTL

-----------------------------------------------------------------------------
(* Trust, whatever caller code does to its transaction.                    *)

\* Where a job of a kind may be, with the trust its connection then has and the
\* values the guards of trust put back.
Allowed(pc, op, saved, t) ==
  \/ pc \in {"idle", "query", "leave"} /\ ~t /\ saved = <<>>
  \/ pc \in {"begin", "caller", "commit"} /\ op = "txn" /\ ~t /\ saved = <<>>
  \/ pc = "crate" /\ op = "txn" /\ t /\ saved = <<FALSE>>
  \/ pc \in {"begin", "runner", "commit"} /\ op = "fold" /\ t /\ saved = <<FALSE>>
  \/ pc = "caller" /\ op = "fold" /\ ~t /\ saved = <<FALSE, TRUE>>

Trust(j, t) == Allowed(j.pc, j.op, j.saved, t)

\* The flags of the connections, and the counters.
Flags ==
  /\ inMemory \in BOOLEAN /\ steps \in 0..MaxSteps /\ ids \in 0..MaxJobs
  /\ guard \in [Conns -> BOOLEAN] /\ open \in [Conns -> BOOLEAN]
  /\ attached \in [Conns -> BOOLEAN] /\ stuck \in [Conns -> BOOLEAN]

\* There is an alias a write may have gone to: made before it, and gone no sooner.
Missed(t, w, d) ==
  \E a \in w : a.reached = "alias" /\ (t \in d => a \in d) /\ (a \in d \/ a.n <= t.n)

\* A write of the caller's is in its own tables or makes an alias; one of the
\* crate's is in the log, or goes astray behind an alias.
Proper(t, w, d) ==
  /\ t.by = "caller" => t.reached \in {"own", "alias"}
  /\ t.by = "crate" => t.reached = "log" \/ (t.reached = "astray" /\ Missed(t, w, d))

\* What the writer's connection sees, what of it is committed, and the count of steps.
Sound(w, d, n) ==
  /\ d \subseteq w /\ w \subseteq Token
  /\ \A t \in w : t.n <= n
  /\ \A t \in w : Proper(t, w, d)

\* What is written is sound.
Written == Sound(work, db, steps) /\ last.did \subseteq Token

Trusts ==
  /\ job \in [Conns -> Job] /\ trusted \in [Conns -> BOOLEAN]
  /\ \A c \in Conns : Trust(job[c], trusted[c])

GInv == Flags /\ Written /\ Trusts

\* Time passes.
LEMMA SoundLater ==
  ASSUME NEW w, NEW d, NEW n \in Nat, NEW m \in Nat, n <= m, Sound(w, d, n)
  PROVE  Sound(w, d, m)
<1>1. \A t \in w : t.n \in Nat
  BY DEF Sound, Token
<1> QED BY <1>1 DEF Sound

\* A write joins the others, in the transaction or committed with them.
LEMMA SoundAdds ==
  ASSUME NEW w, NEW d, NEW n \in Nat, Sound(w, d, n), NEW token \in Token, token.n = n,
         \/ token.by = "caller" /\ token.reached \in {"own", "alias"}
         \/ token.by = "crate" /\ token.reached \in Reaches(w),
         NEW v, v = w \cup {token}, NEW e, e = d \/ e = v
  PROVE  Sound(v, e, n)
<1>1. d \subseteq w /\ w \subseteq Token /\ (\A t \in w : t.n <= n)
      /\ \A t \in w : Proper(t, w, d)
  BY DEF Sound
<1>2. e \subseteq v /\ v \subseteq Token /\ \A t \in v : t.n <= n
  BY <1>1
<1>3. ASSUME NEW t \in v, NEW a \in w, a.reached = "alias", t \in d => a \in d,
             a \in d \/ a.n <= t.n
      PROVE  Missed(t, v, e)
  <2>1. CASE e = d
    BY <1>3, <2>1 DEF Missed
  <2>2. CASE e = v
    BY <1>3, <2>2 DEF Missed
  <2> QED BY <2>1, <2>2
<1>4. ASSUME NEW t \in w PROVE Proper(t, v, e)
  <2>1. ASSUME Missed(t, w, d) PROVE Missed(t, v, e)
    <3>1. PICK a \in w : a.reached = "alias" /\ (t \in d => a \in d) /\ (a \in d \/ a.n <= t.n)
      BY <2>1 DEF Missed
    <3>2. t \in v
      BY <1>4
    <3> QED BY <1>3, <3>1, <3>2
  <2> QED BY <1>1, <2>1 DEF Proper
<1>5. CASE token \in w
  BY <1>2, <1>4, <1>5 DEF Sound
<1>6. CASE token \notin w
  <2>1. ASSUME token.by = "crate", token.reached = "astray" PROVE Missed(token, v, e)
    <3>1. token.reached \in Reaches(w)
      BY <2>1
    <3>2. PICK a \in w : a.reached \in {"shadow", "alias"}
      BY <2>1, <3>1 DEF Reaches
    <3>3. a.reached = "alias"
      BY <1>1, <3>2 DEF Proper, Token
    <3>4. a.n <= token.n /\ token \notin d /\ token \in v
      BY <1>1, <1>6
    <3> QED BY <1>3, <3>3, <3>4
  <2>2. token.by = "crate" => token.reached \in {"log", "astray"}
    BY CrateReaches
  <2>3. Proper(token, v, e)
    BY <2>1, <2>2 DEF Proper
  <2> QED BY <1>2, <1>4, <2>3 DEF Sound
<1> QED BY <1>5, <1>6

\* The transaction is committed, rolled back, or rolled back to a savepoint.
LEMMA SoundEnds ==
  ASSUME NEW w, NEW d, NEW n, Sound(w, d, n)
  PROVE  Sound(w, w, n) /\ Sound(d, d, n)
<1>1. d \subseteq w /\ w \subseteq Token /\ (\A t \in w : t.n <= n)
      /\ \A t \in w : Proper(t, w, d)
  BY DEF Sound
<1>2. ASSUME NEW t \in w PROVE Proper(t, w, w)
  <2>1. Missed(t, w, d) => Missed(t, w, w)
    BY DEF Missed
  <2> QED BY <1>1, <2>1 DEF Proper
<1>3. ASSUME NEW t \in d PROVE Proper(t, d, d)
  <2>1. Missed(t, w, d) => Missed(t, d, d)
    BY <1>3 DEF Missed
  <2> QED BY <1>1, <2>1 DEF Proper
<1> QED BY <1>1, <1>2, <1>3 DEF Sound

LEMMA SoundRollsBackTo ==
  ASSUME NEW w, NEW d, NEW n \in Nat, Sound(w, d, n), NEW m \in Nat,
         NEW v, v = d \cup {t \in w : t.n < m}
  PROVE  Sound(v, d, n)
<1>1. d \subseteq w /\ w \subseteq Token /\ (\A t \in w : t.n <= n)
      /\ \A t \in w : Proper(t, w, d)
  BY DEF Sound
<1>2. ASSUME NEW t \in v PROVE Proper(t, v, d)
  <2>1. t \in w /\ (t \in d \/ t.n < m)
    BY <1>1, <1>2
  <2>2. ASSUME Missed(t, w, d) PROVE Missed(t, v, d)
    <3>1. PICK a \in w : a.reached = "alias" /\ (t \in d => a \in d) /\ (a \in d \/ a.n <= t.n)
      BY <2>2 DEF Missed
    <3>2. a.n \in Nat /\ t.n \in Nat
      BY <1>1, <2>1 DEF Token
    <3>3. a \in v
      BY <2>1, <3>1, <3>2
    <3> QED BY <3>1, <3>3 DEF Missed
  <2> QED BY <1>1, <2>1, <2>2 DEF Proper
<1> QED BY <1>1, <1>2 DEF Sound

\* One connection's job moves on, and is trusted as it should be.
LEMMA TrustMoves ==
  ASSUME Trusts, NEW c \in Conns, NEW j \in Job, NEW t \in BOOLEAN, Trust(j, t),
         job' = [job EXCEPT ![c] = j], trusted' = [trusted EXCEPT ![c] = t]
  PROVE  Trusts'
<1>1. /\ job' \in [Conns -> Job] /\ trusted' \in [Conns -> BOOLEAN]
      /\ \A d \in Conns : /\ job'[d] = IF d = c THEN j ELSE job[d]
                          /\ trusted'[d] = IF d = c THEN t ELSE trusted[d]
  BY DEF Trusts
<1>2. ASSUME NEW d \in Conns PROVE Trust(job'[d], trusted'[d])
  <2>1. CASE d = c
    <3>1. job'[d] = j /\ trusted'[d] = t
      BY <1>1, <2>1
    <3> QED BY <3>1
  <2>2. CASE d # c
    <3>1. job'[d] = job[d] /\ trusted'[d] = trusted[d]
      BY <1>1, <2>2
    <3> QED BY <3>1 DEF Trusts
  <2> QED BY <2>1, <2>2
<1> QED BY <1>1, <1>2 DEF Trusts

\* The job of a connection moves to another place.
Goes(c, pc, saved) ==
  \E j \in Job : /\ j.pc = pc /\ j.op = job[c].op /\ j.saved = saved
                 /\ job' = [job EXCEPT ![c] = j]

\* It is trusted as it should be there.
LEMMA GoesOn ==
  ASSUME Trusts, NEW c \in Conns, NEW pc, NEW saved, NEW t \in BOOLEAN, Goes(c, pc, saved),
         Allowed(pc, job[c].op, saved, t), trusted' = [trusted EXCEPT ![c] = t]
  PROVE  Trusts'
<1>1. PICK j \in Job : /\ j.pc = pc /\ j.op = job[c].op /\ j.saved = saved
                       /\ job' = [job EXCEPT ![c] = j]
  BY DEF Goes
<1>2. Trust(j, t)
  BY <1>1 DEF Trust
<1> QED BY <1>1, <1>2, TrustMoves

\* The caller stores what is proper.
LEMMA CallerStores ==
  ASSUME Flags, Written, Trusts, NEW c \in Conns, NEW reached \in {"own", "alias"},
         Stores(c, "caller", reached)
  PROVE  Sound(work', db', steps)
<1>1. job[c].id \in Nat /\ steps \in Nat /\ Sound(work, db, steps)
  BY HatchAssumption DEF Trusts, Job, Flags, Written
<1>2. PICK token \in Token :
        /\ token.n = steps /\ token.by = "caller" /\ token.reached = reached
        /\ work' = work \cup {token} /\ db' = IF open[c] THEN db ELSE work'
  BY <1>1, Stored
<1> QED BY <1>1, <1>2, SoundAdds

\* So does the crate, in a job that goes on.
LEMMA CrateStores ==
  ASSUME Flags, Written, Trusts, NEW c \in Conns, NEW pc, NEW saved \in Seq(BOOLEAN),
         pc \in {"caller", "commit"}, Wrote(c, pc, saved)
  PROVE  Sound(work', db', steps) /\ Goes(c, pc, saved)
<1> DEFINE w == job[c]
           did == w.did \cup (work' \ work)
           j == [w EXCEPT !.pc = pc, !.saved = saved, !.did = did]
<1>1. w \in Job /\ w.id \in Nat /\ steps \in Nat /\ Sound(work, db, steps)
  BY HatchAssumption DEF Trusts, Job, Flags, Written
<1>2. /\ \E reached \in Reaches(work) : Stores(c, "crate", reached)
      /\ job' = [job EXCEPT ![c] = j]
  BY DEF Wrote, Set
<1>3. PICK token \in Token :
        /\ token.n = steps /\ token.by = "crate" /\ token.reached \in Reaches(work)
        /\ work' = work \cup {token} /\ db' = IF open[c] THEN db ELSE work'
  BY <1>1, <1>2, CrateReaches, Stored
<1>4. Sound(work', db', steps)
  BY <1>1, <1>3, SoundAdds
<1>5. did \in SUBSET Token
  BY <1>1, <1>3 DEF Job
<1> HIDE DEF did
<1>6. j \in Job /\ j.pc = pc /\ j.op = w.op /\ j.saved = saved
  BY <1>1, <1>5 DEF Job
<1> HIDE DEF j
<1>7. Goes(c, pc, saved)
  BY <1>2, <1>6 DEF Goes
<1> QED BY <1>4, <1>7

\* What is known of a job.
LEMMA Kept ==
  ASSUME Trusts, NEW c \in Conns
  PROVE  /\ job[c] \in Job /\ Trust(job[c], trusted[c]) /\ trusted[c] \in BOOLEAN
         /\ job[c].did \in SUBSET Token /\ job[c].saved \in Seq(BOOLEAN)
         /\ trusted = [trusted EXCEPT ![c] = trusted[c]]
<1>1. job[c] \in Job /\ Trust(job[c], trusted[c]) /\ trusted[c] \in BOOLEAN
  BY DEF Trusts
<1>2. trusted = [trusted EXCEPT ![c] = trusted[c]]
  BY DEF Trusts
<1>3. job[c].did \in SUBSET Token /\ job[c].saved \in Seq(BOOLEAN)
  BY <1>1 DEF Job
<1> QED BY <1>1, <1>2, <1>3

\* Jobs begin and end.
LEMMA EndsTrusted ==
  ASSUME GInv, \/ StoreWrite \/ Transact \/ Fold
               \/ \E c \in Conns : Ask(c) \/ InstallFails(c) \/ Remove(c) \/ RemoveFails(c)
  PROVE  GInv'
<1>1. Flags /\ Written /\ Trusts /\ Writer \in Conns
  BY DEF GInv, Conns
<1>2. ids \in 0..MaxJobs /\ MaxJobs \in Nat /\ ids \in Nat
  BY <1>1, HatchAssumption DEF Flags
<1>3. ASSUME NEW c \in Conns, Takes(c) PROVE ids' \in 0..MaxJobs
  BY <1>2, <1>3 DEF Takes
<1>4. CASE StoreWrite
  <2>1. steps \in Nat /\ Sound(work, db, steps)
    BY <1>1, HatchAssumption DEF Flags, Written
  <2>2. Sound(work', db', steps) /\ last'.did \subseteq Token
    <3>1. CASE db' = db /\ work' = work /\ last'.did = {}
      BY <2>1, <3>1
    <3>2. ASSUME NEW token \in Token, token.n = steps, token.by = "crate",
                 token.reached \in Reaches(db), db' = db \cup {token}, work' = db',
                 last'.did = db' \ db
          PROVE  Sound(work', db', steps) /\ last'.did \subseteq Token
      <4>1. Sound(db, db, steps)
        BY <2>1, SoundEnds
      <4>2. Sound(work', db', steps)
        BY <2>1, <3>2, <4>1, SoundAdds
      <4> QED BY <3>2, <4>2
    <3> QED BY <1>2, <1>4, <2>1, <3>1, <3>2, StoreWriteDoes
  <2>3. UNCHANGED <<inMemory, guard, trusted, open, attached, stuck, job, steps>> /\ ids' \in 0..MaxJobs
    BY <1>1, <1>3, <1>4 DEF StoreWrite, kept
  <2> QED BY <1>1, <2>2, <2>3 DEF GInv, Flags, Written, Trusts
<1>5. ASSUME NEW c \in Conns, NEW new, NEW flag, Install(c, new, flag),
             \/ new = [None EXCEPT !.op = "txn", !.pc = "begin"] /\ flag = FALSE
             \/ new = [None EXCEPT !.op = "fold", !.pc = "begin", !.saved = <<FALSE>>] /\ flag = TRUE
             \/ new = [None EXCEPT !.op = "query", !.pc = "query"] /\ flag = FALSE
      PROVE  GInv'
  <2> DEFINE j == [new EXCEPT !.id = ids + 1]
  <2>1. /\ guard' = [guard EXCEPT ![c] = TRUE] /\ trusted' = [trusted EXCEPT ![c] = flag]
        /\ job' = [job EXCEPT ![c] = j] /\ ids' = ids + 1 /\ ids' \in 0..MaxJobs
        /\ UNCHANGED <<inMemory, open, attached, stuck, work, db, last, steps>>
    BY <1>3, <1>5 DEF Install, Takes, Set
  <2>2. j \in Job /\ Trust(j, flag) /\ flag \in BOOLEAN
    <3>1. ids' \in 0..MaxJobs /\ ids' = ids + 1
      BY <2>1
    <3>2. CASE new = [None EXCEPT !.op = "txn", !.pc = "begin"] /\ flag = FALSE
      <4>1. j \in Job /\ flag \in BOOLEAN
        BY <3>1, <3>2, Lists DEF None, Job
      <4>2. Trust(j, flag)
        BY <3>1, <3>2 DEF None, Trust, Allowed
      <4> QED BY <4>1, <4>2
    <3>3. CASE new = [None EXCEPT !.op = "fold", !.pc = "begin", !.saved = <<FALSE>>] /\ flag = TRUE
      <4>1. j \in Job /\ flag \in BOOLEAN
        BY <3>1, <3>3, Lists DEF None, Job
      <4>2. Trust(j, flag)
        BY <3>1, <3>3 DEF None, Trust, Allowed
      <4> QED BY <4>1, <4>2
    <3>4. CASE new = [None EXCEPT !.op = "query", !.pc = "query"] /\ flag = FALSE
      <4>1. j \in Job /\ flag \in BOOLEAN
        BY <3>1, <3>4, Lists DEF None, Job
      <4>2. Trust(j, flag)
        BY <3>1, <3>4 DEF None, Trust, Allowed
      <4> QED BY <4>1, <4>2
    <3> QED BY <1>5, <3>2, <3>3, <3>4
  <2> HIDE DEF j
  <2>3. Trusts'
    BY <1>1, <2>1, <2>2, TrustMoves
  <2>4. Flags'
    BY <1>1, <2>1 DEF Flags
  <2>5. Written'
    BY <1>1, <2>1 DEF Written
  <2> QED BY <2>3, <2>4, <2>5 DEF GInv
<1>6. CASE Transact \/ Fold \/ \E c \in Conns : Ask(c)
  BY <1>1, <1>5, <1>6 DEF Transact, Fold, Ask
<1>7. ASSUME NEW c \in Conns, InstallFails(c) PROVE GInv'
  <2>1. /\ ids' \in 0..MaxJobs /\ last'.did = {}
        /\ UNCHANGED <<inMemory, guard, trusted, open, attached, stuck, job, work, db, steps>>
    BY <1>3, <1>7 DEF InstallFails, kept
  <2> QED BY <1>1, <2>1 DEF GInv, Flags, Written, Trusts
<1>8. ASSUME NEW c \in Conns, Remove(c) \/ RemoveFails(c) PROVE GInv'
  <2>1. /\ job' = [job EXCEPT ![c] = None] /\ trusted' = [trusted EXCEPT ![c] = FALSE]
        /\ last'.did = job[c].did /\ UNCHANGED <<inMemory, open, attached, work, db, ids, steps>>
    BY <1>8 DEF Remove, RemoveFails, Set
  <2>2. None \in Job /\ Trust(None, FALSE)
    <3>1. 0 \in 0..MaxJobs
      BY <1>2
    <3> QED BY <3>1, Lists DEF None, Job, Trust, Allowed
  <2>3. Trusts'
    BY <1>1, <2>1, <2>2, TrustMoves
  <2>4. job[c].did \in SUBSET Token
    BY <1>1, Kept
  <2>5. Written'
    BY <1>1, <2>1, <2>4 DEF Written
  <2>6. guard' \in [Conns -> BOOLEAN] /\ stuck' \in [Conns -> BOOLEAN]
    <3>1. guard \in [Conns -> BOOLEAN] /\ stuck \in [Conns -> BOOLEAN]
      BY <1>1 DEF Flags
    <3> QED BY <1>8, <3>1 DEF Remove, RemoveFails, Set
  <2>7. Flags'
    BY <1>1, <2>1, <2>6 DEF Flags
  <2> QED BY <2>3, <2>5, <2>7 DEF GInv
<1> QED BY <1>4, <1>6, <1>7, <1>8

\* A statement that gets past the authorizer with trust down does what is proper,
\* whatever becomes of the transaction.
LEMMA DoesSoundly ==
  ASSUME Flags, Written, Trusts, NEW c \in Conns, NEW st \in Statement, Authorize(st, FALSE),
         Does(c, st)
  PROVE  /\ Sound(work', db', steps)
         /\ open' \in [Conns -> BOOLEAN] /\ attached' \in [Conns -> BOOLEAN]
<1>1. /\ Sound(work, db, steps) /\ Sound(work, work, steps) /\ Sound(db, db, steps)
      /\ steps \in Nat /\ open \in [Conns -> BOOLEAN] /\ attached \in [Conns -> BOOLEAN]
  BY SoundEnds, HatchAssumption DEF Written, Flags
<1>2. st.verb # "Attach"
  BY DEF Authorize, Outside
<1>3. ASSUME NEW reached \in Writes(st), Stores(c, "caller", reached), UNCHANGED <<open, attached>>
      PROVE  /\ Sound(work', db', steps)
             /\ open' \in [Conns -> BOOLEAN] /\ attached' \in [Conns -> BOOLEAN]
  <2>1. reached \in {"own", "alias"}
    BY <1>3, CallersReachTheirOwn
  <2> QED BY <1>1, <1>3, <2>1, CallerStores
<1>4. ASSUME NEW n \in 0..steps, work' = db \cup {t \in work : t.n < n},
             UNCHANGED <<db, open, attached>>
      PROVE  /\ Sound(work', db', steps)
             /\ open' \in [Conns -> BOOLEAN] /\ attached' \in [Conns -> BOOLEAN]
  <2>1. n \in Nat
    BY <1>1
  <2>2. Sound(work', db, steps)
    BY <1>1, <1>4, <2>1, SoundRollsBackTo
  <2> QED BY <1>1, <1>4, <2>2
<1>5. ASSUME NEW b \in BOOLEAN, open' = Set(open, c, b), UNCHANGED attached,
             \/ UNCHANGED <<work, db>>
             \/ db' = work /\ UNCHANGED work
             \/ work' = db /\ UNCHANGED db
      PROVE  /\ Sound(work', db', steps)
             /\ open' \in [Conns -> BOOLEAN] /\ attached' \in [Conns -> BOOLEAN]
  BY <1>1, <1>5 DEF Set
<1>6. CASE UNCHANGED <<work, db, open, attached>>
  BY <1>1, <1>6
<1> QED BY <1>2, <1>3, <1>4, <1>5, <1>6 DEF Does

\* A body goes on.
LEMMA BodyTrusted == ASSUME GInv, NEW c \in Conns, Body(c) PROVE GInv'
<1> DEFINE w == job[c]
<1>1. Flags /\ Written /\ Trusts
  BY DEF GInv
<1>2. /\ w \in Job /\ Allowed(w.pc, w.op, w.saved, trusted[c]) /\ trusted[c] \in BOOLEAN
      /\ w.did \in SUBSET Token /\ w.saved \in Seq(BOOLEAN)
      /\ trusted = [trusted EXCEPT ![c] = trusted[c]]
  BY <1>1, Kept DEF Trust
<1>3. open \in [Conns -> BOOLEAN] /\ steps \in 0..MaxSteps /\ MaxSteps \in Nat
  BY <1>1, HatchAssumption DEF Flags
<1>4. ASSUME open' \in [Conns -> BOOLEAN], steps' \in 0..MaxSteps,
             UNCHANGED <<inMemory, guard, attached, stuck, ids>>
      PROVE  Flags'
  BY <1>1, <1>4 DEF Flags
<1>5. ASSUME Sound(work', db', steps), steps' \in 0..MaxSteps, steps <= steps', last' = last
      PROVE  Written'
  <2>1. Sound(work', db', steps')
    BY <1>3, <1>5, SoundLater
  <2> QED BY <1>1, <1>5, <2>1 DEF Written
<1>6. /\ Sound(work, db, steps) /\ Sound(work, work, steps) /\ Sound(db, db, steps)
      /\ steps \in Nat /\ steps <= steps
      /\ steps < MaxSteps /\ steps' = steps + 1 => steps' \in 0..MaxSteps /\ steps <= steps'
  <2>1. Sound(work, db, steps)
    BY <1>1 DEF Written
  <2> QED BY <1>3, <2>1, SoundEnds
<1>7. CASE Begin(c)
  <2>1. /\ w.pc = "begin" /\ open' = [open EXCEPT ![c] = TRUE]
        /\ job' = [job EXCEPT ![c] = [w EXCEPT !.pc = IF w.op = "fold" THEN "runner" ELSE "caller"]]
        /\ UNCHANGED <<inMemory, guard, trusted, attached, stuck, work, db, last, ids, steps>>
    BY <1>7 DEF Begin, At, Set
  <2>2. PICK pc \in {"runner", "caller"} : pc = IF w.op = "fold" THEN "runner" ELSE "caller"
    OBVIOUS
  <2>3. Allowed(pc, w.op, w.saved, trusted[c])
    BY <1>2, <2>1, <2>2 DEF Allowed
  <2>4. Goes(c, pc, w.saved)
    <3> DEFINE j == [w EXCEPT !.pc = pc]
    <3>1. j \in Job /\ j.pc = pc /\ j.op = w.op /\ j.saved = w.saved
      BY <1>2 DEF Job
    <3>2. job' = [job EXCEPT ![c] = j]
      BY <2>1, <2>2
    <3> HIDE DEF j
    <3> QED BY <3>1, <3>2 DEF Goes
  <2>5. trusted' = [trusted EXCEPT ![c] = trusted[c]]
    BY <1>2, <2>1
  <2> DEFINE saved == w.saved
             t == trusted[c]
  <2>6. Goes(c, pc, saved) /\ Allowed(pc, job[c].op, saved, t) /\ t \in BOOLEAN
        /\ trusted' = [trusted EXCEPT ![c] = t]
    BY <1>2, <2>3, <2>4, <2>5
  <2> HIDE DEF saved, t
  <2>7. Trusts'
    BY <1>1, <2>6, GoesOn
  <2>8. open' \in [Conns -> BOOLEAN]
    BY <1>3, <2>1
  <2> QED BY <1>3, <1>4, <1>5, <1>6, <2>1, <2>7, <2>8 DEF GInv
<1>8. ASSUME Fails(c), \/ open' = Set(open, c, FALSE) /\ work' = db
                       \/ open' = open /\ work' = work
      PROVE  GInv'
  <2>1. /\ job' = [job EXCEPT ![c] = [w EXCEPT !.pc = "leave", !.saved = <<>>, !.tag = "error"]]
        /\ trusted' = [trusted EXCEPT ![c] = FALSE]
        /\ open' = [open EXCEPT ![c] = FALSE] \/ open' = open
        /\ Sound(work', db', steps)
        /\ UNCHANGED <<inMemory, guard, attached, stuck, db, last, ids, steps>>
    BY <1>6, <1>8 DEF Fails, Set
  <2>2. Allowed("leave", w.op, <<>>, FALSE)
    BY DEF Allowed
  <2>3. Goes(c, "leave", <<>>)
    <3> DEFINE j == [w EXCEPT !.pc = "leave", !.saved = <<>>, !.tag = "error"]
    <3>1. j \in Job /\ j.pc = "leave" /\ j.op = w.op /\ j.saved = <<>>
      BY <1>2, Lists DEF Job
    <3>2. job' = [job EXCEPT ![c] = j]
      BY <2>1
    <3> HIDE DEF j
    <3> QED BY <3>1, <3>2 DEF Goes
  <2>4. Trusts'
    BY <1>1, <2>1, <2>2, <2>3, GoesOn
  <2>5. open' \in [Conns -> BOOLEAN]
    BY <1>3, <2>1
  <2> QED BY <1>3, <1>4, <1>5, <1>6, <2>1, <2>4, <2>5 DEF GInv
<1>9. ASSUME NEW st \in Statements, Run(c, st) PROVE GInv'
  <2> DEFINE did == {t \in work' : t.job = w.id}
             saved == w.saved
  <2>1. /\ w.pc = "caller" /\ Authorize(st, trusted[c]) /\ Does(c, st)
        /\ steps' \in 0..MaxSteps /\ steps <= steps'
        /\ job' = [job EXCEPT ![c] = [w EXCEPT !.did = did]]
        /\ UNCHANGED <<inMemory, guard, trusted, stuck, last, ids>>
    BY <1>6, <1>9 DEF Run, At, Set
  <2>2. trusted[c] = FALSE /\ Allowed("caller", w.op, w.saved, FALSE)
    BY <1>2, <2>1 DEF Allowed
  <2>3. Sound(work', db', steps) /\ open' \in [Conns -> BOOLEAN] /\ attached' \in [Conns -> BOOLEAN]
    BY <1>1, <2>1, <2>2, HatchAssumption, DoesSoundly
  <2>4. did \in SUBSET Token
    BY <2>3 DEF Sound
  <2> HIDE DEF did
  <2>5. Goes(c, "caller", saved)
    <3> DEFINE j == [w EXCEPT !.did = did]
    <3>1. j \in Job /\ j.pc = "caller" /\ j.op = w.op /\ j.saved = saved
      BY <1>2, <2>1, <2>4 DEF Job
    <3>2. job' = [job EXCEPT ![c] = j]
      BY <2>1
    <3> HIDE DEF j, saved
    <3> QED BY <3>1, <3>2 DEF Goes
  <2>6. Allowed("caller", job[c].op, saved, FALSE) /\ trusted' = [trusted EXCEPT ![c] = FALSE]
    BY <1>2, <2>1, <2>2
  <2> HIDE DEF saved
  <2>7. Trusts'
    BY <1>1, <2>5, <2>6, GoesOn
  <2>8. Flags'
    BY <1>1, <2>1, <2>3 DEF Flags
  <2>9. Written'
    BY <1>5, <2>1, <2>3
  <2> QED BY <2>7, <2>8, <2>9 DEF GInv
<1>10. CASE Raise(c)
  <2>1. /\ w.pc = "caller" /\ w.op = "txn" /\ steps' \in 0..MaxSteps
        /\ job' = [job EXCEPT ![c] = [w EXCEPT !.pc = "crate", !.saved = <<trusted[c]>>]]
        /\ trusted' = [trusted EXCEPT ![c] = TRUE]
        /\ UNCHANGED <<inMemory, guard, open, attached, stuck, work, db, last, ids, steps>>
    BY <1>3, <1>10 DEF Raise, At, Set
  <2>2. trusted[c] = FALSE
    BY <1>2, <2>1 DEF Allowed
  <2>3. Allowed("crate", w.op, <<FALSE>>, TRUE)
    BY <2>1, <2>2 DEF Allowed
  <2>4. Goes(c, "crate", <<FALSE>>)
    <3> DEFINE j == [w EXCEPT !.pc = "crate", !.saved = <<FALSE>>]
    <3>1. j \in Job /\ j.pc = "crate" /\ j.op = w.op /\ j.saved = <<FALSE>>
      BY <1>2, <2>2, Lists DEF Job
    <3>2. job' = [job EXCEPT ![c] = j]
      BY <2>1, <2>2
    <3> HIDE DEF j
    <3> QED BY <3>1, <3>2 DEF Goes
  <2>5. trusted' = [trusted EXCEPT ![c] = TRUE]
    BY <1>2, <2>1, <2>2
  <2>6. Trusts'
    BY <1>1, <2>3, <2>4, <2>5, GoesOn
  <2>7. open' \in [Conns -> BOOLEAN]
    BY <1>3, <2>1
  <2> QED BY <1>3, <1>4, <1>5, <1>6, <2>1, <2>6, <2>7 DEF GInv
<1>11. CASE Callback(c)
  <2>1. /\ w.pc = "runner" /\ steps' \in 0..MaxSteps /\ steps <= steps'
        /\ job' = [job EXCEPT ![c] = [w EXCEPT !.pc = "caller", !.saved = <<FALSE, trusted[c]>>]]
        /\ trusted' = [trusted EXCEPT ![c] = FALSE]
        /\ UNCHANGED <<inMemory, guard, open, attached, stuck, work, db, last, ids>>
    BY <1>6, <1>11 DEF Callback, At, Set
  <2>2. trusted[c] = TRUE /\ w.op = "fold"
    BY <1>2, <2>1 DEF Allowed
  <2>3. Allowed("caller", w.op, <<FALSE, TRUE>>, FALSE)
    BY <2>1, <2>2 DEF Allowed
  <2>4. Goes(c, "caller", <<FALSE, TRUE>>)
    <3> DEFINE j == [w EXCEPT !.pc = "caller", !.saved = <<FALSE, TRUE>>]
    <3>1. j \in Job /\ j.pc = "caller" /\ j.op = w.op /\ j.saved = <<FALSE, TRUE>>
      BY <1>2, <2>2, Lists DEF Job
    <3>2. job' = [job EXCEPT ![c] = j]
      BY <2>1, <2>2
    <3> HIDE DEF j
    <3> QED BY <3>1, <3>2 DEF Goes
  <2>5. trusted' = [trusted EXCEPT ![c] = FALSE]
    BY <1>2, <2>1, <2>2
  <2>6. Trusts'
    BY <1>1, <2>3, <2>4, <2>5, GoesOn
  <2>7. open' \in [Conns -> BOOLEAN]
    BY <1>3, <2>1
  <2> QED BY <1>3, <1>4, <1>5, <1>6, <2>1, <2>6, <2>7 DEF GInv
<1>12. CASE CallbackReturns(c)
  <2>1. /\ w.pc = "caller" /\ w.op = "fold"
        /\ job' = [job EXCEPT ![c] = [w EXCEPT !.pc = "runner", !.saved = <<FALSE>>]]
        /\ trusted' = [trusted EXCEPT ![c] = w.saved[2]]
        /\ UNCHANGED <<inMemory, guard, open, attached, stuck, work, db, last, ids, steps>>
    BY <1>12 DEF CallbackReturns, At, Set
  <2>2. w.saved = <<FALSE, TRUE>> /\ w.op = "fold"
    BY <1>2, <2>1 DEF Allowed
  <2>3. Allowed("runner", w.op, <<FALSE>>, TRUE)
    BY <2>1, <2>2 DEF Allowed
  <2>4. Goes(c, "runner", <<FALSE>>)
    <3> DEFINE j == [w EXCEPT !.pc = "runner", !.saved = <<FALSE>>]
    <3>1. j \in Job /\ j.pc = "runner" /\ j.op = w.op /\ j.saved = <<FALSE>>
      BY <1>2, <2>2, Lists DEF Job
    <3>2. job' = [job EXCEPT ![c] = j]
      BY <2>1, <2>2
    <3> HIDE DEF j
    <3> QED BY <3>1, <3>2 DEF Goes
  <2>5. trusted' = [trusted EXCEPT ![c] = TRUE]
    BY <1>2, <2>1, <2>2
  <2>6. Trusts'
    BY <1>1, <2>3, <2>4, <2>5, GoesOn
  <2>7. open' \in [Conns -> BOOLEAN]
    BY <1>3, <2>1
  <2> QED BY <1>3, <1>4, <1>5, <1>6, <2>1, <2>6, <2>7 DEF GInv
<1>13. ASSUME NEW pc \in {"caller", "commit"}, NEW saved \in Seq(BOOLEAN), NEW t \in BOOLEAN,
              Wrote(c, pc, saved), Allowed(pc, w.op, saved, t),
              trusted' = [trusted EXCEPT ![c] = t], open' = open,
              steps' \in 0..MaxSteps, steps <= steps',
              UNCHANGED <<inMemory, guard, attached, stuck, ids, last>>
       PROVE  GInv'
  <2>1. Sound(work', db', steps) /\ Goes(c, pc, saved)
    BY <1>1, <1>13, CrateStores
  <2>2. Trusts'
    BY <1>1, <1>13, <2>1, GoesOn
  <2>3. Flags'
    BY <1>3, <1>4, <1>13
  <2>4. Written'
    BY <1>5, <1>13, <2>1
  <2> QED BY <2>2, <2>3, <2>4 DEF GInv
<1>14. CASE Inserts(c)
  <2>1. /\ w.pc = "crate" /\ trusted' = [trusted EXCEPT ![c] = w.saved[1]]
        /\ steps' \in 0..MaxSteps /\ steps <= steps'
        /\ UNCHANGED <<inMemory, guard, open, attached, stuck, last, ids>>
        /\ \/ Wrote(c, "caller", <<>>)
           \/ /\ job' = [job EXCEPT ![c] = [w EXCEPT !.pc = "caller", !.saved = <<>>]]
              /\ UNCHANGED <<work, db>>
    BY <1>6, <1>14 DEF Inserts, At, Set
  <2>2. w.saved = <<FALSE>> /\ w.op = "txn"
    BY <1>2, <2>1 DEF Allowed
  <2>3. Allowed("caller", w.op, <<>>, FALSE)
    BY <2>2 DEF Allowed
  <2>4. trusted' = [trusted EXCEPT ![c] = FALSE]
    BY <2>1, <2>2
  <2>5. CASE Wrote(c, "caller", <<>>)
    BY <1>13, <2>1, <2>3, <2>4, <2>5, Lists
  <2>6. CASE /\ job' = [job EXCEPT ![c] = [w EXCEPT !.pc = "caller", !.saved = <<>>]]
             /\ UNCHANGED <<work, db>>
    <3> DEFINE j == [w EXCEPT !.pc = "caller", !.saved = <<>>]
    <3>1. j \in Job /\ j.pc = "caller" /\ j.op = w.op /\ j.saved = <<>>
      BY <1>2, Lists DEF Job
    <3>2. job' = [job EXCEPT ![c] = j]
      BY <2>6
    <3> HIDE DEF j
    <3>3. Goes(c, "caller", <<>>)
      BY <3>1, <3>2 DEF Goes
    <3>4. Trusts'
      BY <1>1, <2>3, <2>4, <3>3, GoesOn
    <3>5. Flags' /\ Written'
      BY <1>3, <1>4, <1>5, <1>6, <2>1, <2>6
    <3> QED BY <3>4, <3>5 DEF GInv
  <2> QED BY <2>1, <2>5, <2>6
<1>15. CASE Save(c)
  <2>1. /\ w.pc = "runner" /\ Wrote(c, "commit", w.saved)
        /\ UNCHANGED <<inMemory, guard, trusted, open, attached, stuck, last, ids, steps>>
    BY <1>15 DEF Save, At, kept
  <2>2. w.op = "fold" /\ w.saved = <<FALSE>> /\ trusted[c] = TRUE
    BY <1>2, <2>1 DEF Allowed
  <2>3. Allowed("commit", w.op, <<FALSE>>, TRUE)
    BY <2>2 DEF Allowed
  <2>4. /\ Wrote(c, "commit", <<FALSE>>) /\ trusted' = [trusted EXCEPT ![c] = TRUE]
        /\ steps' \in 0..MaxSteps /\ steps <= steps'
    BY <1>2, <1>3, <1>6, <2>1, <2>2
  <2> QED BY <1>13, <2>1, <2>3, <2>4, Lists
<1>16. CASE Returns(c)
  <2>1. /\ w.pc = "caller" /\ w.op = "txn" /\ job' = [job EXCEPT ![c] = [w EXCEPT !.pc = "commit"]]
        /\ UNCHANGED <<inMemory, guard, trusted, open, attached, stuck, work, db, last, ids, steps>>
    BY <1>16 DEF Returns, At, Set, kept
  <2>2. w.saved = <<>> /\ trusted[c] = FALSE
    BY <1>2, <2>1 DEF Allowed
  <2>3. Allowed("commit", w.op, <<>>, FALSE)
    BY <2>1, <2>2 DEF Allowed
  <2>4. Goes(c, "commit", <<>>)
    <3> DEFINE j == [w EXCEPT !.pc = "commit"]
    <3>1. j \in Job /\ j.pc = "commit" /\ j.op = w.op /\ j.saved = <<>>
      BY <1>2, <2>2, Lists DEF Job
    <3>2. job' = [job EXCEPT ![c] = j]
      BY <2>1, <2>2
    <3> HIDE DEF j
    <3> QED BY <3>1, <3>2 DEF Goes
  <2>5. trusted' = [trusted EXCEPT ![c] = FALSE]
    BY <1>2, <2>1, <2>2
  <2>6. Trusts'
    BY <1>1, <2>3, <2>4, <2>5, GoesOn
  <2>7. open' \in [Conns -> BOOLEAN]
    BY <1>3, <2>1
  <2> QED BY <1>3, <1>4, <1>5, <1>6, <2>1, <2>6, <2>7 DEF GInv
<1>17. CASE Commit(c)
  <2>1. /\ job' = [job EXCEPT ![c] = [w EXCEPT !.pc = "leave", !.saved = <<>>]]
        /\ trusted' = [trusted EXCEPT ![c] = FALSE] /\ open' = [open EXCEPT ![c] = FALSE]
        /\ db' = work /\ UNCHANGED <<inMemory, guard, attached, stuck, work, last, ids, steps>>
    BY <1>17 DEF Commit, Set
  <2>2. Allowed("leave", w.op, <<>>, FALSE)
    BY DEF Allowed
  <2>3. Goes(c, "leave", <<>>)
    <3> DEFINE j == [w EXCEPT !.pc = "leave", !.saved = <<>>]
    <3>1. j \in Job /\ j.pc = "leave" /\ j.op = w.op /\ j.saved = <<>>
      BY <1>2, Lists DEF Job
    <3>2. job' = [job EXCEPT ![c] = j]
      BY <2>1
    <3> HIDE DEF j
    <3> QED BY <3>1, <3>2 DEF Goes
  <2>4. Trusts'
    BY <1>1, <2>1, <2>2, <2>3, GoesOn
  <2>5. open' \in [Conns -> BOOLEAN]
    BY <1>3, <2>1
  <2> QED BY <1>3, <1>4, <1>5, <1>6, <2>1, <2>4, <2>5 DEF GInv
<1> QED BY <1>7, <1>8, <1>9, <1>10, <1>11, <1>12, <1>14, <1>15, <1>16, <1>17
        DEF Body, BeginFails, CommitFails, GivesUp, RollsBack

\* A query answers.
LEMMA AnswersTrusted == ASSUME GInv, NEW c \in Conns, NEW q \in Queries, Answers(c, q) PROVE GInv'
<1> DEFINE w == job[c]
<1>1. Flags /\ Written /\ Trusts
  BY DEF GInv
<1>2. /\ w \in Job /\ Trust(w, trusted[c]) /\ trusted[c] \in BOOLEAN /\ w.did \in SUBSET Token
      /\ trusted = [trusted EXCEPT ![c] = trusted[c]]
  BY <1>1, Kept
<1>3. PICK tag \in {"rows", "error", "Unsupported", "Validation", "Timeout"} :
        job' = [job EXCEPT ![c] = [w EXCEPT !.pc = "leave", !.tag = tag]]
  BY Answerable DEF Answers, Set
<1>5. w.pc = "query" /\ UNCHANGED <<inMemory, guard, trusted, stuck, last, ids, steps>>
  BY DEF Answers, At
<1>6. w.saved = <<>> /\ trusted[c] = FALSE
  BY <1>2, <1>5 DEF Trust, Allowed
<1> DEFINE j == [w EXCEPT !.pc = "leave", !.tag = tag]
<1>7. j \in Job /\ j.pc = "leave" /\ j.saved = <<>>
  BY <1>2, <1>6 DEF Job
<1> HIDE DEF j
<1>8. Trust(j, FALSE)
  BY <1>7 DEF Trust, Allowed
<1>9. job' = [job EXCEPT ![c] = j] /\ trusted' = [trusted EXCEPT ![c] = FALSE]
  BY <1>2, <1>3, <1>5, <1>6 DEF j
<1>10. Trusts'
  BY <1>1, <1>7, <1>8, <1>9, TrustMoves
<1>11. /\ Sound(work', db', steps)
       /\ attached' \in [Conns -> BOOLEAN] /\ open' \in [Conns -> BOOLEAN]
  <2>1. CASE Runs(q) /\ Does(c, q.st)
    <3>1. q.st \in Statement /\ Authorize(q.st, FALSE)
      BY <2>1, HatchAssumption DEF Query, Runs
    <3> QED BY <1>1, <2>1, <3>1, DoesSoundly
  <2>2. CASE UNCHANGED <<work, db, open, attached>>
    BY <1>1, <2>2 DEF Flags, Written
  <2> QED BY <2>1, <2>2 DEF Answers
<1>12. Flags'
  BY <1>1, <1>5, <1>11 DEF Flags
<1>13. Written'
  BY <1>1, <1>5, <1>11 DEF Written
<1> QED BY <1>10, <1>12, <1>13 DEF GInv

\* Trust is where it should be and every write is proper, the crate's going astray only
\* behind an alias made before it and as lasting as it, under any caller code.
THEOREM TrustIsKept == Spec => []GInv
<1>1. Init => GInv
  <2> SUFFICES ASSUME Init PROVE GInv
    OBVIOUS
  <2>1. IInv
    BY InitOK
  <2>2. Flags /\ Written /\ job \in [Conns -> Job] /\ trusted \in [Conns -> BOOLEAN]
    <3>1. work = {} /\ db = {} /\ last.did \subseteq Token
      BY <2>1 DEF Init, IInv, DataFine
    <3>2. Written
      BY <3>1 DEF Written, Sound
    <3> QED BY <2>1, <3>2 DEF IInv, ConnsOK, Flags
  <2>3. \A c \in Conns : job[c] = None /\ trusted[c] = FALSE
    BY DEF Init
  <2>4. Trust(None, FALSE)
    BY DEF Trust, Allowed, None
  <2>5. Trusts
    BY <2>2, <2>3, <2>4 DEF Trusts
  <2> QED BY <2>2, <2>5 DEF GInv
<1>2. GInv /\ [Next]_vars => GInv'
  <2> SUFFICES ASSUME GInv, [Next]_vars PROVE GInv'
    OBVIOUS
  <2>1. CASE UNCHANGED vars
    BY <2>1 DEF GInv, Flags, Written, Trusts, vars, kept
  <2> QED BY <2>1, EndsTrusted, BodyTrusted, AnswersTrusted DEF Next
<1> QED BY <1>1, <1>2, PTL DEF Spec

\* The state keeps its shape, whatever code the jobs run.
THEOREM TypeCorrect == Spec => []TypeOK
<1>1. ASSUME GInv PROVE TypeOK
  <2>1. Flags /\ Written /\ Trusts
    BY <1>1 DEF GInv
  <2>2. db \subseteq Token /\ work \subseteq Token /\ last.did \subseteq Token
    BY <2>1 DEF Written, Sound
  <2>3. ASSUME NEW c \in Conns
        PROVE  LET raised == At(c, "crate")
                     \/ (job[c].op = "fold" /\ job[c].pc \in {"begin", "runner", "commit"})
                   saved == CASE At(c, "crate") -> <<FALSE>>
                              [] job[c].op = "fold" /\ job[c].pc \in {"begin", "runner", "commit"}
                                 -> <<FALSE>>
                              [] job[c].op = "fold" /\ At(c, "caller") -> <<FALSE, TRUE>>
                              [] OTHER -> <<>>
               IN trusted[c] = raised /\ job[c].saved = saved
    <3>1. Trust(job[c], trusted[c]) /\ trusted[c] \in BOOLEAN
      BY <2>1 DEF Trusts
    <3>2. CASE At(c, "crate")
      BY <3>1, <3>2 DEF Trust, Allowed, At
    <3>3. CASE job[c].op = "fold" /\ job[c].pc \in {"begin", "runner", "commit"}
      BY <3>1, <3>3 DEF Trust, Allowed, At
    <3>4. CASE job[c].op = "fold" /\ At(c, "caller")
      BY <3>1, <3>4 DEF Trust, Allowed, At
    <3>5. CASE ~At(c, "crate")
               /\ ~(job[c].op = "fold" /\ job[c].pc \in {"begin", "runner", "commit", "caller"})
      BY <3>1, <3>5 DEF Trust, Allowed, At
    <3> QED BY <3>2, <3>3, <3>4, <3>5 DEF At
  <2> QED BY <2>1, <2>2, <2>3 DEF TypeOK, Flags, Trusts
<1> QED BY <1>1, TrustIsKept, PTL

\* Whatever the closures, callbacks and queries run, swallow or panic in, their own
\* COMMIT and ROLLBACK included, the caller's writes are to its own tables, and the
\* crate's are in the log as long as no TEMP object has come by one of the log's
\* names unseen.
THEOREM TheLogIsTheCrates == Spec => []OnlyTheCrateWritesTheLog
<1>1. ASSUME GInv PROVE OnlyTheCrateWritesTheLog
  <2>1. db \subseteq work /\ \A t \in work : Proper(t, work, db)
    BY <1>1 DEF GInv, Written, Sound
  <2> QED BY <2>1 DEF Proper, Missed, OnlyTheCrateWritesTheLog
<1> QED BY <1>1, TrustIsKept, PTL

-----------------------------------------------------------------------------
(* What a query answers.                                                   *)

\* A query that answers rows had every placeholder bound, and no cell refused.
LEMMA RowsAreBound ==
  ASSUME NEW q \in Queries, Answered(q) = "rows"
  PROVE  Binds(q) /\ \A i \in DOMAIN q.row : JsonRow(q)[i] # "refused"
BY DEF Answered

\* What Binds lets through leaves nothing for SQLite to read as NULL.
LEMMA NothingIsLeft ==
  ASSUME NEW q \in Queries, Binds(q)
  PROVE  LeftNull(q) = 0
<1>1. /\ q.bare \in Nat /\ q.count \in Nat /\ q.by \in {"position", "name"}
      /\ IsFiniteSet(q.names)
  BY HatchAssumption DEF Query
<1>2. CASE q.by = "name"
  <2>1. q.given = q.names /\ q.bare = 0
    BY <1>2 DEF Binds
  <2>2. q.names \ q.given = {} /\ Cardinality({}) = 0
    BY <2>1, FS_EmptySet
  <2>3. LeftNull(q) = Cardinality(q.names \ q.given) + q.bare
    BY <1>2 DEF LeftNull
  <2> QED BY <2>1, <2>2, <2>3
<1>3. CASE q.by = "position"
  <2>1. Cardinality(q.names) \in Nat
    BY <1>1, FS_CardinalityType
  <2>2. q.count = Cardinality(q.names) + q.bare
    BY <1>3 DEF Binds
  <2>3. LeftNull(q) = Cardinality(q.names) + q.bare - q.count
    BY <1>3 DEF LeftNull
  <2> HIDE DEF LeftNull
  <2> QED BY <1>1, <2>1, <2>2, <2>3
<1> QED BY <1>1, <1>2, <1>3

\* A strict query gives each cell as it is, or is refused.
LEMMA StrictCellsAreTrue ==
  ASSUME NEW q \in Queries, ~q.lossy, \A i \in DOMAIN q.row : JsonRow(q)[i] # "refused",
         NEW i \in DOMAIN q.row
  PROVE  JsonRow(q)[i] = q.row[i]
<1>1. JsonRow(q)[i] = ToJson(q.row[i], q.lossy)
  BY DEF JsonRow
<1>2. ToJson(q.row[i], q.lossy) # "refused"
  BY <1>1
<1> QED BY <1>1, <1>2 DEF ToJson

\* Whatever a query is and answers, it changes nothing; one that answers rows had
\* every placeholder bound, by position or by name, and a strict one answers the
\* cells themselves.
THEOREM QueriesAreReads == ASSUME Tame PROVE Spec => QueriesOnlyRead
<1>1. ASSUME IInv, NEW c \in Conns, NEW q \in Queries, Answers(c, q), job'[c].tag = "rows"
      PROVE  LeftNull(q) = 0 /\ (~q.lossy => \A i \in DOMAIN q.row : JsonRow(q)[i] = q.row[i])
  <2>1. PICK tag \in {Answered(q), "error"} \cup Late(q) :
          job' = Set(job, c, [job[c] EXCEPT !.pc = "leave", !.tag = tag])
    BY <1>1 DEF Answers
  <2>2. job \in [Conns -> Job]
    BY <1>1, Known DEF ConnsOK
  <2>3. job'[c].tag = tag
    BY <2>1, <2>2 DEF Set, Job
  <2>4. Answered(q) = "rows"
    BY <1>1, <2>1, <2>3 DEF Late
  <2>5. Binds(q) /\ \A i \in DOMAIN q.row : JsonRow(q)[i] # "refused"
    BY <2>4, RowsAreBound
  <2> QED BY <2>5, NothingIsLeft, StrictCellsAreTrue
<1>2. IInv => [\A c \in Conns, q \in Queries :
                 At(c, "query") /\ Answers(c, q) =>
                   /\ UNCHANGED <<work, db, open, attached>>
                   /\ job'[c].tag = "rows" =>
                        /\ LeftNull(q) = 0
                        /\ ~q.lossy => \A i \in DOMAIN q.row : JsonRow(q)[i] = q.row[i]]_vars
  BY <1>1, AnswersReads
<1> QED BY <1>2, Invariance, PTL DEF QueriesOnlyRead

=============================================================================
