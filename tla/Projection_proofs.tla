-------------------------- MODULE Projection_proofs --------------------------
(***************************************************************************)
(* A read model and its cursor agree, for any number of runners, logs and  *)
(* projections.  A batch is the lowest of what is wanted above the cursor, *)
(* and the cursor goes no further than the page accounts for.  That no     *)
(* event is passed over needs two things more: nothing lands below a       *)
(* cursor, and what retention took lies at or below the watermark, which a *)
(* strict projection that folds has behind it.                             *)
(***************************************************************************)
EXTENDS Projection, LogTables_proofs

-----------------------------------------------------------------------------
(* The invariant.                                                          *)

Running == [st : {"none", "ready", "busy", "back", "wait", "lost"}, verb : Verbs, seen : Nat,
            ans : {"ok", "applied", "refused", "failed", "lost"}]

JobOut == [owner : Runners \cup {Nobody}, name : Consumers, op : {"fold", "reset"}]

\* A job that is owned is its owner's only one, on the owner's log.
QueueOK(q, rn) ==
  /\ q \in [Handles -> Seq(JobOut)]
  /\ \A h \in Handles : \A i \in DOMAIN q[h] :
       LET owner == q[h][i].owner IN
       owner # Nobody =>
         /\ rn[owner].st = "busy" /\ HandleAt[owner] = h
         /\ \A j \in DOMAIN q[h] : q[h][j].owner = owner => j = i

\* What a projection was fed, against its cursor and the history.
FedOK(c, m, d, h) ==
  /\ m \in Seq(Nat)
  /\ LoadCheckpoint(d, c) <= d.autoinc
  /\ \A i, j \in DOMAIN m : i < j => m[i] < m[j]
  /\ \A p \in Range(m) : /\ p <= LoadCheckpoint(d, c)
                         /\ \E row \in h : row.pos = p /\ row.kind \in KindsOf[c]
  /\ \A row \in IF c \in Tolerant THEN d.events ELSE h :
       row.kind \in KindsOf[c] /\ row.pos <= LoadCheckpoint(d, c) => row.pos \in Range(m)

\* No channel tells of a position that was not given.
WakesOK == Heard(Handles, notify, unpublished, db.autoinc)

LogOK == Numbered(db, history) /\ LedgerOK(db, history) /\ WakesOK

IInv ==
  /\ LogOK
  /\ runner \in [Runners -> Running]
  /\ QueueOK(queue, runner)
  /\ model \in [Consumers -> Seq(Nat)]
  /\ \A c \in Consumers : FedOK(c, model[c], db, history)

-----------------------------------------------------------------------------
(* The log moves.                                                          *)

\* The history stays dense, the channels behind it, and new rows land above it.
LEMMA LogMoves ==
  ASSUME Numbered(db, history), WakesOK, Writers
  PROVE  /\ Numbered(db', history') /\ WakesOK' /\ db'.autoinc >= db.autoinc
         /\ \A row \in db'.events \ db.events : row.pos > db.autoinc
<1> DEFINE Moved == /\ Numbered(db', history') /\ db'.autoinc >= db.autoinc
                    /\ db'.autoinc \in Nat
                    /\ \A row \in db'.events \ db.events : row.pos > db.autoinc
<1>1. db.autoinc \in Nat /\ Numbered(db, history)
  BY DEF Numbered, Tables
<1>2. ASSUME NEW a \in Appends, Write(a) PROVE Moved /\ db'.autoinc = db.autoinc + Len(a.run)
  <2> DEFINE st == a.stream
             run == a.run
             e == AppendRun(db, st, run)
             rows == RunRows(db, st, run)
  <2>1. st \in Streams /\ run \in Seq(Event) /\ db' = e /\ history' = history \cup rows
    BY <1>2, WritersAssumption DEF AppendCall, Run, Write
  <2> HIDE DEF st, run
  <2>2. /\ Numbered(e, history \cup rows) /\ e.events = db.events \cup rows
        /\ Len(run) \in Nat /\ e.autoinc = db.autoinc + Len(run) /\ e.autoinc >= db.autoinc
        /\ \A row \in rows : row.pos > db.autoinc
    <3>1. RunLands(db, history, run, e, rows)
      BY <2>1, RunWritten
    <3> HIDE DEF e, rows
    <3> QED BY <3>1 DEF RunLands
  <2> HIDE DEF e, rows
  <2>3. Numbered(db', history')
    BY <2>1, <2>2 DEF Numbered
  <2> QED BY <1>1, <2>1, <2>2, <2>3 DEF run
<1>3. ASSUME NEW x \in Removals, Trim(x) PROVE Moved /\ db'.autoinc = db.autoinc
  <2> DEFINE e == RemoveMatching(db, x.plan)
  <2>1. Numbered(e, history) /\ e.events \subseteq db.events /\ e.autoinc = db.autoinc
    BY NumberedRemove
  <2>2. db' = e /\ history' = history
    BY <1>3 DEF Trim
  <2> HIDE DEF e
  <2>3. Numbered(db', history')
    BY <2>1, <2>2 DEF Numbered
  <2> QED BY <1>1, <2>1, <2>2, <2>3
<1>4. ASSUME UNCHANGED logVars PROVE Moved /\ db'.autoinc = db.autoinc
  BY <1>1, <1>4 DEF logVars, Numbered
<1> HIDE DEF Moved
<1>5. CASE \E h \in Publishers, a \in Appends : Commit(h, a)
  <2>1. PICK h \in Publishers, a \in Appends : Commit(h, a)
    BY <1>5
  <2>2. /\ Write(a) /\ h \in Handles /\ notify' = notify
        /\ unpublished' = [unpublished EXCEPT ![h] = unpublished[h] \cup {db.autoinc + Len(a.run)}]
    BY <2>1, PublishersAssumption DEF Commit
  <2>3. Moved /\ db'.autoinc = db.autoinc + Len(a.run)
    BY <1>2, <2>2
  <2>4. Heard(Handles, notify, [unpublished EXCEPT ![h] = unpublished[h] \cup {db'.autoinc}],
              db'.autoinc)
    BY <1>1, <2>2, <2>3, HeardCommit DEF Moved, WakesOK
  <2> QED BY <2>2, <2>3, <2>4 DEF Moved, WakesOK
<1>6. CASE \E h \in Publishers : \E p \in unpublished[h] : Announce(h, p) \/ Forgo(h, p)
  <2>0. PICK h \in Publishers : \E p \in unpublished[h] : Announce(h, p) \/ Forgo(h, p)
    BY <1>6
  <2>1. PICK p \in unpublished[h] : Announce(h, p) \/ Forgo(h, p)
    BY <2>0
  <2>2. /\ h \in Handles /\ db' = db /\ UNCHANGED logVars
        /\ unpublished' = [unpublished EXCEPT ![h] = unpublished[h] \ {p}]
        /\ \/ notify' = [notify EXCEPT ![h] = MaxOrZero({notify[h], p})]
           \/ notify' = notify
    BY <2>1, PublishersAssumption DEF Announce, Forgo, logVars
  <2>3. Heard(Handles, notify', unpublished', db.autoinc)
    BY <1>1, <2>2, HeardTold DEF WakesOK
  <2> QED BY <1>4, <2>2, <2>3 DEF Moved, WakesOK
<1>7. CASE \/ \E a \in Appends : CommitUnheard(a)
           \/ \E x \in Removals : Trim(x) /\ UNCHANGED wakeVars
  <2>1. Moved /\ notify' = notify /\ unpublished' = unpublished
    BY <1>2, <1>3, <1>7 DEF CommitUnheard, wakeVars
  <2>2. Heard(Handles, notify, unpublished, db'.autoinc)
    BY <1>1, <2>1, HeardRises DEF Moved, WakesOK
  <2> QED BY <2>1, <2>2 DEF Moved, WakesOK
<1> QED BY <1>5, <1>6, <1>7 DEF Writers

\* A removal is told by the ledger, an append does not touch it.
LEMMA LedgerMoves ==
  ASSUME Numbered(db, history), LedgerOK(db, history), Writers
  PROVE  /\ LedgerOK(db', history') /\ db'.ckpt = db.ckpt
         /\ history \subseteq history'
         /\ \A row \in history' \ history : row.pos > db.autoinc
<1> DEFINE Told == /\ LedgerOK(db', history') /\ db'.ckpt = db.ckpt /\ history \subseteq history'
                   /\ \A row \in history' \ history : row.pos > db.autoinc
<1>1. ASSUME NEW a \in Appends, Write(a) PROVE Told
  <2> DEFINE st == a.stream
             run == a.run
             e == AppendRun(db, st, run)
             rows == RunRows(db, st, run)
  <2>1. st \in Streams /\ run \in Seq(Event) /\ db' = e /\ history' = history \cup rows
    BY <1>1, WritersAssumption DEF AppendCall, Run, Write
  <2> HIDE DEF st, run
  <2>2. e.ckpt = db.ckpt /\ \A row \in rows : row.pos > db.autoinc
    <3>1. RunLands(db, history, run, e, rows)
      BY <2>1, RunWritten
    <3> HIDE DEF e, rows
    <3> QED BY <3>1 DEF RunLands
  <2>3. LedgerOK(e, history \cup rows)
    BY <2>1, LedgerAppended
  <2> HIDE DEF e, rows
  <2> QED BY <2>1, <2>2, <2>3 DEF LedgerOK
<1>2. ASSUME NEW x \in Removals, Trim(x) PROVE Told
  <2> DEFINE e == RemoveMatching(db, x.plan)
  <2>1. db' = e /\ history' = history
    BY <1>2 DEF Trim
  <2>2. e.ckpt = db.ckpt /\ LedgerOK(e, history)
    BY NumberedRemove, LedgerTrimmed
  <2> HIDE DEF e
  <2> QED BY <2>1, <2>2 DEF LedgerOK
<1>3. ASSUME UNCHANGED logVars PROVE Told
  BY <1>3 DEF LedgerOK, logVars
<1> QED BY <1>1, <1>2, <1>3 DEF Writers, Commit, CommitUnheard, Announce, Forgo

-----------------------------------------------------------------------------
(* The order of a page.                                                    *)

\* A finite set of rows is listed by rising position, each once.
LEMMA Listed ==
  ASSUME NEW rows, IsFiniteSet(rows), rows \subseteq Row
  PROVE  /\ InOrder(rows) \in Seq(Nat)
         /\ Range(InOrder(rows)) = Positions(rows)
         /\ \A i, j \in DOMAIN InOrder(rows) : i < j => InOrder(rows)[i] < InOrder(rows)[j]
<1> DEFINE P == Positions(rows)
           s == Ascending(P)
<1>1. P \in SUBSET Nat
  BY DEF Positions, Row
<1>2. IsFiniteSet(P)
  <2> DEFINE f == [row \in rows |-> row.pos]
  <2>1. f \in [rows -> P] /\ \A p \in P : \E row \in rows : f[row] = p
    BY DEF Positions
  <2>2. f \in Surjection(rows, P)
    BY <2>1 DEF Surjection
  <2> HIDE DEF f, P
  <2> QED BY <2>2, FS_Surjection
<1>3. InOrder(rows) = s
  BY DEF InOrder
<1> HIDE DEF P, s
<1>4. /\ Cardinality(P) \in Nat /\ DOMAIN s = 1..Cardinality(P) /\ s \in Seq(P)
      /\ \A i \in DOMAIN s : s[i] \in P
      /\ \A x \in P : \E i \in DOMAIN s : s[i] = x
      /\ \A i, j \in DOMAIN s : i < j => s[i] < s[j]
  BY <1>1, <1>2, AscendingIs DEF s
<1>5. s \in Seq(Nat)
  <2>1. s \in [1..Cardinality(P) -> P]
    BY <1>4
  <2>2. s \in [1..Cardinality(P) -> Nat]
    BY <1>1, <2>1
  <2> QED BY <1>4, <2>2
<1>6. Range(s) = P
  BY <1>4 DEF Range
<1> QED BY <1>3, <1>4, <1>5, <1>6 DEF P

-----------------------------------------------------------------------------
(* What a projection was fed.                                              *)

\* It stays right while rows go and rows come above all numbers given.
LEMMA FedStays ==
  ASSUME NEW d \in Tables, NEW h, NEW e \in Tables, NEW g, NEW c \in Consumers, NEW m,
         FedOK(c, m, d, h),
         LoadCheckpoint(e, c) = LoadCheckpoint(d, c), e.autoinc >= d.autoinc,
         h \subseteq g, g \subseteq Row, \A row \in g \ h : row.pos > d.autoinc,
         e.events \subseteq g, \A row \in e.events \ d.events : row.pos > d.autoinc
  PROVE  FedOK(c, m, e, g)
<1> DEFINE cur == LoadCheckpoint(d, c)
<1>1. /\ d.autoinc \in Nat /\ e.autoinc \in Nat /\ cur \in Nat /\ cur <= d.autoinc
      /\ \A row \in g : row.pos \in Nat
  BY DEF FedOK, Tables, LoadCheckpoint, NoRow, Row
<1> HIDE DEF cur
<1>2. LoadCheckpoint(e, c) = cur /\ LoadCheckpoint(d, c) = cur
  BY DEF cur
<1>3. \A row \in IF c \in Tolerant THEN e.events ELSE g :
        row.pos <= cur => row \in IF c \in Tolerant THEN d.events ELSE h
  BY <1>1
<1>4. \A p \in Range(m) : /\ p <= cur
                          /\ \E row \in g : row.pos = p /\ row.kind \in KindsOf[c]
  BY <1>2 DEF FedOK
<1>5. cur <= e.autoinc
  BY <1>1
<1> QED BY <1>2, <1>3, <1>4, <1>5 DEF FedOK

\* A checkpoint is saved: the log is as it was, and so are the other cursors.
LEMMA Saved ==
  ASSUME NEW d, NEW h, Numbered(d, h), LedgerOK(d, h), NEW c \in Consumers, NEW at \in Nat
  PROVE  LET e == SaveCheckpoint(d, c, at) IN
         /\ Numbered(e, h) /\ LedgerOK(e, h)
         /\ e.events = d.events /\ e.autoinc = d.autoinc /\ e.ledger = d.ledger
         /\ LoadCheckpoint(e, c) = at
         /\ \A k \in Consumers : k # c => LoadCheckpoint(e, k) = LoadCheckpoint(d, k)
<1> DEFINE e == SaveCheckpoint(d, c, at)
<1>1. d \in Tables
  BY DEF Numbered
<1>2. /\ e.events = d.events /\ e.autoinc = d.autoinc /\ e.ledger = d.ledger
      /\ e.next = d.next /\ e.receipts = d.receipts
      /\ e.ckpt = [d.ckpt EXCEPT ![c] = at] /\ e \in Tables
  BY <1>1 DEF SaveCheckpoint, Tables
<1> HIDE DEF e
<1>3. /\ e.ckpt[c] = at /\ at # NoRow
      /\ \A k \in Consumers : k # c => e.ckpt[k] = d.ckpt[k]
  BY <1>1, <1>2 DEF Tables, NoRow
<1>4. Numbered(e, h) /\ LedgerOK(e, h)
  BY <1>2 DEF Numbered, LedgerOK
<1> QED BY <1>2, <1>3, <1>4 DEF LoadCheckpoint, e

\* A list behind another.
LEMMA Behind ==
  ASSUME NEW m \in Seq(Nat), NEW t \in Seq(Nat)
  PROVE  /\ m \o t \in Seq(Nat)
         /\ Range(m \o t) = Range(m) \cup Range(t)
         /\ /\ \A i, j \in DOMAIN m : i < j => m[i] < m[j]
            /\ \A i, j \in DOMAIN t : i < j => t[i] < t[j]
            /\ \A p \in Range(m), q \in Range(t) : p < q
            => \A i, j \in DOMAIN (m \o t) : i < j => (m \o t)[i] < (m \o t)[j]
<1> DEFINE x == m \o t
<1>1. x \in Seq(Nat) /\ Len(x) = Len(m) + Len(t) /\ Len(m) \in Nat /\ Len(t) \in Nat
  OBVIOUS
<1>2. DOMAIN x = 1..Len(x) /\ DOMAIN m = 1..Len(m) /\ DOMAIN t = 1..Len(t)
  BY <1>1
<1>3. /\ \A i \in 1..Len(m) : x[i] = m[i]
      /\ \A i \in 1..Len(t) : x[Len(m) + i] = t[i]
  OBVIOUS
<1> HIDE DEF x
<1>4. ASSUME NEW i \in DOMAIN x
      PROVE  \/ i \in DOMAIN m /\ x[i] = m[i]
             \/ i - Len(m) \in DOMAIN t /\ x[i] = t[i - Len(m)] /\ i > Len(m)
  <2>1. CASE i <= Len(m)
    BY <1>1, <1>2, <1>3, <2>1
  <2>2. CASE i > Len(m)
    <3>1. i - Len(m) \in 1..Len(t) /\ Len(m) + (i - Len(m)) = i
      BY <1>1, <1>2, <2>2
    <3> QED BY <1>2, <1>3, <2>2, <3>1
  <2> QED BY <1>1, <1>2, <2>1, <2>2
<1>5. \A i \in DOMAIN m : i \in DOMAIN x /\ x[i] = m[i]
  BY <1>1, <1>2, <1>3
<1>6. \A i \in DOMAIN t : Len(m) + i \in DOMAIN x /\ x[Len(m) + i] = t[i]
  BY <1>1, <1>2, <1>3
<1>7. Range(x) = Range(m) \cup Range(t)
  <2>1. \A v \in Range(x) : v \in Range(m) \cup Range(t)
    BY <1>4 DEF Range
  <2>2. \A v \in Range(m) : v \in Range(x)
    BY <1>5 DEF Range
  <2>3. \A v \in Range(t) : v \in Range(x)
    BY <1>6 DEF Range
  <2> QED BY <2>1, <2>2, <2>3
<1>8. ASSUME \A i, j \in DOMAIN m : i < j => m[i] < m[j],
             \A i, j \in DOMAIN t : i < j => t[i] < t[j],
             \A p \in Range(m), q \in Range(t) : p < q,
             NEW i \in DOMAIN x, NEW j \in DOMAIN x, i < j
      PROVE  x[i] < x[j]
  <2>1. CASE i \in DOMAIN m /\ j \in DOMAIN m
    BY <1>5, <1>8, <2>1
  <2>2. CASE i \in DOMAIN m /\ j \notin DOMAIN m
    <3>1. x[i] \in Range(m) /\ x[j] \in Range(t)
      BY <1>4, <1>5, <2>2 DEF Range
    <3> QED BY <1>8, <3>1
  <2>3. CASE i \notin DOMAIN m
    <3>1. i > Len(m) /\ j > Len(m)
      BY <1>1, <1>2, <1>8, <2>3
    <3>2. j \notin DOMAIN m
      BY <1>1, <1>2, <3>1
    <3>3. /\ i - Len(m) \in DOMAIN t /\ x[i] = t[i - Len(m)]
          /\ j - Len(m) \in DOMAIN t /\ x[j] = t[j - Len(m)]
      BY <1>4, <2>3, <3>2
    <3>4. i - Len(m) < j - Len(m)
      BY <1>1, <1>2, <1>8
    <3> QED BY <1>8, <3>3, <3>4
  <2> QED BY <2>1, <2>2, <2>3
<1> QED BY <1>1, <1>7, <1>8 DEF x

\* The cursor a batch leaves accounts for the page, and the page for it.
LEMMA SeenIsPaged ==
  ASSUME LogOK, NEW c \in Consumers, Cursor(c) <= db.autoinc
  PROVE  /\ Cursor(c) \in Nat /\ SeenThrough(c) \in Nat
         /\ Cursor(c) <= SeenThrough(c) /\ SeenThrough(c) <= db.autoinc
         /\ Page(c) \subseteq db.events /\ IsFiniteSet(Page(c))
         /\ \A x, y \in Page(c) : x.pos = y.pos => x = y
         /\ \A row \in Page(c) : /\ Cursor(c) < row.pos /\ row.pos <= SeenThrough(c)
                                 /\ row.kind \in KindsOf[c]
         /\ \A row \in db.events :
              /\ row.kind \in KindsOf[c]
              /\ Cursor(c) < row.pos
              /\ row.pos <= SeenThrough(c)
              => row \in Page(c)
<1> DEFINE cur == Cursor(c)
           page == Page(c)
           K == KindsOf[c]
           S == Selected(db, cur, K, Streams)
           ends == {cur} \cup Positions(page)
           last == MaxOrZero(ends)
           seen == SeenThrough(c)
<1>1. /\ Numbered(db, history) /\ db \in Tables /\ db.autoinc \in Nat
      /\ IsFiniteSet(db.events) /\ db.events \subseteq Row
      /\ \A row \in db.events : row.pos \in Nat /\ row.pos <= db.autoinc
  BY DEF LogOK, Numbered, Tables, Dense, Row
<1>2. cur \in Nat /\ Batch \in Nat
  BY <1>1, RunnersAssumption DEF Cursor, LoadCheckpoint, Tables, NoRow
<1>3. /\ page \subseteq S /\ S \subseteq db.events
      /\ \A row \in S \ page : \A q \in page : q.pos < row.pos
      /\ Cardinality(page) # Batch => page = S
      /\ \A x, y \in S : x.pos = y.pos => x = y
  BY <1>1, <1>2, PageIsLowest DEF Page
<1>4. \A row \in db.events : row \in S <=> cur < row.pos /\ row.kind \in K
  BY <1>1 DEF Selected, Row
<1>5. Batch # 0
  BY RunnersAssumption
<1> HIDE DEF page, K, S, cur
<1>6. IsFiniteSet(page)
  BY <1>1, <1>3, FS_Subset
<1>7. ends \in SUBSET (0..db.autoinc)
  BY <1>1, <1>2, <1>3 DEF Positions, cur
<1>8. cur \in ends /\ \A row \in page : row.pos \in ends
  BY DEF Positions
<1>9. \A p \in ends : p = cur \/ \E row \in page : p = row.pos
  BY DEF Positions
<1> HIDE DEF ends
<1>10. last \in 0..db.autoinc /\ last \in ends /\ \A p \in ends : p <= last
  BY <1>1, <1>7, <1>8, MaxOrZeroBound
<1> HIDE DEF last
<1>11. CASE Cardinality(page) = Batch
  <2>1. seen = last
    BY <1>11 DEF SeenThrough, page, last, ends, cur
  <2>2. page # {}
    BY <1>5, <1>11, FS_EmptySet
  <2>3. PICK q \in page : last = q.pos
    <3>1. PICK x \in page : TRUE
      BY <2>2
    <3>2. x.pos <= last /\ cur < x.pos /\ x.pos \in Nat /\ last \in Nat
      BY <1>1, <1>3, <1>4, <1>8, <1>10
    <3>3. last # cur
      BY <1>2, <3>2
    <3> QED BY <1>9, <1>10, <3>3
  <2>4. ASSUME NEW row \in db.events, row.kind \in K, cur < row.pos, row.pos <= last
        PROVE  row \in page
    <3>1. row \in S
      BY <1>4, <2>4
    <3>2. row.pos \in Nat /\ q.pos \in Nat
      BY <1>1, <1>3
    <3>3. ~(q.pos < row.pos)
      BY <2>3, <2>4, <3>2
    <3> QED BY <1>3, <3>1, <3>3
  <2>5. \A row \in page : cur < row.pos /\ row.pos <= last /\ row.kind \in K
    BY <1>3, <1>4, <1>8, <1>10
  <2>6. last \in Nat /\ cur <= last /\ last <= db.autoinc
    BY <1>1, <1>8, <1>10
  <2> HIDE DEF seen
  <2>7. page \subseteq db.events /\ \A x, y \in page : x.pos = y.pos => x = y
    BY <1>3
  <2> QED BY <1>2, <1>6, <2>1, <2>4, <2>5, <2>6, <2>7 DEF seen, cur, page, K
<1>12. CASE Cardinality(page) # Batch
  <2> DEFINE top == HeadPosition(db)
  <2>1. seen = MaxOrZero({last, top})
    BY <1>12 DEF SeenThrough, page, last, ends, cur
  <2>2. top \in Nat /\ top <= db.autoinc
    BY <1>1, HeadBounds
  <2> HIDE DEF top, seen
  <2>3. seen \in {last, top} /\ last <= seen /\ last \in Nat
    BY <1>10, <2>1, <2>2, MaxOfTwo
  <2>4. seen \in Nat /\ seen <= db.autoinc
    BY <1>1, <1>10, <2>2, <2>3
  <2>5. cur <= last /\ \A row \in page : row.pos <= last /\ row.pos \in Nat
    BY <1>1, <1>3, <1>8, <1>10
  <2>6. cur <= seen /\ \A row \in page : row.pos <= seen
    BY <1>2, <2>3, <2>4, <2>5
  <2>7. /\ \A row \in page : cur < row.pos /\ row.kind \in K
        /\ \A row \in db.events : row.kind \in K /\ cur < row.pos => row \in page
    BY <1>3, <1>4, <1>12
  <2>8. page \subseteq db.events /\ \A x, y \in page : x.pos = y.pos => x = y
    BY <1>3
  <2> QED BY <1>2, <1>6, <2>4, <2>6, <2>7, <2>8 DEF seen, cur, page, K
<1> QED BY <1>11, <1>12

\* One batch.
LEMMA FoldKeeps ==
  ASSUME LogOK, NEW c \in Consumers, model \in [Consumers -> Seq(Nat)],
         FedOK(c, model[c], db, history), ~Refuses(c, Cursor(c)), Fold(c)
  PROVE  /\ Numbered(db', history) /\ LedgerOK(db', history)
         /\ db'.events = db.events /\ db'.autoinc = db.autoinc /\ db'.ledger = db.ledger
         /\ model' \in [Consumers -> Seq(Nat)]
         /\ FedOK(c, model'[c], db', history)
         /\ LoadCheckpoint(db', c) >= Cursor(c)
         /\ \A k \in Consumers : k # c => /\ model'[k] = model[k]
                                          /\ LoadCheckpoint(db', k) = LoadCheckpoint(db, k)
<1> DEFINE cur == Cursor(c)
           page == Page(c)
           seen == SeenThrough(c)
           m == model[c]
           t == InOrder(page)
           e == db'
<1>1. /\ Numbered(db, history) /\ LedgerOK(db, history) /\ db \in Tables
      /\ history \subseteq Row /\ db.events \subseteq history
  BY DEF LogOK, Numbered
<1>2. LoadCheckpoint(db, c) = cur /\ cur <= db.autoinc /\ m \in Seq(Nat)
  BY DEF FedOK, Cursor
<1>3. /\ cur \in Nat /\ seen \in Nat /\ cur <= seen /\ seen <= db.autoinc
      /\ page \subseteq db.events /\ IsFiniteSet(page)
      /\ \A x, y \in page : x.pos = y.pos => x = y
      /\ \A row \in page : cur < row.pos /\ row.pos <= seen /\ row.kind \in KindsOf[c]
      /\ \A row \in db.events :
           row.kind \in KindsOf[c] /\ cur < row.pos /\ row.pos <= seen => row \in page
  BY <1>2, SeenIsPaged
<1>4. /\ t \in Seq(Nat) /\ Range(t) = Positions(page)
      /\ \A i, j \in DOMAIN t : i < j => t[i] < t[j]
  <2> HIDE DEF page
  <2>1. page \subseteq Row
    BY <1>1, <1>3
  <2> QED BY <1>3, <2>1, Listed
<1>5. /\ Numbered(e, history) /\ LedgerOK(e, history) /\ LoadCheckpoint(e, c) = seen
      /\ e.events = db.events /\ e.autoinc = db.autoinc /\ e.ledger = db.ledger
      /\ \A k \in Consumers : k # c => LoadCheckpoint(e, k) = LoadCheckpoint(db, k)
  <2>1. CASE seen > cur
    <3>1. e = SaveCheckpoint(db, c, seen)
      BY <2>1 DEF Fold
    <3> HIDE DEF seen, e
    <3> QED BY <1>1, <1>3, <3>1, Saved
  <2>2. CASE ~(seen > cur)
    <3>1. e = db
      BY <2>2 DEF Fold
    <3>2. seen = cur
      BY <1>3, <2>2
    <3> HIDE DEF seen, e
    <3> QED BY <1>1, <1>2, <3>1, <3>2
  <2> QED BY <2>1, <2>2
<1>6. model' = [model EXCEPT ![c] = m \o t]
  BY DEF Fold
<1> HIDE DEF page, seen, t, e, cur
<1>7. /\ m \o t \in Seq(Nat) /\ Range(m \o t) = Range(m) \cup Range(t)
      /\ \A i, j \in DOMAIN (m \o t) : i < j => (m \o t)[i] < (m \o t)[j]
  <2>1. \A p \in Range(m) : p <= cur
    BY <1>2 DEF FedOK
  <2>2. \A q \in Range(t) : cur < q
    BY <1>3, <1>4 DEF Positions
  <2>3. Range(m) \subseteq Nat /\ Range(t) \subseteq Nat
    BY <1>2, <1>4 DEF Range
  <2>4. \A p \in Range(m), q \in Range(t) : p < q
    BY <1>3, <2>1, <2>2, <2>3
  <2>5. \A i, j \in DOMAIN m : i < j => m[i] < m[j]
    BY DEF FedOK
  <2> QED BY <1>2, <1>4, <2>4, <2>5, Behind
<1> DEFINE n == m \o t
<1>8. model' \in [Consumers -> Seq(Nat)] /\ model'[c] = n
      /\ \A k \in Consumers : k # c => model'[k] = model[k]
  BY <1>6, <1>7
<1>9. \A p \in Range(n) : /\ p <= seen
                          /\ \E row \in history : row.pos = p /\ row.kind \in KindsOf[c]
  <2>1. ASSUME NEW p \in Range(m)
        PROVE  p <= seen /\ \E row \in history : row.pos = p /\ row.kind \in KindsOf[c]
    <3>1. p <= cur /\ \E row \in history : row.pos = p /\ row.kind \in KindsOf[c]
      BY <1>2 DEF FedOK
    <3>2. p \in Nat
      BY <1>2 DEF Range
    <3> QED BY <1>3, <3>1, <3>2
  <2>2. ASSUME NEW p \in Range(t)
        PROVE  p <= seen /\ \E row \in history : row.pos = p /\ row.kind \in KindsOf[c]
    <3>1. PICK row \in page : p = row.pos
      BY <1>4 DEF Positions
    <3> QED BY <1>1, <1>3, <3>1
  <2> QED BY <1>7, <2>1, <2>2
<1>10. ASSUME NEW row \in IF c \in Tolerant THEN db.events ELSE history,
              row.kind \in KindsOf[c], row.pos <= seen
       PROVE  row.pos \in Range(n)
  <2>0. row \in history /\ row.pos \in Nat
    BY <1>1 DEF Row
  <2>1. CASE row.pos <= cur
    <3>1. row.pos \in Range(m)
      BY <1>2, <1>10, <2>1 DEF FedOK
    <3> QED BY <1>7, <3>1
  <2>2. CASE row.pos > cur /\ row \in db.events
    <3>1. row \in page
      BY <1>3, <1>10, <2>2
    <3> QED BY <1>4, <1>7, <3>1 DEF Positions
  <2>3. CASE row.pos > cur /\ row \notin db.events
    <3>1. c \notin Tolerant
      BY <1>10, <2>3
    <3>2. ~(cur < Watermark(db))
      BY <3>1 DEF Refuses, CompleteFrom, cur
    <3>3. /\ Watermark(db) \in Nat
          /\ \A i \in DOMAIN db.ledger : db.ledger[i] <= Watermark(db)
      BY <1>1, WatermarkBounds DEF LedgerOK
    <3>4. PICK i \in DOMAIN db.ledger : row.pos <= db.ledger[i]
      BY <1>1, <2>0, <2>3 DEF LedgerOK
    <3>5. db.ledger[i] \in Nat /\ db.ledger[i] <= Watermark(db)
      BY <1>1, <3>3 DEF Tables
    <3> QED BY <1>3, <2>0, <2>3, <3>2, <3>3, <3>4, <3>5
  <2> QED BY <1>3, <2>0, <2>1, <2>2, <2>3
<1> HIDE DEF n
<1>11. FedOK(c, n, e, history)
  <2>1. n \in Seq(Nat) /\ \A i, j \in DOMAIN n : i < j => n[i] < n[j]
    BY <1>7 DEF n
  <2>2. LoadCheckpoint(e, c) <= e.autoinc
    BY <1>3, <1>5
  <2> QED BY <1>5, <1>9, <1>10, <2>1, <2>2 DEF FedOK
<1>12. LoadCheckpoint(e, c) >= cur
  BY <1>3, <1>5
<1> QED BY <1>5, <1>8, <1>11, <1>12 DEF e, cur

\* The rewind of a rebuild.
LEMMA ResetKeeps ==
  ASSUME LogOK, NEW c \in Consumers, model \in [Consumers -> Seq(Nat)], Reset(c)
  PROVE  /\ Numbered(db', history) /\ LedgerOK(db', history)
         /\ db'.events = db.events /\ db'.autoinc = db.autoinc /\ db'.ledger = db.ledger
         /\ model' \in [Consumers -> Seq(Nat)]
         /\ FedOK(c, model'[c], db', history)
         /\ LoadCheckpoint(db', c) = 0
         /\ \A k \in Consumers : k # c => /\ model'[k] = model[k]
                                          /\ LoadCheckpoint(db', k) = LoadCheckpoint(db, k)
<1> DEFINE e == db'
<1>1. /\ Numbered(db, history) /\ LedgerOK(db, history) /\ db \in Tables
      /\ history \subseteq Row /\ db.events \subseteq history /\ db.autoinc \in Nat
  BY DEF LogOK, Numbered, Tables
<1>2. e = SaveCheckpoint(db, c, 0) /\ model' = [model EXCEPT ![c] = <<>>]
  BY DEF Reset
<1> HIDE DEF e
<1>3. /\ Numbered(e, history) /\ LedgerOK(e, history) /\ LoadCheckpoint(e, c) = 0
      /\ e.events = db.events /\ e.autoinc = db.autoinc /\ e.ledger = db.ledger
      /\ \A k \in Consumers : k # c => LoadCheckpoint(e, k) = LoadCheckpoint(db, k)
  BY <1>1, <1>2, Saved
<1>4. /\ model' \in [Consumers -> Seq(Nat)] /\ model'[c] = <<>>
      /\ \A k \in Consumers : k # c => model'[k] = model[k]
  BY <1>2
<1>5. FedOK(c, <<>>, e, history)
  <2>1. <<>> \in Seq(Nat) /\ DOMAIN <<>> = {} /\ Range(<<>>) = {}
    BY DEF Range
  <2>2. ASSUME NEW row \in IF c \in Tolerant THEN e.events ELSE history
        PROVE  ~(row.pos <= 0)
    <3>1. row \in Row
      BY <1>1, <1>3
    <3> QED BY <3>1 DEF Row
  <2>3. 0 <= e.autoinc
    BY <1>1, <1>3
  <2> QED BY <1>3, <2>1, <2>2, <2>3 DEF FedOK
<1> QED BY <1>3, <1>4, <1>5 DEF e

-----------------------------------------------------------------------------
(* Jobs and their owners.                                                  *)

\* The values of a runner and of a queue.
LEMMA Shapes ==
  ASSUME QueueOK(queue, runner), NEW h \in Handles
  PROVE  /\ queue[h] \in Seq(JobOut) /\ Len(queue[h]) \in Nat
         /\ DOMAIN queue[h] = 1..Len(queue[h])
         /\ \A i \in DOMAIN queue[h] : queue[h][i] \in JobOut
BY DEF QueueOK

\* A runner with no job out changes, and its queue with it or not.
LEMMA RunnerAlone ==
  ASSUME runner \in [Runners -> Running], QueueOK(queue, runner), NEW r \in Runners,
         runner[r].st # "busy", NEW new \in Running,
         runner' = [runner EXCEPT ![r] = new], UNCHANGED queue
  PROVE  runner' \in [Runners -> Running] /\ QueueOK(queue, runner)'
<1>1. /\ runner' \in [Runners -> Running]
      /\ \A q \in Runners : q # r => runner'[q] = runner[q]
  OBVIOUS
<1>2. ASSUME NEW h \in Handles, NEW i \in DOMAIN queue[h], queue[h][i].owner # Nobody
      PROVE  /\ runner'[queue[h][i].owner].st = "busy" /\ HandleAt[queue[h][i].owner] = h
             /\ \A j \in DOMAIN queue[h] : queue[h][j].owner = queue[h][i].owner => j = i
  <2>1. /\ runner[queue[h][i].owner].st = "busy" /\ HandleAt[queue[h][i].owner] = h
        /\ \A j \in DOMAIN queue[h] : queue[h][j].owner = queue[h][i].owner => j = i
    BY <1>2 DEF QueueOK
  <2>2. queue[h][i].owner \in Runners
    BY <1>2, Shapes DEF JobOut
  <2> QED BY <1>1, <2>1, <2>2
<1>3. queue' = queue /\ QueueOK(queue, runner')
  BY <1>2 DEF QueueOK
<1> QED BY <1>1, <1>3

\* A runner with no job out sends one.
LEMMA SubmitOK ==
  ASSUME runner \in [Runners -> Running], QueueOK(queue, runner), NEW r \in Runners,
         runner[r].st # "busy", NEW new \in Running, new.st = "busy",
         NEW op \in {"fold", "reset"},
         runner' = [runner EXCEPT ![r] = new], Submit(r, op)
  PROVE  runner' \in [Runners -> Running] /\ QueueOK(queue, runner)'
<1> DEFINE k == HandleAt[r]
           job == [owner |-> r, name |-> NameOf[r], op |-> op]
           n == Len(queue[k])
<1>1. /\ runner' \in [Runners -> Running] /\ runner'[r] = new
      /\ \A q \in Runners : q # r => runner'[q] = runner[q]
  OBVIOUS
<1>2. k \in Handles /\ job \in JobOut
  BY RunnersAssumption DEF JobOut
<1>3. /\ queue' = [queue EXCEPT ![k] = Append(queue[k], job)]
      /\ queue \in [Handles -> Seq(JobOut)]
  BY DEF Submit, QueueOK
<1>4. r # Nobody /\ job.owner = r
  BY NobodyAssumption
<1> HIDE DEF job
<1>5. /\ n \in Nat /\ queue' \in [Handles -> Seq(JobOut)]
      /\ DOMAIN queue[k] = 1..n /\ DOMAIN queue'[k] = 1..(n + 1)
      /\ \A i \in 1..n : queue'[k][i] = queue[k][i]
      /\ queue'[k][n + 1] = job
      /\ \A h \in Handles : h # k => queue'[h] = queue[h]
  BY <1>2, <1>3 DEF k
<1>6. ASSUME NEW h \in Handles, NEW i \in DOMAIN queue[h], queue[h][i].owner # Nobody
      PROVE  /\ queue[h][i].owner \in Runners /\ queue[h][i].owner # r
             /\ runner'[queue[h][i].owner].st = "busy" /\ HandleAt[queue[h][i].owner] = h
             /\ \A j \in DOMAIN queue[h] : queue[h][j].owner = queue[h][i].owner => j = i
  <2>1. /\ runner[queue[h][i].owner].st = "busy" /\ HandleAt[queue[h][i].owner] = h
        /\ \A j \in DOMAIN queue[h] : queue[h][j].owner = queue[h][i].owner => j = i
    BY <1>6 DEF QueueOK
  <2>2. queue[h][i].owner \in Runners
    BY <1>6, Shapes DEF JobOut
  <2> QED BY <1>1, <2>1, <2>2
<1> HIDE DEF k, n
<1>7. ASSUME NEW h \in Handles, NEW i \in DOMAIN queue'[h], queue'[h][i].owner # Nobody
      PROVE  /\ runner'[queue'[h][i].owner].st = "busy" /\ HandleAt[queue'[h][i].owner] = h
             /\ \A j \in DOMAIN queue'[h] : queue'[h][j].owner = queue'[h][i].owner => j = i
  <2>1. CASE h # k
    BY <1>5, <1>6, <1>7, <2>1
  <2>2. CASE h = k /\ i \in 1..n
    <3>1. i \in DOMAIN queue[k] /\ queue'[k][i] = queue[k][i]
      BY <1>5, <2>2
    <3>2. ASSUME NEW j \in DOMAIN queue'[k], queue'[k][j].owner = queue'[k][i].owner
          PROVE  j = i
      <4>1. CASE j \in 1..n
        BY <1>2, <1>5, <1>6, <1>7, <2>2, <3>1, <3>2, <4>1
      <4>2. CASE j = n + 1
        BY <1>2, <1>4, <1>5, <1>6, <1>7, <2>2, <3>1, <3>2, <4>2
      <4> QED BY <1>5, <4>1, <4>2
    <3> QED BY <1>2, <1>6, <1>7, <2>2, <3>1, <3>2
  <2>3. CASE h = k /\ i = n + 1
    <3>1. queue'[k][i].owner = r
      BY <1>4, <1>5, <2>3
    <3>2. ASSUME NEW j \in DOMAIN queue'[k], queue'[k][j].owner = r
          PROVE  j = i
      <4>1. CASE j \in 1..n
        BY <1>2, <1>4, <1>5, <1>6, <3>2, <4>1
      <4> QED BY <1>5, <2>3, <4>1
    <3> QED BY <1>1, <2>3, <3>1, <3>2 DEF k
  <2> QED BY <1>2, <1>5, <1>7, <2>1, <2>2, <2>3
<1>8. QueueOK(queue', runner')
  BY <1>5, <1>7 DEF QueueOK
<1> QED BY <1>1, <1>8

\* A runner is gone, and a job it has out is nobody's.
LEMMA DisownOK ==
  ASSUME runner \in [Runners -> Running], QueueOK(queue, runner), NEW r \in Runners,
         NEW new \in Running, runner' = [runner EXCEPT ![r] = new], Disown(r)
  PROVE  runner' \in [Runners -> Running] /\ QueueOK(queue, runner)'
<1> DEFINE k == HandleAt[r]
           freed(j) == IF j.owner = r THEN [j EXCEPT !.owner = Nobody] ELSE j
           list == [i \in DOMAIN queue[k] |-> freed(queue[k][i])]
<1>1. /\ runner' \in [Runners -> Running]
      /\ \A q \in Runners : q # r => runner'[q] = runner[q]
  OBVIOUS
<1>2. /\ k \in Handles /\ r # Nobody
      /\ queue' = [queue EXCEPT ![k] = list] /\ queue \in [Handles -> Seq(JobOut)]
  BY RunnersAssumption, NobodyAssumption DEF Disown, QueueOK
<1>3. ASSUME NEW j \in JobOut
      PROVE  /\ freed(j) \in JobOut
             /\ freed(j).owner # Nobody => freed(j) = j /\ j.owner # r /\ j.owner \in Runners
  BY <1>2 DEF JobOut
<1> HIDE DEF freed
<1>4. list \in Seq(JobOut)
  <2>1. /\ Len(queue[k]) \in Nat /\ DOMAIN queue[k] = 1..Len(queue[k])
        /\ \A i \in DOMAIN queue[k] : freed(queue[k][i]) \in JobOut
    BY <1>2, <1>3, Shapes
  <2>2. list \in [1..Len(queue[k]) -> JobOut]
    BY <2>1
  <2> HIDE DEF list
  <2> QED BY <2>1, <2>2
<1>5. /\ queue' \in [Handles -> Seq(JobOut)] /\ queue'[k] = list
      /\ \A h \in Handles : h # k => queue'[h] = queue[h]
  <2> HIDE DEF list, k
  <2> QED BY <1>2, <1>4
<1>6. DOMAIN list = DOMAIN queue[k] /\ \A i \in DOMAIN queue[k] : list[i] = freed(queue[k][i])
  OBVIOUS
<1> HIDE DEF list
<1>7. ASSUME NEW h \in Handles, NEW i \in DOMAIN queue'[h]
      PROVE  /\ DOMAIN queue'[h] = DOMAIN queue[h]
             /\ queue'[h][i].owner # Nobody =>
                  /\ queue'[h][i] = queue[h][i] /\ queue[h][i].owner # r
                  /\ queue[h][i].owner \in Runners
  <2>1. CASE h = k
    <3>1. DOMAIN queue'[h] = DOMAIN queue[h] /\ queue'[h][i] = freed(queue[h][i])
      BY <1>2, <1>5, <1>6, <1>7, <2>1
    <3>2. queue[h][i] \in JobOut
      BY <1>7, <3>1, Shapes
    <3> QED BY <1>3, <3>1, <3>2
  <2>2. CASE h # k
    <3>1. queue'[h] = queue[h]
      BY <1>5, <2>2
    <3>2. queue[h][i] \in JobOut
      BY <1>7, <3>1, Shapes
    <3>3. ASSUME queue[h][i].owner # Nobody
          PROVE  queue[h][i].owner # r /\ queue[h][i].owner \in Runners
      <4>1. HandleAt[queue[h][i].owner] = h
        BY <1>7, <3>1, <3>3 DEF QueueOK
      <4> QED BY <2>2, <3>2, <3>3, <4>1 DEF JobOut
    <3> QED BY <3>1, <3>3
  <2> QED BY <2>1, <2>2
<1> HIDE DEF k
<1>8. ASSUME NEW h \in Handles, NEW i \in DOMAIN queue'[h], queue'[h][i].owner # Nobody
      PROVE  /\ runner'[queue'[h][i].owner].st = "busy" /\ HandleAt[queue'[h][i].owner] = h
             /\ \A j \in DOMAIN queue'[h] : queue'[h][j].owner = queue'[h][i].owner => j = i
  <2>1. /\ queue'[h][i] = queue[h][i] /\ queue[h][i].owner # r /\ i \in DOMAIN queue[h]
        /\ queue[h][i].owner \in Runners /\ queue[h][i].owner # Nobody
        /\ DOMAIN queue'[h] = DOMAIN queue[h]
    BY <1>7, <1>8
  <2>2. /\ runner[queue[h][i].owner].st = "busy" /\ HandleAt[queue[h][i].owner] = h
        /\ \A j \in DOMAIN queue[h] : queue[h][j].owner = queue[h][i].owner => j = i
    BY <2>1 DEF QueueOK
  <2>3. ASSUME NEW j \in DOMAIN queue'[h], queue'[h][j].owner = queue'[h][i].owner
        PROVE  j = i
    <3>1. queue'[h][j] = queue[h][j] /\ j \in DOMAIN queue[h]
      BY <1>7, <1>8, <2>1, <2>3
    <3> QED BY <2>1, <2>2, <2>3, <3>1
  <2> QED BY <1>1, <2>1, <2>2, <2>3
<1>9. QueueOK(queue', runner')
  BY <1>5, <1>8 DEF QueueOK
<1> QED BY <1>1, <1>9

\* The job at the head is answered.
LEMMA AnsweredOK ==
  ASSUME runner \in [Runners -> Running], QueueOK(queue, runner), NEW k \in Handles,
         queue[k] # <<>>, NEW ans \in {"ok", "applied", "refused", "failed", "lost"},
         Answered(k, ans)
  PROVE  runner' \in [Runners -> Running] /\ QueueOK(queue, runner)'
<1> DEFINE o == Head(queue[k]).owner
           n == Len(queue[k])
<1>1. /\ n \in Nat /\ n >= 1 /\ DOMAIN queue[k] = 1..n /\ queue[k][1].owner = o
      /\ queue[k][1] \in JobOut /\ queue \in [Handles -> Seq(JobOut)]
  BY Shapes DEF QueueOK
<1>2. /\ queue' = [queue EXCEPT ![k] = Tail(queue[k])]
      /\ IF o = Nobody THEN runner' = runner
         ELSE runner' = [runner EXCEPT ![o] = [runner[o] EXCEPT !.st = "back", !.ans = ans]]
  BY DEF Answered, Sets
<1>3. o \in Runners \cup {Nobody}
  BY <1>1 DEF JobOut
<1>4. /\ runner' \in [Runners -> Running]
      /\ \A q \in Runners : q # o => runner'[q] = runner[q]
  <2>1. ASSUME o \in Runners
        PROVE  [runner[o] EXCEPT !.st = "back", !.ans = ans] \in Running
    BY <2>1 DEF Running
  <2> HIDE DEF o
  <2> QED BY <1>2, <1>3, <2>1
<1>5. /\ queue' \in [Handles -> Seq(JobOut)]
      /\ DOMAIN queue'[k] = 1..(n - 1)
      /\ \A i \in 1..(n - 1) : queue'[k][i] = queue[k][i + 1]
      /\ \A h \in Handles : h # k => queue'[h] = queue[h]
  BY <1>1, <1>2
<1>6. o # Nobody => HandleAt[o] = k /\ \A j \in DOMAIN queue[k] : queue[k][j].owner = o => j = 1
  <2>1. 1 \in DOMAIN queue[k]
    BY <1>1
  <2> QED BY <1>1, <2>1 DEF QueueOK
<1> HIDE DEF o, n
<1>7. ASSUME NEW h \in Handles, NEW i \in DOMAIN queue[h], queue[h][i].owner # Nobody,
             queue[h][i].owner # o
      PROVE  /\ runner'[queue[h][i].owner].st = "busy" /\ HandleAt[queue[h][i].owner] = h
             /\ \A j \in DOMAIN queue[h] : queue[h][j].owner = queue[h][i].owner => j = i
  <2>1. /\ runner[queue[h][i].owner].st = "busy" /\ HandleAt[queue[h][i].owner] = h
        /\ \A j \in DOMAIN queue[h] : queue[h][j].owner = queue[h][i].owner => j = i
    BY <1>7 DEF QueueOK
  <2>2. queue[h][i].owner \in Runners
    BY <1>7, Shapes DEF JobOut
  <2> QED BY <1>4, <1>7, <2>1, <2>2
<1>8. ASSUME NEW h \in Handles, NEW i \in DOMAIN queue'[h], queue'[h][i].owner # Nobody
      PROVE  /\ runner'[queue'[h][i].owner].st = "busy" /\ HandleAt[queue'[h][i].owner] = h
             /\ \A j \in DOMAIN queue'[h] : queue'[h][j].owner = queue'[h][i].owner => j = i
  <2>1. CASE h # k
    <3>1. queue'[h] = queue[h]
      BY <1>5, <2>1
    <3>2. queue[h][i].owner # o
      <4>1. HandleAt[queue[h][i].owner] = h
        BY <1>8, <3>1 DEF QueueOK
      <4> QED BY <1>6, <1>8, <2>1, <3>1, <4>1
    <3> QED BY <1>7, <1>8, <3>1, <3>2
  <2>2. CASE h = k
    <3>1. /\ i \in 1..(n - 1) /\ i + 1 \in DOMAIN queue[k] /\ i + 1 # 1
          /\ queue'[k][i] = queue[k][i + 1]
      BY <1>1, <1>5, <1>8, <2>2
    <3>2. queue[k][i + 1].owner # o
      BY <1>6, <1>8, <2>2, <3>1
    <3>3. /\ runner'[queue[k][i + 1].owner].st = "busy" /\ HandleAt[queue[k][i + 1].owner] = k
          /\ \A j \in DOMAIN queue[k] : queue[k][j].owner = queue[k][i + 1].owner => j = i + 1
      BY <1>7, <1>8, <2>2, <3>1, <3>2
    <3>4. ASSUME NEW j \in DOMAIN queue'[k], queue'[k][j].owner = queue'[k][i].owner
          PROVE  j = i
      <4>1. j \in 1..(n - 1) /\ j + 1 \in DOMAIN queue[k] /\ queue'[k][j] = queue[k][j + 1]
        BY <1>1, <1>5, <3>4
      <4>2. j + 1 = i + 1
        BY <3>1, <3>3, <3>4, <4>1
      <4> QED BY <1>1, <3>1, <4>1, <4>2
    <3> QED BY <2>2, <3>1, <3>3, <3>4
  <2> QED BY <2>1, <2>2
<1>9. QueueOK(queue', runner')
  BY <1>5, <1>8 DEF QueueOK
<1> QED BY <1>4, <1>9

-----------------------------------------------------------------------------
(* The steps.                                                              *)

\* The tables and the models stay, and jobs and runners keep their shape.
LEMMA LogStays ==
  ASSUME IInv, UNCHANGED <<db, history, model>>, WakesOK',
         runner' \in [Runners -> Running], QueueOK(queue, runner)'
  PROVE  IInv'
<1>1. Numbered(db', history') /\ LedgerOK(db', history')
  BY DEF IInv, LogOK, Numbered, LedgerOK
<1>2. \A c \in Consumers : FedOK(c, model[c], db, history)'
  BY DEF IInv
<1> QED BY <1>1, <1>2 DEF IInv, LogOK

\* Commits, wake-ups and removals.
LEMMA WritersOK == ASSUME IInv, Writers, UNCHANGED <<model, runner, queue>> PROVE IInv'
<1>1. Numbered(db, history) /\ LedgerOK(db, history) /\ WakesOK /\ db \in Tables
  BY DEF IInv, LogOK, Numbered
<1>2. /\ Numbered(db', history') /\ WakesOK' /\ db'.autoinc >= db.autoinc
      /\ \A row \in db'.events \ db.events : row.pos > db.autoinc
  BY <1>1, LogMoves
<1>3. /\ LedgerOK(db', history') /\ db'.ckpt = db.ckpt /\ history \subseteq history'
      /\ \A row \in history' \ history : row.pos > db.autoinc
  BY <1>1, LedgerMoves
<1>4. ASSUME NEW c \in Consumers PROVE FedOK(c, model[c], db', history')
  <2> DEFINE e == db'
             g == history'
  <2>1. /\ e \in Tables /\ g \subseteq Row /\ e.events \subseteq g
        /\ LoadCheckpoint(e, c) = LoadCheckpoint(db, c)
    BY <1>2, <1>3 DEF Numbered, LoadCheckpoint
  <2>2. /\ e.autoinc >= db.autoinc /\ history \subseteq g
        /\ \A row \in g \ history : row.pos > db.autoinc
        /\ \A row \in e.events \ db.events : row.pos > db.autoinc
    BY <1>2, <1>3
  <2>3. FedOK(c, model[c], db, history)
    BY DEF IInv
  <2> HIDE DEF e, g
  <2>4. FedOK(c, model[c], e, g)
    BY <1>1, <2>1, <2>2, <2>3, FedStays
  <2> QED BY <2>4 DEF e, g
<1>5. \A c \in Consumers : FedOK(c, model[c], db, history)'
  BY <1>4
<1>6. QueueOK(queue, runner)'
  BY DEF IInv
<1> QED BY <1>2, <1>3, <1>5, <1>6 DEF IInv, LogOK

\* A runner's own steps touch no table.
LEMMA RunnersOK ==
  ASSUME IInv, NEW r \in Runners,
         \/ Make(r) \/ RunnerStep(r) \/ Abandon(r) \/ Drop(r)
         \/ \E verb \in VerbsOf[r] : Begin(r, verb)
  PROVE  IInv'
<1> DEFINE me == runner[r]
<1>1. /\ runner \in [Runners -> Running] /\ QueueOK(queue, runner) /\ me \in Running
      /\ VerbsOf[r] \subseteq Verbs /\ Channel(r) \in Nat
  BY RunnersAssumption DEF IInv, LogOK, WakesOK, Heard, Channel, Verbs
<1>2. UNCHANGED <<db, history, model>> /\ WakesOK'
  <2>1. UNCHANGED <<logVars, wakeVars, model>>
    BY DEF Make, RunnerStep, GoOn, Park, Finish, NextRound, Abandon, Drop, Begin
  <2> QED BY <2>1 DEF IInv, LogOK, WakesOK, Heard, logVars, wakeVars
<1>3. None \in Running /\ \A st \in {"none", "ready", "lost"} : [None EXCEPT !.st = st] \in Running
  BY DEF None, Running, Verbs
<1>4. ASSUME Make(r) \/ Park(r) \/ Finish(r) PROVE IInv'
  <2>1. PICK new \in Running : runner' = [runner EXCEPT ![r] = new]
    <3>1. [me EXCEPT !.st = "wait"] \in Running
      BY <1>1 DEF Running
    <3> QED BY <1>3, <1>4, <3>1 DEF Make, Park, Finish, Sets
  <2>2. me.st # "busy" /\ queue' = queue
    BY <1>4 DEF Make, Park, Finish
  <2> QED BY <1>1, <1>2, <2>1, <2>2, RunnerAlone, LogStays
<1>5. ASSUME GoOn(r) \/ NextRound(r) \/ \E verb \in VerbsOf[r] : Begin(r, verb) PROVE IInv'
  <2>1. CASE GoOn(r)
    <3> DEFINE new == [me EXCEPT !.st = "busy", !.ans = "ok",
                                 !.verb = IF @ = "rebuild" THEN "catch_up" ELSE @]
    <3>1. new \in Running /\ new.st = "busy"
      BY <1>1 DEF Running, Verbs
    <3>2. me.st # "busy" /\ runner' = [runner EXCEPT ![r] = new] /\ Submit(r, "fold")
      BY <2>1 DEF GoOn, Sets
    <3> HIDE DEF new
    <3> QED BY <1>1, <1>2, <3>1, <3>2, SubmitOK, LogStays
  <2>2. CASE NextRound(r)
    <3> DEFINE new == [me EXCEPT !.st = "busy", !.seen = Channel(r)]
    <3>1. new \in Running /\ new.st = "busy"
      BY <1>1 DEF Running
    <3>2. me.st # "busy" /\ runner' = [runner EXCEPT ![r] = new] /\ Submit(r, "fold")
      BY <2>2 DEF NextRound, Sets
    <3> HIDE DEF new
    <3> QED BY <1>1, <1>2, <3>1, <3>2, SubmitOK, LogStays
  <2>3. ASSUME NEW verb \in VerbsOf[r], Begin(r, verb) PROVE IInv'
    <3> DEFINE new == [None EXCEPT !.st = "busy", !.verb = verb,
                                   !.seen = IF verb = "follow" THEN Channel(r) ELSE 0]
               op == IF verb = "rebuild" THEN "reset" ELSE "fold"
    <3>1. new \in Running /\ new.st = "busy" /\ op \in {"fold", "reset"}
      BY <1>1, <1>3 DEF Running, None
    <3>2. me.st # "busy" /\ runner' = [runner EXCEPT ![r] = new] /\ Submit(r, op)
      BY <2>3 DEF Begin, Sets
    <3> HIDE DEF new, op
    <3> QED BY <1>1, <1>2, <3>1, <3>2, SubmitOK, LogStays
  <2> QED BY <1>5, <2>1, <2>2, <2>3
<1>6. ASSUME Abandon(r) \/ Drop(r) PROVE IInv'
  <2>1. PICK new \in Running : runner' = [runner EXCEPT ![r] = new]
    BY <1>3, <1>6 DEF Abandon, Drop, Sets
  <2>2. Disown(r)
    BY <1>6 DEF Abandon, Drop
  <2> QED BY <1>1, <1>2, <2>1, <2>2, DisownOK, LogStays
<1> QED BY <1>4, <1>5, <1>6 DEF RunnerStep

\* A transaction of a writer's queue.
LEMMA WriterStepOK ==
  ASSUME IInv, NEW h \in Handles,
         WriterStep(h) \/ \E ans \in {"failed", "lost"} : RollsBack(h, ans)
  PROVE  IInv'
<1>1. /\ LogOK /\ WakesOK /\ runner \in [Runners -> Running] /\ QueueOK(queue, runner)
      /\ model \in [Consumers -> Seq(Nat)] /\ history \subseteq Row
      /\ \A k \in Consumers : FedOK(k, model[k], db, history)
  BY DEF IInv, LogOK, Numbered
<1>2. PICK ans \in {"ok", "applied", "refused", "failed", "lost"} :
        queue[h] # <<>> /\ Answered(h, ans)
  BY DEF WriterStep, RunBatch, RunReset, RollsBack, Job
<1>3. /\ runner' \in [Runners -> Running] /\ QueueOK(queue, runner)'
      /\ history' = history /\ notify' = notify /\ unpublished' = unpublished
  BY <1>1, <1>2, AnsweredOK DEF Answered, wakeVars
<1> DEFINE c == Head(queue[h]).name
<1>4. c \in Consumers
  <2>1. queue[h] \in Seq(JobOut)
    BY <1>1 DEF QueueOK
  <2>2. Head(queue[h]) \in JobOut
    BY <1>2, <2>1
  <2> QED BY <2>2 DEF JobOut
<1>5. CASE UNCHANGED <<db, model>>
  <2>1. WakesOK'
    BY <1>1, <1>3, <1>5 DEF WakesOK, Heard
  <2> QED BY <1>3, <1>5, <2>1, LogStays
<1>6. CASE (~Refuses(c, Cursor(c)) /\ Fold(c)) \/ Reset(c)
  <2> HIDE DEF c
  <2>1. /\ Numbered(db', history) /\ LedgerOK(db', history)
        /\ db'.events = db.events /\ db'.autoinc = db.autoinc
        /\ model' \in [Consumers -> Seq(Nat)] /\ FedOK(c, model'[c], db', history)
        /\ \A k \in Consumers : k # c => /\ model'[k] = model[k]
                                         /\ LoadCheckpoint(db', k) = LoadCheckpoint(db, k)
    BY <1>1, <1>4, <1>6, FoldKeeps, ResetKeeps
  <2>2. ASSUME NEW k \in Consumers PROVE FedOK(k, model'[k], db', history')
    <3>1. CASE k = c
      BY <1>3, <2>1, <3>1
    <3>2. CASE k # c
      <4> DEFINE e == db'
      <4>1. /\ e \in Tables /\ db \in Tables /\ db.events \subseteq history /\ db.autoinc \in Nat
        BY <1>1, <2>1 DEF LogOK, Numbered, Tables
      <4>2. /\ e.events = db.events /\ e.autoinc = db.autoinc
            /\ LoadCheckpoint(e, k) = LoadCheckpoint(db, k) /\ model'[k] = model[k]
        BY <2>1, <3>2
      <4> HIDE DEF e
      <4>3. e.autoinc >= db.autoinc
        BY <4>1, <4>2
      <4>4. FedOK(k, model[k], e, history)
        BY <1>1, <4>1, <4>2, <4>3, FedStays
      <4> QED BY <1>3, <4>2, <4>4 DEF e
    <3> QED BY <3>1, <3>2
  <2>3. \A k \in Consumers : FedOK(k, model[k], db, history)'
    BY <2>2
  <2>4. Numbered(db', history') /\ LedgerOK(db', history') /\ WakesOK'
    BY <1>1, <1>3, <2>1 DEF WakesOK, Heard, Numbered, LedgerOK
  <2> QED BY <1>3, <2>1, <2>3, <2>4 DEF IInv, LogOK
<1> QED BY <1>5, <1>6 DEF WriterStep, RunBatch, RunReset, RollsBack

\* A process dies, with its queue, its runners and what it had not published.
LEMMA CrashOK == ASSUME IInv, NEW k \in Handles, Crash(k) PROVE IInv'
<1>1. /\ WakesOK /\ runner \in [Runners -> Running] /\ QueueOK(queue, runner)
  BY DEF IInv, LogOK
<1>2. /\ queue' = [queue EXCEPT ![k] = <<>>]
      /\ runner' = [r \in Runners |-> IF HandleAt[r] = k THEN None ELSE runner[r]]
      /\ unpublished' = [unpublished EXCEPT ![k] = {}]
      /\ UNCHANGED <<db, history, model, notify>>
  BY DEF Crash, logVars
<1>3. runner' \in [Runners -> Running]
  <2>1. None \in Running
    BY DEF None, Running, Verbs
  <2> QED BY <1>1, <1>2, <2>1
<1>4. WakesOK'
  <2>1. /\ unpublished' \in [Handles -> SUBSET Nat]
        /\ \A h \in Handles : unpublished'[h] \subseteq unpublished[h]
    BY <1>1, <1>2 DEF WakesOK, Heard
  <2> QED BY <1>1, <1>2, <2>1 DEF WakesOK, Heard
<1>5. queue' \in [Handles -> Seq(JobOut)] /\ queue'[k] = <<>>
      /\ \A h \in Handles : h # k => queue'[h] = queue[h]
  BY <1>1, <1>2 DEF QueueOK
<1>6. ASSUME NEW h \in Handles, NEW i \in DOMAIN queue'[h], queue'[h][i].owner # Nobody
      PROVE  /\ runner'[queue'[h][i].owner].st = "busy" /\ HandleAt[queue'[h][i].owner] = h
             /\ \A j \in DOMAIN queue'[h] : queue'[h][j].owner = queue'[h][i].owner => j = i
  <2>1. h # k
    BY <1>5, <1>6
  <2>2. queue'[h] = queue[h]
    BY <1>5, <2>1
  <2>3. /\ runner[queue[h][i].owner].st = "busy" /\ HandleAt[queue[h][i].owner] = h
        /\ \A j \in DOMAIN queue[h] : queue[h][j].owner = queue[h][i].owner => j = i
    BY <1>1, <1>6, <2>2 DEF QueueOK
  <2>4. queue[h][i].owner \in Runners
    BY <1>1, <1>6, <2>2, Shapes DEF JobOut
  <2> QED BY <1>2, <2>1, <2>2, <2>3, <2>4
<1>7. QueueOK(queue', runner')
  BY <1>5, <1>6 DEF QueueOK
<1> QED BY <1>2, <1>3, <1>4, <1>7, LogStays

\* A fresh file, and nobody runs.
LEMMA InitOK == ASSUME Init PROVE IInv
<1>1. db = EmptyTables /\ history = {}
  BY DEF Init, LogInit
<1>2. EmptyTables \in Tables
  BY DEF EmptyTables, Tables
<1>3. Numbered(db, history)
  BY <1>1, <1>2, FS_EmptySet DEF Numbered, EmptyTables, Dense
<1>4. db.autoinc = 0 /\ db.events = {} /\ db.ledger = <<>>
      /\ \A c \in Consumers : LoadCheckpoint(db, c) = 0
  BY <1>1 DEF EmptyTables, LoadCheckpoint
<1>5. LedgerOK(db, history)
  <2>1. DOMAIN db.ledger = {}
    BY <1>4
  <2> QED BY <1>1, <2>1 DEF LedgerOK
<1>6. WakesOK
  BY <1>4 DEF Init, WakeInit, WakesOK, Heard
<1>7. None \in Running
  BY DEF None, Running, Verbs
<1>8. runner \in [Runners -> Running]
  BY <1>7 DEF Init
<1>9. QueueOK(queue, runner)
  <2>1. <<>> \in Seq(JobOut) /\ DOMAIN <<>> = {}
    OBVIOUS
  <2>2. queue \in [Handles -> Seq(JobOut)] /\ \A h \in Handles : DOMAIN queue[h] = {}
    BY <2>1 DEF Init
  <2> QED BY <2>2 DEF QueueOK
<1>10. <<>> \in Seq(Nat) /\ DOMAIN <<>> = {} /\ Range(<<>>) = {}
  BY DEF Range
<1>11. model \in [Consumers -> Seq(Nat)] /\ \A c \in Consumers : model[c] = <<>>
  BY <1>10 DEF Init
<1>12. ASSUME NEW c \in Consumers PROVE FedOK(c, model[c], db, history)
  BY <1>1, <1>4, <1>10, <1>11 DEF FedOK
<1> QED BY <1>3, <1>5, <1>6, <1>8, <1>9, <1>11, <1>12 DEF IInv, LogOK

\* Every step keeps the invariant.
LEMMA NextOK == ASSUME IInv, [Next]_vars PROVE IInv'
<1>1. CASE Writers /\ UNCHANGED <<model, runner, queue>>
  BY <1>1, WritersOK
<1>2. ASSUME NEW r \in Runners,
             \/ Make(r) \/ RunnerStep(r) \/ Abandon(r) \/ Drop(r)
             \/ \E verb \in VerbsOf[r] : Begin(r, verb)
      PROVE  IInv'
  BY <1>2, RunnersOK
<1>3. ASSUME NEW h \in Handles,
             WriterStep(h) \/ \E ans \in {"failed", "lost"} : RollsBack(h, ans)
      PROVE  IInv'
  BY <1>3, WriterStepOK
<1>4. ASSUME NEW h \in Handles, Crash(h) PROVE IInv'
  BY <1>4, CrashOK
<1>5. CASE UNCHANGED vars
  <2>1. UNCHANGED <<db, history, model, runner, queue, notify, unpublished>>
    BY <1>5 DEF vars
  <2>2. WakesOK' /\ runner' \in [Runners -> Running] /\ QueueOK(queue, runner)'
    BY <2>1 DEF IInv, LogOK, WakesOK, Heard, QueueOK
  <2> QED BY <2>1, <2>2, LogStays
<1> QED BY <1>1, <1>2, <1>3, <1>4, <1>5 DEF Next

-----------------------------------------------------------------------------
(* The theorems.                                                           *)

\* The invariant holds in every reachable state.
THEOREM Invariance == Spec => []IInv
<1>1. Init => IInv
  BY InitOK
<1>2. IInv /\ [Next]_vars => IInv'
  BY NextOK
<1> QED BY <1>1, <1>2, PTL DEF Spec

\* Every variable keeps its type, and a job that is somebody's is of a runner
\* that waits for it, whoever was dropped or died meanwhile.
THEOREM TypeCorrect == Spec => []TypeOK
<1>1. IInv => TypeOK
  <2> SUFFICES ASSUME IInv PROVE TypeOK
    OBVIOUS
  <2>1. WakeTypeOK
    BY DEF IInv, LogOK, WakesOK, Heard, Numbered, WakeTypeOK, LogTypeOK
  <2>2. \A h \in Handles : \A i \in DOMAIN queue[h] :
          queue[h][i].owner # Nobody => runner[queue[h][i].owner].st = "busy"
    BY DEF IInv, QueueOK
  <2> QED BY <2>1, <2>2 DEF TypeOK, IInv, QueueOK, Running, JobOut
<1>2. QED BY <1>1, Invariance, PTL

\* A read model was fed, in order and once each, exactly what is due up to its
\* cursor, whatever batches, rebuilds, removals, drops and crashes crossed.
THEOREM FoldedExactlyOnce == Spec => []ExactlyOnce
<1>1. IInv => ExactlyOnce
  <2> SUFFICES ASSUME IInv, NEW c \in Consumers
               PROVE  LET fed == Range(model[c]) IN
                      /\ \A i, j \in DOMAIN model[c] : i < j => model[c][i] < model[c][j]
                      /\ fed \subseteq Due(c, history)
                      /\ Due(c, IF c \in Tolerant THEN db.events ELSE history) \subseteq fed
    BY DEF ExactlyOnce
  <2>1. FedOK(c, model[c], db, history)
    BY DEF IInv
  <2>2. Range(model[c]) \subseteq Due(c, history)
    BY <2>1 DEF FedOK, Due, Cursor
  <2>3. Due(c, IF c \in Tolerant THEN db.events ELSE history) \subseteq Range(model[c])
    BY <2>1 DEF FedOK, Due, Cursor
  <2> QED BY <2>1, <2>2, <2>3 DEF FedOK
<1>2. QED BY <1>1, Invariance, PTL

\* A removal under a guard leaves every saved cursor at or above the watermark.
LEMMA GuardSpares ==
  ASSUME IInv, IInv', NEW r \in Removals, r.guard # "Force", Trim(r),
         NEW c \in Consumers, ~Stranded(c)
  PROVE  ~Stranded(c)'
<1> DEFINE e == db'
           H == HighestMatching(db, r.plan)
           cur == db.ckpt[c]
           n == Len(db.ledger)
<1>1. /\ db \in Tables /\ e \in Tables /\ \A i \in DOMAIN db.ledger : db.ledger[i] <= db.autoinc
      /\ \A i \in DOMAIN e.ledger : e.ledger[i] <= e.autoinc
  BY DEF IInv, LogOK, Numbered, LedgerOK
<1>2. /\ e.ckpt = db.ckpt /\ e.ledger = Append(db.ledger, H) /\ ~BehindConsumer(db, H)
  <2>1. e = RemoveMatching(db, r.plan) /\ ~Overruns(db, r.plan, r.guard)
    BY DEF Trim, RetainAnswer
  <2> QED BY <1>1, <2>1 DEF RemoveMatching, Overruns, Tables
<1>3. Watermark(db) \in Nat /\ \A i \in DOMAIN db.ledger : db.ledger[i] <= Watermark(db)
  BY <1>1, WatermarkBounds
<1> HIDE DEF e
<1>4. /\ Watermark(e) \in Nat
      /\ Watermark(e) # 0 => \E i \in DOMAIN e.ledger : Watermark(e) = e.ledger[i]
  BY <1>1, WatermarkBounds
<1> HIDE DEF H
<1>5. SUFFICES ASSUME cur # NoRow, c \notin Tolerant PROVE ~(cur < Watermark(e))
  <2>1. Stranded(c)' <=> e.ckpt[c] # NoRow /\ c \notin Tolerant
                         /\ LoadCheckpoint(e, c) < Watermark(e)
    BY DEF Stranded, Refuses, CompleteFrom, Cursor, e
  <2> QED BY <1>2, <1>5, <2>1 DEF LoadCheckpoint
<1>6. cur \in Nat /\ ~(cur < Watermark(db)) /\ ~(cur < H)
  <2>1. cur \in Nat
    BY <1>1, <1>5 DEF Tables
  <2>2. ~(cur < Watermark(db))
    BY <1>5 DEF Stranded, Refuses, CompleteFrom, Cursor, LoadCheckpoint
  <2>3. ~(cur < H)
    BY <1>2, <1>5 DEF BehindConsumer
  <2> QED BY <2>1, <2>2, <2>3
<1>7. ASSUME NEW i \in DOMAIN e.ledger, Watermark(e) = e.ledger[i] PROVE ~(cur < Watermark(e))
  <2>1. /\ db.ledger \in Seq(Nat) /\ n \in Nat /\ DOMAIN db.ledger = 1..n
        /\ DOMAIN e.ledger = 1..(n + 1)
        /\ \A k \in 1..n : e.ledger[k] = db.ledger[k]
        /\ e.ledger[n + 1] = H
    BY <1>1, <1>2 DEF Tables
  <2>2. CASE i \in 1..n
    <3>1. db.ledger[i] \in Nat /\ db.ledger[i] <= Watermark(db) /\ Watermark(e) = db.ledger[i]
      BY <1>3, <1>7, <2>1, <2>2
    <3> QED BY <1>3, <1>6, <3>1
  <2>3. CASE i = n + 1
    BY <1>6, <1>7, <2>1, <2>3
  <2> QED BY <2>1, <2>2, <2>3
<1>8. CASE Watermark(e) = 0
  BY <1>6, <1>8
<1> QED BY <1>4, <1>7, <1>8

\* Nor does a batch or a rewind.
LEMMA JobsSpare ==
  ASSUME IInv, NEW h \in Handles,
         WriterStep(h) \/ \E ans \in {"failed", "lost"} : RollsBack(h, ans),
         NEW k \in Consumers, ~Stranded(k)
  PROVE  ~Stranded(k)'
<1> DEFINE c == Head(queue[h]).name
<1>1. /\ LogOK /\ db \in Tables /\ QueueOK(queue, runner) /\ queue[h] # <<>>
      /\ model \in [Consumers -> Seq(Nat)]
      /\ \A x \in Consumers : FedOK(x, model[x], db, history)
  BY DEF IInv, LogOK, Numbered, WriterStep, RunBatch, RunReset, RollsBack, Job
<1>2. c \in Consumers
  <2>1. queue[h] \in Seq(JobOut)
    BY <1>1 DEF QueueOK
  <2>2. Head(queue[h]) \in JobOut
    BY <1>1, <2>1
  <2> QED BY <2>2 DEF JobOut
<1>3. \/ UNCHANGED db
      \/ ~Refuses(c, Cursor(c)) /\ Fold(c)
      \/ ~Refuses(c, 0) /\ Reset(c)
  BY DEF WriterStep, RunBatch, RunReset, RollsBack
<1>4. CASE UNCHANGED db
  BY <1>4 DEF Stranded, Refuses, CompleteFrom, Cursor
<1>5. ASSUME NEW at \in Nat, db' = SaveCheckpoint(db, c, at), ~Refuses(c, at)
      PROVE  ~Stranded(k)'
  <2> HIDE DEF c
  <2>1. /\ db'.ledger = db.ledger /\ db'.ckpt = [db.ckpt EXCEPT ![c] = at]
    BY <1>1, <1>5 DEF SaveCheckpoint, Tables
  <2>2. Watermark(db') = Watermark(db)
    BY <2>1 DEF Watermark
  <2>3. CASE k = c
    <3>1. db'.ckpt[k] = at /\ at # NoRow
      BY <1>1, <1>2, <2>1, <2>3 DEF Tables, NoRow
    <3>2. LoadCheckpoint(db', k) = at
      BY <3>1 DEF LoadCheckpoint
    <3> QED BY <1>5, <2>2, <2>3, <3>2 DEF Stranded, Refuses, CompleteFrom, Cursor
  <2>4. CASE k # c
    <3>1. db'.ckpt[k] = db.ckpt[k]
      BY <1>1, <2>1, <2>4 DEF Tables
    <3>2. LoadCheckpoint(db', k) = LoadCheckpoint(db, k)
      BY <3>1 DEF LoadCheckpoint
    <3> QED BY <2>2, <3>1, <3>2 DEF Stranded, Refuses, CompleteFrom, Cursor
  <2> QED BY <2>3, <2>4
<1>6. CASE ~Refuses(c, Cursor(c)) /\ Fold(c)
  <2>1. SUFFICES ASSUME db' = SaveCheckpoint(db, c, SeenThrough(c)), SeenThrough(c) > Cursor(c)
                 PROVE  ~Stranded(k)'
    BY <1>4, <1>6 DEF Fold
  <2> HIDE DEF c
  <2>2. Cursor(c) <= db.autoinc
    BY <1>1, <1>2 DEF FedOK, Cursor
  <2>3. Cursor(c) \in Nat /\ SeenThrough(c) \in Nat
    BY <1>1, <1>2, <2>2, SeenIsPaged
  <2>4. Watermark(db) \in Nat
    BY <1>1, WatermarkBounds DEF LogOK, LedgerOK
  <2>5. ~Refuses(c, SeenThrough(c))
    <3> DEFINE W == Watermark(db)
               s == SeenThrough(c)
               x == Cursor(c)
    <3>1. c \in Tolerant \/ ~(x < W)
      BY <1>6 DEF Refuses, CompleteFrom
    <3>2. s > x /\ s \in Nat /\ x \in Nat /\ W \in Nat
      BY <2>1, <2>3, <2>4
    <3> HIDE DEF W, s, x
    <3>3. c \in Tolerant \/ ~(s < W)
      BY <3>1, <3>2
    <3> QED BY <3>3 DEF W, s, Refuses, CompleteFrom
  <2> QED BY <1>5, <2>1, <2>3, <2>5 DEF c
<1>7. CASE ~Refuses(c, 0) /\ Reset(c)
  BY <1>5, <1>7 DEF Reset
<1> QED BY <1>3, <1>4, <1>6, <1>7

\* No step but a forced removal takes a projection's way forward: not a guarded
\* removal between two batches or inside a rebuild, not a batch, not a rewind.
THEOREM OnlyForceStrandsThem == Spec => OnlyForceStrands
<1> DEFINE Strands == \E c \in Consumers : ~Stranded(c) /\ Stranded(c)'
           Forced == \E r \in Removals : r.guard = "Force" /\ Trim(r)
<1>1. ASSUME IInv, IInv', [Next]_vars, NEW c \in Consumers, ~Stranded(c), ~Forced
      PROVE  ~Stranded(c)'
  <2>1. ASSUME UNCHANGED db PROVE ~Stranded(c)'
    BY <1>1, <2>1 DEF Stranded, Refuses, CompleteFrom, Cursor
  <2>2. ASSUME NEW a \in Appends, Write(a) PROVE ~Stranded(c)'
    <3>1. db'.ledger = db.ledger /\ db'.ckpt = db.ckpt
      BY <1>1, <2>2 DEF Write, AppendRun, SetNextSeq, IInv, LogOK, Numbered, Tables
    <3> QED BY <1>1, <3>1 DEF Stranded, Refuses, CompleteFrom, Cursor, Watermark, LoadCheckpoint
  <2>3. ASSUME NEW r \in Removals, Trim(r) PROVE ~Stranded(c)'
    BY <1>1, <2>3, GuardSpares
  <2>4. CASE Writers
    BY <2>1, <2>2, <2>3, <2>4 DEF Writers, Commit, CommitUnheard, Announce, Forgo, logVars
  <2>5. ASSUME NEW h \in Handles,
               WriterStep(h) \/ \E ans \in {"failed", "lost"} : RollsBack(h, ans)
        PROVE  ~Stranded(c)'
    BY <1>1, <2>5, JobsSpare
  <2>6. ASSUME NEW r \in Runners,
               \/ Make(r) \/ RunnerStep(r) \/ Abandon(r) \/ Drop(r)
               \/ \E verb \in VerbsOf[r] : Begin(r, verb)
        PROVE  UNCHANGED db
    BY <2>6 DEF Make, RunnerStep, GoOn, Park, Finish, NextRound, Abandon, Drop, Begin, logVars
  <2>7. ASSUME NEW h \in Handles, Crash(h) PROVE UNCHANGED db
    BY <2>7 DEF Crash, logVars
  <2>8. CASE UNCHANGED vars
    BY <2>1, <2>8 DEF vars
  <2> QED BY <1>1, <2>1, <2>4, <2>5, <2>6, <2>7, <2>8 DEF Next
<1>2. IInv /\ IInv' /\ [Next]_vars => [Strands => Forced]_vars
  BY <1>1
<1>3. IInv /\ IInv' /\ [Next]_vars => [(\E c \in Consumers : ~Stranded(c) /\ Stranded(c)')
         => \E r \in Removals : r.guard = "Force" /\ Trim(r)]_vars
  BY <1>2
<1>4. QED BY <1>3, Invariance, PTL DEF Spec, OnlyForceStrands

-----------------------------------------------------------------------------
(* A follow that is parked is current: what it answered "ok" to was asked  *)
(* after everything it had marked, and no rewind of its own log comes      *)
(* after it.                                                               *)

Rewinds(job, c) == job.op = "reset" /\ job.name = c

\* A name has one live runner on a log.
OneName(rn) ==
  \A r, q \in Runners :
    /\ rn[r].st # "none" /\ rn[q].st # "none"
    /\ HandleAt[r] = HandleAt[q] /\ NameOf[r] = NameOf[q]
    => r = q

\* A job is its owner's projection's, and a rewind was asked for on its log.
JobsNamed(qu) ==
  \A h \in Handles : \A i \in DOMAIN qu[h] :
    /\ qu[h][i].owner # Nobody => qu[h][i].name = NameOf[qu[h][i].owner]
    /\ qu[h][i].op = "reset" =>
         \E x \in Runners :
           HandleAt[x] = h /\ NameOf[x] = qu[h][i].name /\ "rebuild" \in VerbsOf[x]

\* Everything a runner had marked is folded.
Caught(r, me, d) ==
  \A row \in d.events :
    row.kind \in KindsOf[NameOf[r]] /\ row.pos <= me.seen
      => row.pos <= LoadCheckpoint(d, NameOf[r])

\* A follow, against its log's queue and the tables.
FollowOK(r, me, list, d) ==
  /\ me.st = "wait" => me.verb = "follow" /\ me.ans = "ok"
  /\ me.verb = "follow" =>
       /\ me.seen <= d.autoinc
       /\ me.st = "busy" =>
            \A j \in DOMAIN list : list[j].owner = r =>
              /\ list[j].op = "fold"
              /\ \A i \in DOMAIN list : i > j => ~Rewinds(list[i], NameOf[r])
       /\ me.st \in {"back", "wait"} => \A i \in DOMAIN list : ~Rewinds(list[i], NameOf[r])
       /\ me.st \in {"back", "wait"} /\ me.ans = "ok" /\ ~Rewound(r) => Caught(r, me, d)

FInv ==
  /\ OneName(runner) /\ JobsNamed(queue)
  /\ \A r \in Runners : FollowOK(r, runner[r], queue[HandleAt[r]], db)

\* Tables in which nothing lands at or below a number already given, and in which
\* the cursor of a follow that is caught up is not lowered.
LEMMA FollowKeepsUp ==
  ASSUME NEW d \in Tables, NEW e \in Tables, NEW r \in Runners, NEW me \in Running, NEW list,
         FollowOK(r, me, list, d),
         e.autoinc >= d.autoinc, \A row \in e.events \ d.events : row.pos > d.autoinc,
         me.verb = "follow" /\ me.st \in {"back", "wait"} /\ me.ans = "ok" /\ ~Rewound(r) =>
           LoadCheckpoint(e, NameOf[r]) >= LoadCheckpoint(d, NameOf[r])
  PROVE  FollowOK(r, me, list, e)
<1> DEFINE c == NameOf[r]
           x == LoadCheckpoint(d, c)
           y == LoadCheckpoint(e, c)
<1>1. c \in Consumers
  BY RunnersAssumption
<1>2. /\ d.autoinc \in Nat /\ e.autoinc \in Nat /\ me.seen \in Nat /\ x \in Nat /\ y \in Nat
      /\ d.events \subseteq Row /\ e.events \subseteq Row
  BY <1>1 DEF Tables, LoadCheckpoint, NoRow, Running
<1>3. ASSUME me.verb = "follow", me.st \in {"back", "wait"} /\ me.ans = "ok" /\ ~Rewound(r)
      PROVE  Caught(r, me, e)
  <2>1. Caught(r, me, d) /\ me.seen <= d.autoinc /\ y >= x
    BY <1>3 DEF FollowOK
  <2> HIDE DEF x, y
  <2>2. ASSUME NEW row \in e.events, row.kind \in KindsOf[c], row.pos <= me.seen
        PROVE  row.pos <= y
    <3>1. row.pos \in Nat
      BY <1>2 DEF Row
    <3>2. row \in d.events
      BY <1>2, <2>1, <2>2, <3>1
    <3>3. row.pos <= x
      BY <2>1, <2>2, <3>2 DEF Caught, x, c
    <3> QED BY <1>2, <2>1, <3>1, <3>3
  <2> QED BY <2>2 DEF Caught, y, c
<1>4. me.verb = "follow" => me.seen <= e.autoinc
  BY <1>2 DEF FollowOK
<1> QED BY <1>3, <1>4 DEF FollowOK

\* A runner that does not follow, or has nobody's job out.
LEMMA NoFollow ==
  ASSUME NEW r, NEW me, NEW list, NEW d, me.verb # "follow", me.st # "wait"
  PROVE  FollowOK(r, me, list, d)
BY DEF FollowOK

\* Runners that were not live do not become so.
LEMMA OneNameStays ==
  ASSUME OneName(runner), \A r \in Runners : runner'[r].st # "none" => runner[r].st # "none"
  PROVE  OneName(runner')
BY DEF OneName

\* A job is sent by a runner of its own name, and is the last.
LEMMA SentIsLast ==
  ASSUME IInv, FInv, NEW r \in Runners, runner[r].st \notin {"none", "busy"},
         NEW new \in Running, new.st = "busy",
         new.verb = "follow" => new.seen <= db.autoinc,
         NEW op \in {"fold", "reset"},
         op = "reset" => "rebuild" \in VerbsOf[r] /\ new.verb # "follow",
         runner' = [runner EXCEPT ![r] = new], Submit(r, op), UNCHANGED db
  PROVE  FInv'
<1> DEFINE k == HandleAt[r]
           job == [owner |-> r, name |-> NameOf[r], op |-> op]
           n == Len(queue[k])
<1>1. /\ runner \in [Runners -> Running] /\ QueueOK(queue, runner)
      /\ k \in Handles /\ job \in JobOut /\ queue \in [Handles -> Seq(JobOut)]
      /\ r # Nobody /\ \A x \in Runners : HandleAt[x] \in Handles
  <2>1. NameOf[r] \in Consumers /\ \A x \in Runners : HandleAt[x] \in Handles
    BY RunnersAssumption
  <2>2. r # Nobody
    BY NobodyAssumption
  <2>3. job \in JobOut
    BY <2>1 DEF JobOut
  <2> QED BY <2>1, <2>2, <2>3 DEF IInv, QueueOK
<1>2. /\ runner'[r] = new
      /\ \A q \in Runners : q # r => runner'[q] = runner[q]
  BY <1>1
<1>3. queue' = [queue EXCEPT ![k] = Append(queue[k], job)]
  BY DEF Submit
<1>4. job.owner = r /\ job.name = NameOf[r] /\ job.op = op
  OBVIOUS
<1> HIDE DEF job
<1>5. /\ n \in Nat /\ DOMAIN queue[k] = 1..n /\ DOMAIN queue'[k] = 1..(n + 1)
      /\ \A i \in 1..n : queue'[k][i] = queue[k][i]
      /\ queue'[k][n + 1] = job
      /\ \A h \in Handles : h # k => queue'[h] = queue[h]
  BY <1>1, <1>3
<1>6. OneName(runner')
  BY <1>2, OneNameStays DEF FInv
<1>7. JobsNamed(queue')
  <2> SUFFICES ASSUME NEW h \in Handles, NEW i \in DOMAIN queue'[h]
               PROVE  /\ queue'[h][i].owner # Nobody =>
                           queue'[h][i].name = NameOf[queue'[h][i].owner]
                      /\ queue'[h][i].op = "reset" =>
                           \E x \in Runners : /\ HandleAt[x] = h
                                              /\ NameOf[x] = queue'[h][i].name
                                              /\ "rebuild" \in VerbsOf[x]
    BY DEF JobsNamed
  <2>1. CASE h = k /\ i = n + 1
    BY <1>4, <1>5, <2>1
  <2>2. CASE ~(h = k /\ i = n + 1)
    <3>1. i \in DOMAIN queue[h] /\ queue'[h][i] = queue[h][i]
      BY <1>5, <2>2
    <3> QED BY <3>1 DEF FInv, JobsNamed
  <2> QED BY <2>1, <2>2
<1>8. FollowOK(r, new, queue'[k], db)
  <2>1. ASSUME NEW j \in DOMAIN queue'[k], queue'[k][j].owner = r PROVE j = n + 1
    <3>1. CASE j \in 1..n
      <4>1. j \in DOMAIN queue[k] /\ queue[k][j].owner = r /\ runner[r].st # "busy"
        BY <1>5, <2>1, <3>1
      <4> QED BY <1>1, <4>1 DEF QueueOK
    <3> QED BY <1>5, <2>1, <3>1
  <2>2. ASSUME new.verb = "follow", NEW j \in DOMAIN queue'[k], queue'[k][j].owner = r
        PROVE  /\ queue'[k][j].op = "fold"
               /\ \A i \in DOMAIN queue'[k] : i > j => ~Rewinds(queue'[k][i], NameOf[r])
    <3>1. j = n + 1 /\ op = "fold"
      BY <2>1, <2>2
    <3> QED BY <1>4, <1>5, <3>1
  <2> QED BY <2>2 DEF FollowOK
<1>9. ASSUME NEW q \in Runners, q # r PROVE FollowOK(q, runner[q], queue'[HandleAt[q]], db)
  <2>1. FollowOK(q, runner[q], queue[HandleAt[q]], db)
    BY DEF FInv
  <2>2. CASE HandleAt[q] # k
    BY <1>1, <1>5, <2>1, <2>2
  <2>3. CASE HandleAt[q] = k
    <3>1. runner[q].st # "none" => ~Rewinds(job, NameOf[q])
      BY <1>4, <1>9, <2>3 DEF FInv, OneName, Rewinds
    <3>2. \A i \in DOMAIN queue'[k] : \/ i \in DOMAIN queue[k] /\ queue'[k][i] = queue[k][i]
                                      \/ queue'[k][i] = job
      BY <1>5
    <3>3. \A i \in DOMAIN queue'[k] : queue'[k][i].owner = q =>
            i \in DOMAIN queue[k] /\ queue'[k][i] = queue[k][i]
      BY <1>4, <1>9, <3>2
    <3> HIDE DEF k
    <3>4. FollowOK(q, runner[q], queue[k], db)
      BY <2>1, <2>3
    <3>5. CASE runner[q].st = "none"
      BY <3>4, <3>5 DEF FollowOK
    <3>6. CASE runner[q].st # "none"
      <4>1. \A i \in DOMAIN queue'[k] : Rewinds(queue'[k][i], NameOf[q]) =>
              i \in DOMAIN queue[k] /\ Rewinds(queue[k][i], NameOf[q])
        BY <3>1, <3>2, <3>6
      <4> QED BY <2>3, <3>3, <3>4, <4>1 DEF FollowOK
    <3> QED BY <2>3, <3>5, <3>6
  <2> QED BY <2>2, <2>3
<1>10. \A q \in Runners : FollowOK(q, runner'[q], queue'[HandleAt[q]], db')
  BY <1>2, <1>8, <1>9
<1>11. (\A q \in Runners : FollowOK(q, runner[q], queue[HandleAt[q]], db))'
  BY <1>10
<1> QED BY <1>6, <1>7, <1>11 DEF FInv

\* A runner's own steps.
LEMMA RunnerFollows ==
  ASSUME IInv, FInv, NEW r \in Runners,
         \/ Make(r) \/ RunnerStep(r) \/ Abandon(r) \/ Drop(r)
         \/ \E verb \in VerbsOf[r] : Begin(r, verb)
  PROVE  FInv'
<1> DEFINE me == runner[r]
           k == HandleAt[r]
<1>1. /\ runner \in [Runners -> Running] /\ me \in Running /\ k \in Handles
      /\ VerbsOf[r] \subseteq Verbs /\ Channel(r) \in Nat /\ Channel(r) <= db.autoinc
      /\ queue \in [Handles -> Seq(JobOut)]
  BY RunnersAssumption DEF IInv, LogOK, WakesOK, Heard, Channel, Verbs, QueueOK
<1>2. UNCHANGED db
  BY DEF Make, RunnerStep, GoOn, Park, Finish, NextRound, Abandon, Drop, Begin, logVars
<1>3. None \in Running /\ \A st \in {"none", "ready", "lost"} : [None EXCEPT !.st = st] \in Running
  BY DEF None, Running, Verbs
<1>4. FollowOK(r, me, queue[k], db)
  BY DEF FInv
<1>5. ASSUME NEW new \in Running, runner' = [runner EXCEPT ![r] = new], queue' = queue,
             OneName(runner'), FollowOK(r, new, queue[k], db)
      PROVE  FInv'
  <2>1. runner'[r] = new /\ \A q \in Runners : q # r => runner'[q] = runner[q]
    BY <1>1, <1>5
  <2>2. \A q \in Runners : FollowOK(q, runner'[q], queue'[HandleAt[q]], db')
    BY <1>2, <1>5, <2>1 DEF FInv
  <2>3. (\A q \in Runners : FollowOK(q, runner[q], queue[HandleAt[q]], db))'
    BY <2>2
  <2>4. JobsNamed(queue)'
    BY <1>5 DEF FInv, JobsNamed
  <2> QED BY <1>5, <2>3, <2>4 DEF FInv
<1>6. CASE Make(r)
  <2> DEFINE new == [None EXCEPT !.st = "ready"]
  <2>1. new \in Running /\ new.verb # "follow" /\ new.st # "wait"
    BY <1>3 DEF None
  <2>2. runner' = [runner EXCEPT ![r] = new] /\ queue' = queue
    BY <1>6 DEF Make, Sets
  <2> HIDE DEF new
  <2>3. OneName(runner')
    <3>1. \A q \in Runners : q # r => runner'[q] = runner[q]
      BY <1>1, <2>2
    <3>2. \A q \in Runners : runner[q].st # "none" /\ HandleAt[q] = HandleAt[r]
                               => NameOf[q] # NameOf[r]
      BY <1>6 DEF Make
    <3> QED BY <3>1, <3>2 DEF OneName, FInv
  <2> QED BY <1>5, <2>1, <2>2, <2>3, NoFollow
<1>7. CASE Park(r)
  <2> DEFINE new == [me EXCEPT !.st = "wait"]
  <2>1. /\ new \in Running /\ new.verb = me.verb /\ new.ans = me.ans /\ new.seen = me.seen
        /\ new.st = "wait"
    BY <1>1 DEF Running
  <2>2. /\ runner' = [runner EXCEPT ![r] = new] /\ queue' = queue
        /\ me.st = "back" /\ me.verb = "follow" /\ me.ans = "ok"
    BY <1>7 DEF Park, Sets
  <2> HIDE DEF new, me
  <2>3. FollowOK(r, new, queue[k], db)
    <3>1. Caught(r, me, db) => Caught(r, new, db)
      BY <2>1 DEF Caught
    <3> QED BY <1>4, <2>1, <2>2, <3>1 DEF FollowOK
  <2>4. OneName(runner')
    <3>1. \A q \in Runners : runner'[q].st # "none" => runner[q].st # "none"
      BY <1>1, <2>2 DEF me
    <3> QED BY <3>1, OneNameStays DEF FInv
  <2> QED BY <1>5, <2>1, <2>2, <2>3, <2>4
<1>8. CASE Finish(r)
  <2> DEFINE new == [None EXCEPT !.st = IF me.ans = "lost" THEN "lost" ELSE "ready"]
  <2>1. new \in Running /\ new.verb # "follow" /\ new.st # "wait"
    BY <1>3 DEF None
  <2>2. runner' = [runner EXCEPT ![r] = new] /\ queue' = queue /\ me.st = "back"
    BY <1>8 DEF Finish, Sets
  <2> HIDE DEF new
  <2>3. OneName(runner')
    <3>1. \A q \in Runners : runner'[q].st # "none" => runner[q].st # "none"
      BY <1>1, <2>2
    <3> QED BY <3>1, OneNameStays DEF FInv
  <2> QED BY <1>5, <2>1, <2>2, <2>3, NoFollow
<1>9. CASE GoOn(r)
  <2> DEFINE new == [me EXCEPT !.st = "busy", !.ans = "ok",
                               !.verb = IF @ = "rebuild" THEN "catch_up" ELSE @]
  <2>1. /\ new \in Running /\ new.st = "busy" /\ new.seen = me.seen
        /\ new.verb = "follow" => me.verb = "follow"
    BY <1>1 DEF Running, Verbs
  <2>2. me.st = "back" /\ runner' = [runner EXCEPT ![r] = new] /\ Submit(r, "fold")
    BY <1>9 DEF GoOn, Sets
  <2> HIDE DEF new
  <2>3. new.verb = "follow" => new.seen <= db.autoinc
    BY <1>4, <2>1 DEF FollowOK
  <2> QED BY <1>2, <2>1, <2>2, <2>3, SentIsLast
<1>10. CASE NextRound(r)
  <2> DEFINE new == [me EXCEPT !.st = "busy", !.seen = Channel(r)]
  <2>1. new \in Running /\ new.st = "busy" /\ new.seen <= db.autoinc
    BY <1>1 DEF Running
  <2>2. me.st = "wait" /\ runner' = [runner EXCEPT ![r] = new] /\ Submit(r, "fold")
    BY <1>10 DEF NextRound, Sets
  <2> HIDE DEF new
  <2> QED BY <1>2, <2>1, <2>2, SentIsLast
<1>11. ASSUME NEW verb \in VerbsOf[r], Begin(r, verb) PROVE FInv'
  <2> DEFINE new == [None EXCEPT !.st = "busy", !.verb = verb,
                                 !.seen = IF verb = "follow" THEN Channel(r) ELSE 0]
             op == IF verb = "rebuild" THEN "reset" ELSE "fold"
  <2>1. /\ new \in Running /\ new.st = "busy" /\ op \in {"fold", "reset"}
        /\ new.verb = verb
        /\ new.verb = "follow" => new.seen <= db.autoinc
    BY <1>1, <1>3 DEF Running, None
  <2>2. op = "reset" => "rebuild" \in VerbsOf[r] /\ new.verb # "follow"
    BY <1>11, <2>1
  <2>3. me.st = "ready" /\ runner' = [runner EXCEPT ![r] = new] /\ Submit(r, op)
    BY <1>11 DEF Begin, Sets
  <2> HIDE DEF new, op
  <2> QED BY <1>2, <2>1, <2>2, <2>3, SentIsLast
<1>12. ASSUME Abandon(r) \/ Drop(r) PROVE FInv'
  <2>1. PICK new \in Running : /\ runner' = [runner EXCEPT ![r] = new]
                               /\ new.verb # "follow" /\ new.st # "wait" /\ me.st # "none"
    BY <1>3, <1>12 DEF Abandon, Drop, Sets, None
  <2>2. runner'[r] = new /\ \A q \in Runners : q # r => runner'[q] = runner[q]
    BY <1>1, <2>1
  <2> DEFINE freed(j) == IF j.owner = r THEN [j EXCEPT !.owner = Nobody] ELSE j
             list == [i \in DOMAIN queue[k] |-> freed(queue[k][i])]
  <2>3. queue' = [queue EXCEPT ![k] = list] /\ r # Nobody
    BY <1>12, NobodyAssumption DEF Abandon, Drop, Disown
  <2>4. ASSUME NEW j \in JobOut
        PROVE  /\ freed(j).name = j.name /\ freed(j).op = j.op
               /\ freed(j).owner = j.owner \/ freed(j).owner = Nobody
    BY DEF JobOut
  <2>5. DOMAIN list = DOMAIN queue[k] /\ \A i \in DOMAIN queue[k] : list[i] = freed(queue[k][i])
    OBVIOUS
  <2> HIDE DEF list, freed
  <2>6. ASSUME NEW h \in Handles
        PROVE  /\ DOMAIN queue'[h] = DOMAIN queue[h]
               /\ \A i \in DOMAIN queue[h] :
                    /\ queue'[h][i].name = queue[h][i].name /\ queue'[h][i].op = queue[h][i].op
                    /\ \/ queue'[h][i].owner = queue[h][i].owner
                       \/ queue'[h][i].owner = Nobody
    <3>1. \A i \in DOMAIN queue[h] : queue[h][i] \in JobOut
      BY <1>1
    <3>2. CASE h = k
      BY <1>1, <2>3, <2>4, <2>5, <3>1, <3>2
    <3>3. CASE h # k
      BY <1>1, <2>3, <3>3
    <3> QED BY <3>2, <3>3
  <2>7. JobsNamed(queue')
    BY <2>6 DEF FInv, JobsNamed
  <2>8. OneName(runner')
    <3>1. \A q \in Runners : runner'[q].st # "none" => runner[q].st # "none"
      BY <2>1, <2>2
    <3> QED BY <3>1, OneNameStays DEF FInv
  <2>9. ASSUME NEW q \in Runners PROVE FollowOK(q, runner'[q], queue'[HandleAt[q]], db')
    <3>1. CASE q = r
      BY <2>1, <2>2, <3>1, NoFollow
    <3>2. CASE q # r
      <4> DEFINE h == HandleAt[q]
      <4>1. h \in Handles /\ FollowOK(q, runner[q], queue[h], db) /\ q # Nobody
        BY RunnersAssumption, NobodyAssumption DEF FInv
      <4>2. runner'[q] = runner[q] /\ db' = db
        BY <1>2, <2>2, <3>2
      <4> HIDE DEF h
      <4>3. /\ DOMAIN queue'[h] = DOMAIN queue[h]
            /\ \A i \in DOMAIN queue[h] :
                 /\ queue'[h][i].op = queue[h][i].op
                 /\ Rewinds(queue'[h][i], NameOf[q]) => Rewinds(queue[h][i], NameOf[q])
                 /\ queue'[h][i].owner = q => queue[h][i].owner = q
        BY <2>6, <4>1 DEF Rewinds
      <4>4. FollowOK(q, runner[q], queue'[h], db)
        BY <4>1, <4>3 DEF FollowOK
      <4> QED BY <4>2, <4>4 DEF h
    <3> QED BY <3>1, <3>2
  <2>10. (\A q \in Runners : FollowOK(q, runner[q], queue[HandleAt[q]], db))'
    BY <2>9
  <2> QED BY <2>7, <2>8, <2>10 DEF FInv
<1> QED BY <1>6, <1>7, <1>8, <1>9, <1>10, <1>11, <1>12 DEF RunnerStep

\* A batch that had nothing to apply leaves nothing wanted above its cursor.
LEMMA NothingLeft ==
  ASSUME IInv, NEW c \in Consumers, ~Refuses(c, Cursor(c)), Fold(c), Page(c) = {}
  PROVE  \A row \in db'.events : row.kind \in KindsOf[c] => row.pos <= LoadCheckpoint(db', c)
<1> DEFINE cur == Cursor(c)
           y == LoadCheckpoint(db', c)
           S == Selected(db, cur, KindsOf[c], Streams)
<1>1. /\ LogOK /\ Numbered(db, history) /\ db.events \subseteq Row
      /\ model \in [Consumers -> Seq(Nat)]
      /\ FedOK(c, model[c], db, history)
  BY DEF IInv, LogOK, Numbered
<1>2. db'.events = db.events /\ y >= cur /\ db' \in Tables
  BY <1>1, FoldKeeps DEF Numbered
<1>3. cur \in Nat /\ y \in Nat
  BY <1>1, <1>2 DEF Cursor, LoadCheckpoint, Numbered, Tables, NoRow
<1>4. S = {}
  <2>1. Cardinality(Page(c)) # Batch /\ Batch \in Nat
    BY FS_EmptySet, RunnersAssumption
  <2>2. Page(c) = SelectStored(db, cur, KindsOf[c], Streams, Batch)
    BY DEF Page
  <2> HIDE DEF cur
  <2>3. Cardinality(SelectStored(db, cur, KindsOf[c], Streams, Batch)) # Batch
          => SelectStored(db, cur, KindsOf[c], Streams, Batch) = S
    BY <1>1, <1>3, <2>1, PageIsLowest
  <2> HIDE DEF S
  <2> QED BY <2>1, <2>2, <2>3
<1>5. ASSUME NEW row \in db.events, row.kind \in KindsOf[c] PROVE ~(row.pos > cur)
  BY <1>1, <1>4, <1>5 DEF Selected, Row
<1> HIDE DEF cur, y
<1>6. ASSUME NEW row \in db.events, row.kind \in KindsOf[c] PROVE row.pos <= y
  <2>1. row.pos \in Nat
    BY <1>1 DEF Row
  <2> QED BY <1>2, <1>3, <1>5, <1>6, <2>1
<1> QED BY <1>2, <1>6 DEF y

\* The job at the head of a queue goes.
LEMMA TailFollows ==
  ASSUME NEW r, NEW me, NEW list \in Seq(JobOut), list # <<>>, NEW d, FollowOK(r, me, list, d)
  PROVE  FollowOK(r, me, Tail(list), d)
<1> DEFINE t == Tail(list)
<1>1. \A i \in DOMAIN t : i + 1 \in DOMAIN list /\ t[i] = list[i + 1] /\ i \in Nat
  OBVIOUS
<1> HIDE DEF t
<1>2. ASSUME NEW j \in DOMAIN t, NEW i \in DOMAIN t, i > j PROVE i + 1 > j + 1
  BY <1>1, <1>2
<1>3. ASSUME me.verb = "follow", me.st = "busy", NEW j \in DOMAIN t, t[j].owner = r
      PROVE  t[j].op = "fold" /\ \A i \in DOMAIN t : i > j => ~Rewinds(t[i], NameOf[r])
  <2>1. /\ list[j + 1].op = "fold"
        /\ \A i \in DOMAIN list : i > j + 1 => ~Rewinds(list[i], NameOf[r])
    BY <1>1, <1>3 DEF FollowOK
  <2> QED BY <1>1, <1>2, <2>1
<1>4. FollowOK(r, me, t, d)
  BY <1>1, <1>3 DEF FollowOK
<1> QED BY <1>4 DEF t

\* A transaction that leaves the rows alone and lowers no cursor but the one it
\* rewinds, and a batch that answers "ok" left nothing.
LEMMA AnswerFollows ==
  ASSUME IInv, FInv, NEW k \in Handles, queue[k] # <<>>,
         NEW ans \in {"ok", "applied", "refused", "failed", "lost"}, Answered(k, ans),
         db' \in Tables, db'.autoinc = db.autoinc, db'.events = db.events,
         \A c \in Consumers : \/ LoadCheckpoint(db', c) >= LoadCheckpoint(db, c)
                              \/ Rewinds(Head(queue[k]), c),
         Head(queue[k]).op = "fold" /\ ans = "ok" =>
           \A row \in db'.events : row.kind \in KindsOf[Head(queue[k]).name]
             => row.pos <= LoadCheckpoint(db', Head(queue[k]).name)
  PROVE  FInv'
<1> DEFINE o == Head(queue[k]).owner
           job == Head(queue[k])
           e == db'
<1>1. /\ runner \in [Runners -> Running] /\ QueueOK(queue, runner)
      /\ queue \in [Handles -> Seq(JobOut)] /\ db \in Tables /\ queue[k] \in Seq(JobOut)
      /\ \A x \in Runners : HandleAt[x] \in Handles /\ NameOf[x] \in Consumers
  BY RunnersAssumption DEF IInv, LogOK, Numbered, QueueOK
<1>2. /\ 1 \in DOMAIN queue[k] /\ queue[k][1] = job /\ job \in JobOut /\ o \in Runners \cup {Nobody}
      /\ DOMAIN queue[k] \subseteq Nat
  <2>1. 1 \in DOMAIN queue[k] /\ queue[k][1] = job /\ job \in JobOut /\ DOMAIN queue[k] \subseteq Nat
    BY <1>1
  <2> QED BY <2>1 DEF JobOut
<1>3. /\ queue' = [queue EXCEPT ![k] = Tail(queue[k])]
      /\ IF o = Nobody THEN runner' = runner
         ELSE runner' = [runner EXCEPT ![o] = [runner[o] EXCEPT !.st = "back", !.ans = ans]]
  BY DEF Answered, Sets
<1>4. queue'[k] = Tail(queue[k]) /\ \A h \in Handles : h # k => queue'[h] = queue[h]
  BY <1>1, <1>3
<1>5. \A q \in Runners : q # o => runner'[q] = runner[q]
  BY <1>1, <1>2, <1>3
<1>6. ASSUME o # Nobody
      PROVE  /\ o \in Runners /\ HandleAt[o] = k /\ runner[o].st = "busy"
             /\ job.name = NameOf[o]
             /\ runner'[o] \in Running /\ runner'[o].st = "back" /\ runner'[o].ans = ans
             /\ runner'[o].verb = runner[o].verb /\ runner'[o].seen = runner[o].seen
  <2>1. o \in Runners /\ HandleAt[o] = k /\ runner[o].st = "busy"
    BY <1>1, <1>2, <1>6 DEF QueueOK
  <2>2. job.name = NameOf[o]
    BY <1>2, <1>6 DEF FInv, JobsNamed
  <2> HIDE DEF o
  <2>3. runner'[o] = [runner[o] EXCEPT !.st = "back", !.ans = ans] /\ runner[o] \in Running
    BY <1>1, <1>3, <1>6, <2>1
  <2> QED BY <2>1, <2>2, <2>3 DEF Running
<1> HIDE DEF o, job
<1>7. OneName(runner')
  <2>1. \A q \in Runners : runner'[q].st # "none" => runner[q].st # "none"
    BY <1>5, <1>6, NobodyAssumption
  <2> QED BY <2>1, OneNameStays DEF FInv
<1>8. JobsNamed(queue')
  <2>1. ASSUME NEW h \in Handles, NEW i \in DOMAIN queue'[h]
        PROVE  \E j \in DOMAIN queue[h] : queue'[h][i] = queue[h][j]
    <3>1. CASE h = k
      <4>1. i + 1 \in DOMAIN queue[k] /\ queue'[k][i] = queue[k][i + 1]
        BY <1>1, <1>4, <2>1, <3>1
      <4> QED BY <3>1, <4>1
    <3>2. CASE h # k
      BY <1>4, <2>1, <3>2
    <3> QED BY <3>1, <3>2
  <2> QED BY <2>1 DEF FInv, JobsNamed
<1>9. ASSUME NEW q \in Runners PROVE FollowOK(q, runner[q], queue'[HandleAt[q]], db)
  <2>1. FollowOK(q, runner[q], queue[HandleAt[q]], db) /\ HandleAt[q] \in Handles
    BY <1>1 DEF FInv
  <2>2. CASE HandleAt[q] = k
    BY <1>1, <1>4, <2>1, <2>2, TailFollows
  <2>3. CASE HandleAt[q] # k
    BY <1>4, <2>1, <2>3
  <2> QED BY <2>2, <2>3
<1>10. ASSUME NEW q \in Runners, q # o PROVE FollowOK(q, runner'[q], queue'[HandleAt[q]], e)
  <2> DEFINE me == runner[q]
             list == queue'[HandleAt[q]]
             c == NameOf[q]
  <2>1. FollowOK(q, me, list, db) /\ FollowOK(q, me, queue[HandleAt[q]], db) /\ me \in Running
    BY <1>1, <1>9 DEF FInv
  <2>2. e \in Tables /\ e.autoinc = db.autoinc /\ e.events = db.events /\ db.autoinc \in Nat
    BY <1>1 DEF Tables
  <2>3. ASSUME me.verb = "follow", me.st \in {"back", "wait"}, ~Rewound(q)
        PROVE  LoadCheckpoint(e, c) >= LoadCheckpoint(db, c)
    <3>1. CASE Rewinds(job, c)
      <4>1. PICK x \in Runners : HandleAt[x] = k /\ NameOf[x] = c /\ "rebuild" \in VerbsOf[x]
        BY <1>2, <3>1 DEF FInv, JobsNamed, Rewinds
      <4>2. HandleAt[q] = k
        BY <2>3, <4>1 DEF Rewound
      <4>3. ~Rewinds(job, c)
        BY <1>2, <2>1, <2>3, <4>2 DEF FollowOK
      <4> QED BY <3>1, <4>3
    <3>2. CASE ~Rewinds(job, c)
      BY <1>1, <3>2 DEF job
    <3> QED BY <3>1, <3>2
  <2> HIDE DEF e, list, me
  <2>4. e.autoinc >= db.autoinc /\ \A row \in e.events \ db.events : row.pos > db.autoinc
    BY <2>2
  <2>5. FollowOK(q, me, list, e)
    BY <1>1, <2>1, <2>2, <2>3, <2>4, FollowKeepsUp DEF c
  <2> QED BY <1>5, <1>10, <2>5 DEF me, list
<1>11. ASSUME o # Nobody PROVE FollowOK(o, runner'[o], queue'[HandleAt[o]], e)
  <2> DEFINE new == runner'[o]
  <2>1. /\ FollowOK(o, runner[o], queue[k], db)
        /\ queue[k][1].owner = o
    BY <1>2, <1>6, <1>11 DEF FInv, o, job
  <2>2. ASSUME new.verb = "follow"
        PROVE  /\ new.seen <= e.autoinc
               /\ job.op = "fold"
               /\ \A i \in DOMAIN queue'[k] : ~Rewinds(queue'[k][i], NameOf[o])
    <3>1. /\ runner[o].seen <= db.autoinc /\ queue[k][1].op = "fold"
          /\ \A i \in DOMAIN queue[k] : i > 1 => ~Rewinds(queue[k][i], NameOf[o])
      BY <1>2, <1>6, <1>11, <2>1, <2>2 DEF FollowOK
    <3>2. \A i \in DOMAIN queue'[k] : /\ i + 1 \in DOMAIN queue[k] /\ i + 1 > 1
                                      /\ queue'[k][i] = queue[k][i + 1]
      BY <1>1, <1>4
    <3> QED BY <1>2, <1>6, <1>11, <3>1, <3>2
  <2>3. new.verb = "follow" /\ new.ans = "ok" => Caught(o, new, e)
    BY <1>6, <1>11, <2>2 DEF Caught, job
  <2> HIDE DEF e
  <2>4. new.st = "back"
    BY <1>6, <1>11
  <2> HIDE DEF new
  <2>5. FollowOK(o, new, queue'[k], e)
    BY <2>2, <2>3, <2>4 DEF FollowOK
  <2> QED BY <1>6, <1>11, <2>5 DEF new
<1>12. \A q \in Runners : FollowOK(q, runner'[q], queue'[HandleAt[q]], db')
  <2>1. \A q \in Runners : q # Nobody
    BY NobodyAssumption
  <2> QED BY <1>10, <1>11, <2>1
<1>13. (\A q \in Runners : FollowOK(q, runner[q], queue[HandleAt[q]], db))'
  BY <1>12
<1> QED BY <1>7, <1>8, <1>13 DEF FInv

\* A transaction of a writer's queue.
LEMMA WriterFollows ==
  ASSUME IInv, FInv, NEW h \in Handles,
         WriterStep(h) \/ \E ans \in {"failed", "lost"} : RollsBack(h, ans)
  PROVE  FInv'
<1> DEFINE c == Head(queue[h]).name
           job == Head(queue[h])
<1>1. /\ LogOK /\ db \in Tables /\ queue[h] # <<>>
      /\ model \in [Consumers -> Seq(Nat)]
      /\ \A x \in Consumers : FedOK(x, model[x], db, history)
  BY DEF IInv, LogOK, Numbered, WriterStep, RunBatch, RunReset, RollsBack, Job
<1>2. c \in Consumers
  <2>1. queue[h] \in Seq(JobOut)
    BY DEF IInv, QueueOK
  <2>2. Head(queue[h]) \in JobOut
    BY <1>1, <2>1
  <2> QED BY <2>2 DEF JobOut
<1>3. \A x \in Consumers : LoadCheckpoint(db, x) \in Nat
  BY <1>1 DEF LoadCheckpoint, Tables, NoRow
<1>4. ASSUME NEW ans \in {"ok", "applied", "refused", "failed", "lost"}, Answered(h, ans),
             UNCHANGED db, ans # "ok"
      PROVE  FInv'
  <2>1. db' \in Tables /\ \A x \in Consumers : LoadCheckpoint(db', x) >= LoadCheckpoint(db, x)
    BY <1>1, <1>3, <1>4
  <2> QED BY <1>1, <1>4, <2>1, AnswerFollows
<1>5. CASE ~Refuses(c, Cursor(c)) /\ Fold(c) /\ Answered(h, IF Page(c) = {} THEN "ok" ELSE "applied")
  <2> DEFINE ans == IF Page(c) = {} THEN "ok" ELSE "applied"
  <2>1. /\ db' \in Tables /\ db'.autoinc = db.autoinc /\ db'.events = db.events
        /\ LoadCheckpoint(db', c) >= LoadCheckpoint(db, c)
        /\ \A x \in Consumers : x # c => LoadCheckpoint(db', x) = LoadCheckpoint(db, x)
    <3> HIDE DEF c
    <3> QED BY <1>1, <1>2, <1>5, FoldKeeps DEF Numbered, Cursor
  <2>2. \A x \in Consumers : LoadCheckpoint(db', x) >= LoadCheckpoint(db, x)
    BY <1>3, <2>1
  <2>3. ans = "ok" => \A row \in db'.events : row.kind \in KindsOf[c]
                                               => row.pos <= LoadCheckpoint(db', c)
    <3> HIDE DEF c
    <3> QED BY <1>2, <1>5, NothingLeft
  <2>4. Answered(h, ans) /\ ans \in {"ok", "applied", "refused", "failed", "lost"}
    BY <1>5
  <2> HIDE DEF ans
  <2> QED BY <1>1, <2>1, <2>2, <2>3, <2>4, AnswerFollows
<1>6. CASE Job(h, "reset") /\ Reset(c) /\ Answered(h, "ok")
  <2>1. /\ db' \in Tables /\ db'.autoinc = db.autoinc /\ db'.events = db.events
        /\ \A x \in Consumers : x # c => LoadCheckpoint(db', x) = LoadCheckpoint(db, x)
    <3> HIDE DEF c
    <3> QED BY <1>1, <1>2, <1>6, ResetKeeps DEF Numbered
  <2>2. job.op = "reset" /\ Rewinds(job, c)
    BY <1>6 DEF Job, Rewinds
  <2>3. \A x \in Consumers : \/ LoadCheckpoint(db', x) >= LoadCheckpoint(db, x)
                             \/ Rewinds(job, x)
    BY <1>3, <2>1, <2>2
  <2> QED BY <1>1, <1>6, <2>1, <2>2, <2>3, AnswerFollows
<1> QED BY <1>4, <1>5, <1>6 DEF WriterStep, RunBatch, RunReset, RollsBack

\* Commits, wake-ups and removals.
LEMMA WritersFollow ==
  ASSUME IInv, FInv, Writers, UNCHANGED <<model, runner, queue>>
  PROVE  FInv'
<1> DEFINE e == db'
<1>1. /\ db \in Tables /\ e \in Tables /\ e.autoinc >= db.autoinc
      /\ \A row \in e.events \ db.events : row.pos > db.autoinc
      /\ runner \in [Runners -> Running]
  BY LogMoves DEF IInv, LogOK, Numbered
<1>2. e.ckpt = db.ckpt
  BY LedgerMoves DEF IInv, LogOK
<1>3. \A c \in Consumers : /\ LoadCheckpoint(e, c) \in Nat /\ LoadCheckpoint(db, c) \in Nat
                           /\ LoadCheckpoint(e, c) = LoadCheckpoint(db, c)
  BY <1>1, <1>2 DEF LoadCheckpoint, Tables, NoRow
<1> HIDE DEF e
<1>4. ASSUME NEW q \in Runners PROVE FollowOK(q, runner[q], queue[HandleAt[q]], e)
  <2> DEFINE me == runner[q]
             list == queue[HandleAt[q]]
  <2>1. FollowOK(q, me, list, db) /\ me \in Running
    BY <1>1 DEF FInv
  <2>2. NameOf[q] \in Consumers
    BY RunnersAssumption
  <2>3. LoadCheckpoint(e, NameOf[q]) >= LoadCheckpoint(db, NameOf[q])
    BY <1>3, <2>2
  <2> HIDE DEF me, list
  <2>4. FollowOK(q, me, list, e)
    BY <1>1, <2>1, <2>3, FollowKeepsUp
  <2> QED BY <2>4 DEF me, list
<1>5. \A q \in Runners : FollowOK(q, runner'[q], queue'[HandleAt[q]], db')
  BY <1>4 DEF e
<1>6. (\A q \in Runners : FollowOK(q, runner[q], queue[HandleAt[q]], db))'
  BY <1>5
<1> QED BY <1>6 DEF FInv, JobsNamed, OneName

\* A process dies.
LEMMA CrashFollows == ASSUME IInv, FInv, NEW k \in Handles, Crash(k) PROVE FInv'
<1>1. /\ runner \in [Runners -> Running] /\ queue \in [Handles -> Seq(JobOut)]
      /\ \A x \in Runners : HandleAt[x] \in Handles
  BY RunnersAssumption DEF IInv, QueueOK
<1>2. /\ queue' = [queue EXCEPT ![k] = <<>>]
      /\ runner' = [r \in Runners |-> IF HandleAt[r] = k THEN None ELSE runner[r]]
      /\ db' = db
  BY DEF Crash, logVars
<1>3. DOMAIN queue'[k] = {} /\ \A h \in Handles : h # k => queue'[h] = queue[h]
  BY <1>1, <1>2
<1>4. None.st = "none" /\ None.verb # "follow"
  BY DEF None
<1>5. OneName(runner')
  <2>1. \A q \in Runners : runner'[q].st # "none" => runner[q].st # "none"
    BY <1>1, <1>2, <1>4
  <2> QED BY <2>1, OneNameStays DEF FInv
<1>6. JobsNamed(queue')
  <2>1. \A h \in Handles : \A i \in DOMAIN queue'[h] : h # k
    BY <1>3
  <2> QED BY <1>3, <2>1 DEF FInv, JobsNamed
<1>7. ASSUME NEW q \in Runners PROVE FollowOK(q, runner'[q], queue'[HandleAt[q]], db')
  <2>1. CASE HandleAt[q] = k
    <3>1. runner'[q] = None
      BY <1>2, <2>1
    <3>2. runner'[q].verb # "follow" /\ runner'[q].st # "wait"
      BY <1>4, <3>1
    <3> QED BY <3>2, NoFollow
  <2>2. CASE HandleAt[q] # k
    BY <1>1, <1>2, <1>3, <2>2 DEF FInv
  <2> QED BY <2>1, <2>2
<1>8. (\A q \in Runners : FollowOK(q, runner[q], queue[HandleAt[q]], db))'
  BY <1>7
<1> QED BY <1>5, <1>6, <1>8 DEF FInv

\* A follow that is parked with nothing to wake it has folded whatever its log
\* published, although it marked the channel before it read, reads in batches
\* that other transactions come between, and shares its queue.
THEOREM FollowsAreCurrent == Spec => []FollowIsCurrent
<1>1. Init => FInv
  <2> SUFFICES ASSUME Init PROVE FInv
    OBVIOUS
  <2>1. \A r \in Runners : runner[r] = None
    BY DEF Init
  <2>2. None.st = "none" /\ None.verb # "follow"
    BY DEF None
  <2>3. OneName(runner) /\ \A r \in Runners : FollowOK(r, runner[r], queue[HandleAt[r]], db)
    BY <2>1, <2>2 DEF OneName, FollowOK
  <2>4. JobsNamed(queue)
    <3>1. \A h \in Handles : DOMAIN queue[h] = {}
      BY DEF Init
    <3> QED BY <3>1 DEF JobsNamed
  <2> QED BY <2>3, <2>4 DEF FInv
<1>2. IInv /\ FInv /\ [Next]_vars => FInv'
  <2> SUFFICES ASSUME IInv, FInv, [Next]_vars PROVE FInv'
    OBVIOUS
  <2>1. CASE Writers /\ UNCHANGED <<model, runner, queue>>
    BY <2>1, WritersFollow
  <2>2. ASSUME NEW r \in Runners,
               \/ Make(r) \/ RunnerStep(r) \/ Abandon(r) \/ Drop(r)
               \/ \E verb \in VerbsOf[r] : Begin(r, verb)
        PROVE  FInv'
    BY <2>2, RunnerFollows
  <2>3. ASSUME NEW h \in Handles,
               WriterStep(h) \/ \E ans \in {"failed", "lost"} : RollsBack(h, ans)
        PROVE  FInv'
    BY <2>3, WriterFollows
  <2>4. ASSUME NEW h \in Handles, Crash(h) PROVE FInv'
    BY <2>4, CrashFollows
  <2>5. CASE UNCHANGED vars
    BY <2>5 DEF vars, FInv, JobsNamed, OneName
  <2> QED BY <2>1, <2>2, <2>3, <2>4, <2>5 DEF Next
<1>3. FInv => FollowIsCurrent
  <2> SUFFICES ASSUME FInv, NEW r \in Runners, runner[r].st = "wait",
                      runner[r].seen = Channel(r), ~Rewound(r)
               PROVE  Caught(r, runner[r], db)
    BY DEF FollowIsCurrent, Caught, Cursor
  <2> QED BY DEF FInv, FollowOK
<1> QED BY <1>1, <1>2, <1>3, Invariance, PTL DEF Spec

=============================================================================
