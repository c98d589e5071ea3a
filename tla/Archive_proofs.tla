--------------------------- MODULE Archive_proofs ---------------------------
(***************************************************************************)
(* Nothing leaves the log that no sink was shown.  The receipts that vouch *)
(* for a range are the link: the rows of a vouched range are held on the   *)
(* disk of a sink that syncs, or were taken by one that does not; the end  *)
(* of the chain lies no higher than the ranges below it cover, and a       *)
(* removal under Guard::Exported takes nothing above that end.  All of it  *)
(* holds of the tables the machine would come back with as well.           *)
(***************************************************************************)
EXTENDS Archive, LogTables_proofs, FiniteSetTheorems

-----------------------------------------------------------------------------
(* The chain of some receipts, and the walk that finds its end.            *)

\* Of some receipts, one is walked last.
LEMMA LastIsLast ==
  ASSUME NEW n \in Nat, NEW R \in SUBSET Entry, R # {},
         \A r \in R : r.thr <= n /\ r.from <= n
  PROVE  LastWalked(R) \in R /\ \A q \in R : Earlier(q, LastWalked(R))
<1>1. \A r \in R : r.from \in 0..n /\ r.thr \in 0..n
  BY DEF Entry
<1> DEFINE F == {r.from : r \in R}
           m == MaxOrZero(F)
           T == {r.thr : r \in {q \in R : q.from = m}}
           x == MaxOrZero(T)
<1>2. m \in F /\ \A f \in F : f <= m
  <2>1. F \in SUBSET (0..n) /\ F # {}
    BY <1>1
  <2> HIDE DEF F
  <2> QED BY <2>1, MaxOrZeroBound
<1>3. x \in T /\ \A t \in T : t <= x
  <2>1. T \in SUBSET (0..n) /\ T # {}
    BY <1>1, <1>2
  <2> HIDE DEF T
  <2> QED BY <2>1, MaxOrZeroBound
<1>4. PICK r \in R : r.from = m /\ r.thr = x
  BY <1>3
<1>5. \A q \in R : Earlier(q, r)
  <2> SUFFICES ASSUME NEW q \in R PROVE Earlier(q, r)
    OBVIOUS
  <2>1. q.from \in F /\ (q.from = m => q.thr \in T)
    OBVIOUS
  <2>2. q.from \in Nat /\ m \in Nat
    BY <1>1, <1>4
  <2> HIDE DEF F, T, m, x
  <2> QED BY <1>2, <1>3, <1>4, <2>1, <2>2 DEF Earlier
<1> QED BY <1>5 DEF LastWalked

\* The receipt walked last extends the chain of the others, or not.
LEMMA LastExtends ==
  ASSUME NEW n \in Nat, NEW R \in SUBSET Entry, R # {},
         \A r \in R : r.thr <= n /\ r.from <= n
  PROVE  EndOf(R) = Extend(LastWalked(R), EndOf(R \ {LastWalked(R)}))
<1> DEFINE x == LastWalked(R)
           S == R \ {x}
           e == EndOf(S)
           f == EndOf(R)
<1>1. x \in R /\ \A q \in R : Earlier(q, x)
  BY LastIsLast
<1>2. \A r \in R : r.from \in Nat /\ r.thr \in Nat
  BY DEF Entry
<1> HIDE DEF x
<1>3. S \in SUBSET Entry /\ \A r \in S : r.thr <= n
  OBVIOUS
<1> HIDE DEF S
<1>4. e \in EndsOf(S) /\ e \in Nat /\ ClosedUnder(S, e) /\ \A g \in Nat : ClosedUnder(S, g) => e <= g
  BY <1>3, EndIsLeast
<1>5. f \in EndsOf(R) /\ f \in Nat /\ ClosedUnder(R, f) /\ \A g \in Nat : ClosedUnder(R, g) => f <= g
  BY EndIsLeast
<1> HIDE DEF e, f
<1>6. e <= f
  <2>1. ClosedUnder(S, f)
    BY <1>5 DEF ClosedUnder, S
  <2> QED BY <2>1, <1>4, <1>5
<1>7. CASE x.from <= e /\ x.thr > e
  <2>1. x.thr <= f
    BY <1>1, <1>2, <1>4, <1>5, <1>6, <1>7 DEF ClosedUnder
  <2>2. ClosedUnder(R, x.thr)
    <3> SUFFICES ASSUME NEW r \in R, r.from <= x.thr PROVE r.thr <= x.thr
      BY DEF ClosedUnder
    <3>1. CASE r = x
      BY <3>1, <1>1, <1>2
    <3>2. CASE r # x
      <4>1. r \in S /\ r.from <= x.from
        BY <3>2, <1>1, <1>2 DEF Earlier, S
      <4>2. r.from <= e
        BY <4>1, <1>1, <1>2, <1>4, <1>7
      <4>3. r.thr <= e
        BY <4>1, <4>2, <1>4 DEF ClosedUnder
      <4> QED BY <4>3, <1>1, <1>2, <1>4, <1>7
    <3> QED BY <3>1, <3>2
  <2>3. f = x.thr
    BY <2>1, <2>2, <1>1, <1>2, <1>5
  <2> QED BY <2>3, <1>7 DEF Extend, e, f, S, x
<1>8. CASE ~(x.from <= e /\ x.thr > e)
  <2>1. ClosedUnder(R, e)
    BY <1>1, <1>2, <1>4, <1>8 DEF ClosedUnder, S
  <2>2. f = e
    BY <2>1, <1>4, <1>5, <1>6
  <2>3. Extend(x, e) = e
    BY <1>8 DEF Extend
  <2> QED BY <2>2, <2>3 DEF e, f, S, x
<1> QED BY <1>7, <1>8

\* The walk over finitely many receipts ends where their chain does.
LEMMA WalkIsEnd ==
  ASSUME NEW R \in SUBSET Entry, IsFiniteSet(R)
  PROVE  Walk(R) = EndOf(R)
<1>0. PICK n \in Nat : \A r \in R : r.thr <= n /\ r.from <= n
  <2>1. \A r \in R : r.thr \in Nat /\ r.from \in Nat
    BY DEF Entry
  <2> DEFINE T == {r.thr : r \in R}
             F == {r.from : r \in R}
  <2>2. IsFiniteSet(T)
    <3>1. [r \in R |-> r.thr] \in Surjection(R, T)
      BY DEF Surjection
    <3> QED BY <3>1, FS_Surjection
  <2>3. IsFiniteSet(F)
    <3>1. [r \in R |-> r.from] \in Surjection(R, F)
      BY DEF Surjection
    <3> QED BY <3>1, FS_Surjection
  <2>4. T \in SUBSET Nat /\ F \in SUBSET Nat
    BY <2>1
  <2>5. (\A r \in R : r.thr \in T /\ r.from \in F)
    OBVIOUS
  <2> HIDE DEF T, F
  <2>6. PICK m \in Nat : \A x \in T : x <= m
    BY <2>2, <2>4, FiniteBound
  <2>7. PICK k \in Nat : \A x \in F : x <= k
    BY <2>3, <2>4, FiniteBound
  <2>8. m + k \in Nat /\ \A r \in R : r.thr <= m + k /\ r.from <= m + k
    BY <2>1, <2>5, <2>6, <2>7
  <2> QED BY <2>8
<1> DEFINE Follows(g) ==
             g = [s \in SUBSET R |->
                    IF s = {} THEN 0 ELSE Extend(LastWalked(s), g[s \ {LastWalked(s)}])]
           ends == [s \in SUBSET R |-> EndOf(s)]
           iter == CHOOSE g : Follows(g)
<1>1. Walk(R) = iter[R]
  BY DEF Walk, MapThenFoldSet
<1>2. \A s \in SUBSET R : s \in SUBSET Entry /\ \A r \in s : r.thr <= n /\ r.from <= n
  BY <1>0
<1>3. EndOf({}) = 0
  <2>1. {} \in SUBSET Entry /\ \A r \in {} : r.thr <= n
    OBVIOUS
  <2>2. EndOf({}) \in EndsOf({})
    BY <2>1, EndIsLeast
  <2> QED BY <2>2 DEF EndsOf
<1>4. \A s \in SUBSET R : s # {} =>
        /\ LastWalked(s) \in s
        /\ EndOf(s) = Extend(LastWalked(s), EndOf(s \ {LastWalked(s)}))
  BY <1>2, LastIsLast, LastExtends
<1>5. Follows(ends)
  <2> SUFFICES ASSUME NEW s \in SUBSET R
               PROVE  EndOf(s) = IF s = {} THEN 0
                                 ELSE Extend(LastWalked(s), ends[s \ {LastWalked(s)}])
    OBVIOUS
  <2>1. s \ {LastWalked(s)} \in SUBSET R
    OBVIOUS
  <2> QED BY <2>1, <1>3, <1>4
<1>6. Follows(iter)
  <2> HIDE DEF Follows, ends
  <2> QED BY <1>5
<1> HIDE DEF iter
<1>7. \A s \in SUBSET R :
        iter[s] = IF s = {} THEN 0 ELSE Extend(LastWalked(s), iter[s \ {LastWalked(s)}])
  BY <1>6
<1> DEFINE B == {Cardinality(s) : s \in {t \in SUBSET R : iter[t] # EndOf(t)}}
<1>8. \A s \in SUBSET R : IsFiniteSet(s) /\ Cardinality(s) \in Nat
  BY FS_Subset, FS_CardinalityType
<1>9. B = {}
  <2> SUFFICES ASSUME B # {} PROVE FALSE
    OBVIOUS
  <2>1. B \subseteq Nat
    BY <1>8
  <2>2. PICK k \in B : \A j \in B : ~(<<j, k>> \in OpToRel(<, Nat))
    <3> HIDE DEF B
    <3> QED BY <2>1, NatLessThanWellFounded, WFMin
  <2>3. PICK s \in SUBSET R : iter[s] # EndOf(s) /\ Cardinality(s) = k
    OBVIOUS
  <2>4. s # {}
    BY <2>3, <1>3, <1>7
  <2> DEFINE t == s \ {LastWalked(s)}
  <2>5. t \in SUBSET R /\ LastWalked(s) \in s
    BY <2>4, <1>4
  <2>6. iter[t] # EndOf(t)
    BY <2>3, <2>4, <1>4, <1>7
  <2>7. Cardinality(t) \in B
    BY <2>5, <2>6
  <2>8. Cardinality(t) = Cardinality(s) - 1
    BY <1>8, <2>5, FS_RemoveElement
  <2>9. Cardinality(t) \in Nat /\ k \in Nat /\ Cardinality(t) < k
    BY <1>8, <2>3, <2>5, <2>8
  <2> HIDE DEF B, t
  <2> QED BY <2>2, <2>7, <2>9 DEF OpToRel
<1>10. iter[R] = EndOf(R)
  BY <1>9
<1> QED BY <1>1, <1>10

-----------------------------------------------------------------------------
(* What the tables vouch for.                                              *)

\* Receipts end somewhere, and a range with positions in it ends at or below
\* the highest position ever given.
Reaching(d) ==
  /\ \E n \in Nat : Capped(d, n)
  /\ \A i \in DOMAIN d.receipts :
       d.receipts[i].thr <= d.autoinc \/ d.receipts[i].thr = d.receipts[i].from

\* The positions of h between two ends are in K.
Holds(K, h, from, thr) == \A row \in h : from < row.pos /\ row.pos <= thr => row.pos \in K

Vouched(d, h, K) ==
  \A i \in DOMAIN d.receipts : d.receipts[i].landed /\ d.receipts[i].whole =>
    Holds(K, h, d.receipts[i].from, d.receipts[i].thr)

Gone(d, h, K) == \A row \in h \ d.events : row.pos \in K

Sound(d, h, K) == Numbered(d, h) /\ Reaching(d) /\ Vouched(d, h, K) /\ Gone(d, h, K)

\* The chain is held, since a position it reaches is in a vouched range.
LEMMA SoundChain ==
  ASSUME NEW d, NEW h, NEW K, Sound(d, h, K), NEW row \in h, row.pos <= ExportedThrough(d)
  PROVE  row.pos \in K
<1>1. d \in Tables /\ row.pos \in Nat /\ 1 <= row.pos
  BY DEF Sound, Numbered, Row
<1>2. PICK n \in Nat : Capped(d, n)
  BY DEF Sound, Reaching
<1>3. PICK i \in DOMAIN d.receipts :
        /\ d.receipts[i].landed /\ d.receipts[i].whole
        /\ d.receipts[i].from < row.pos /\ row.pos <= d.receipts[i].thr
  BY <1>1, <1>2, ThroughIsCovered
<1> QED BY <1>3 DEF Sound, Vouched, Holds

\* What is kept may grow, and may lose what this history does not have.
LEMMA SoundKept ==
  ASSUME NEW d, NEW h, NEW K, NEW L, Sound(d, h, K),
         \A row \in h : row.pos \in K => row.pos \in L
  PROVE  Sound(d, h, L)
BY DEF Sound, Vouched, Holds, Gone

\* An append keeps the tables sound: its rows are above everything vouched for.
LEMMA SoundAppend ==
  ASSUME NEW d, NEW h, NEW K, Sound(d, h, K), NEW s \in Streams, NEW run, IsRun(run)
  PROVE  /\ Sound(AppendRun(d, s, run), h \cup RunRows(d, s, run), K)
         /\ AppendRun(d, s, run).receipts = d.receipts
         /\ AppendRun(d, s, run).autoinc >= d.autoinc
         /\ \A row \in RunRows(d, s, run) : row.pos > d.autoinc
<1> DEFINE e == AppendRun(d, s, run)
           rows == RunRows(d, s, run)
<1>1. d \in Tables /\ Numbered(d, h)
  BY DEF Sound, Numbered
<1>2. /\ Numbered(e, h \cup rows) /\ e.events = d.events \cup rows
      /\ e.receipts = d.receipts /\ rows \subseteq Row
      /\ e.autoinc >= d.autoinc /\ \A row \in rows : row.pos > d.autoinc
  <2>1. Lengthened(d, h, run, e, rows)
    BY <1>1, NumberedAppend
  <2> HIDE DEF e, rows
  <2> QED BY <2>1 DEF Lengthened
<1>3. d.autoinc \in Nat /\ e.autoinc \in Nat
  BY <1>1, <1>2 DEF Numbered, Tables
<1> HIDE DEF e, rows
<1>4. Reaching(e)
  <2>1. \A i \in DOMAIN d.receipts : d.receipts[i].thr \in Nat
    BY <1>1, ReceiptsAreReceipts
  <2> QED BY <1>2, <1>3, <2>1 DEF Sound, Reaching, Capped
<1>5. Vouched(e, h \cup rows, K)
  <2> SUFFICES ASSUME NEW i \in DOMAIN d.receipts,
                      d.receipts[i].landed, d.receipts[i].whole,
                      NEW row \in rows,
                      d.receipts[i].from < row.pos, row.pos <= d.receipts[i].thr
               PROVE  row.pos \in K
    BY <1>2 DEF Sound, Vouched, Holds
  <2>1. row.pos \in Nat /\ row.pos > d.autoinc
    BY <1>2 DEF Row
  <2>2. d.receipts[i].thr \in Nat /\ d.receipts[i].from \in Nat
    BY <1>1, ReceiptsAreReceipts
  <2>3. d.receipts[i].thr <= d.autoinc \/ d.receipts[i].thr = d.receipts[i].from
    BY DEF Sound, Reaching
  <2> QED BY <2>1, <2>2, <2>3, <1>3
<1>6. Gone(e, h \cup rows, K)
  BY <1>2 DEF Sound, Gone
<1> QED BY <1>2, <1>4, <1>5, <1>6 DEF Sound, e, rows

\* A removal below the end of the chain takes only what is held.
LEMMA SoundRemove ==
  ASSUME NEW d, NEW h, NEW K, Sound(d, h, K), NEW plan,
         HighestMatching(d, plan) <= ExportedThrough(d)
  PROVE  /\ Sound(RemoveMatching(d, plan), h, K)
         /\ RemoveMatching(d, plan).receipts = d.receipts
         /\ RemoveMatching(d, plan).autoinc = d.autoinc
<1> DEFINE e == RemoveMatching(d, plan)
<1>1. d \in Tables /\ Numbered(d, h)
  BY DEF Sound, Numbered
<1>2. /\ Numbered(e, h) /\ e.events = d.events \ Matching(d, plan)
      /\ e.receipts = d.receipts /\ e.autoinc = d.autoinc
  BY <1>1, NumberedRemove
<1> HIDE DEF e
<1>3. Gone(e, h, K)
  <2> SUFFICES ASSUME NEW row \in Matching(d, plan), row \in h PROVE row.pos \in K
    BY <1>2 DEF Gone, Sound
  <2>1. row.pos <= HighestMatching(d, plan) /\ row.pos \in Nat /\ HighestMatching(d, plan) \in Nat
    BY <1>1, HighestBounds DEF Numbered, Row
  <2>2. PICK m \in Nat : Capped(d, m)
    BY DEF Sound, Reaching
  <2>3. ExportedThrough(d) \in Nat
    BY <1>1, <2>2, ThroughIsLeast
  <2>4. row.pos <= ExportedThrough(d)
    BY <2>1, <2>3
  <2> QED BY <2>4, SoundChain
<1>4. Reaching(e) /\ Vouched(e, h, K)
  BY <1>2 DEF Sound, Reaching, Vouched, Capped
<1> QED BY <1>2, <1>3, <1>4 DEF Sound, e

\* The tables e are those of d and one more receipt, which has not landed.
Booked(d, h, K, from, thr, whole, e) ==
  /\ Sound(e, h, K)
  /\ DOMAIN e.receipts = DOMAIN d.receipts \cup {Len(d.receipts) + 1}
  /\ Len(d.receipts) + 1 \in Nat
  /\ \A i \in DOMAIN d.receipts : i \in Nat /\ i <= Len(d.receipts)
                                  /\ e.receipts[i] = d.receipts[i]
  /\ e.receipts[Len(d.receipts) + 1] =
       [from |-> from, thr |-> thr, landed |-> FALSE, whole |-> whole]
  /\ e.autoinc = d.autoinc

\* A new receipt vouches for nothing yet.
LEMMA SoundRecord ==
  ASSUME NEW d, NEW h, NEW K, Sound(d, h, K), NEW from \in Nat, NEW thr \in Nat,
         thr <= d.autoinc \/ thr = from, NEW whole \in BOOLEAN
  PROVE  Booked(d, h, K, from, thr, whole, RecordReceipt(d, from, thr, whole))
<1> DEFINE e == RecordReceipt(d, from, thr, whole)
           new == [from |-> from, thr |-> thr, landed |-> FALSE, whole |-> whole]
           l == Len(d.receipts)
<1>1. d \in Tables /\ Numbered(d, h) /\ d.receipts \in Seq(Receipt)
  BY DEF Sound, Numbered, Tables
<1>2. new \in Receipt
  BY DEF Receipt
<1>3. e = [d EXCEPT !.receipts = Append(d.receipts, new)]
  BY DEF RecordReceipt
<1> HIDE DEF new
<1>4. /\ Append(d.receipts, new) \in Seq(Receipt)
      /\ l \in Nat /\ DOMAIN d.receipts = 1..l
      /\ DOMAIN Append(d.receipts, new) = 1..l + 1
      /\ \A i \in 1..l : Append(d.receipts, new)[i] = d.receipts[i]
      /\ Append(d.receipts, new)[l + 1] = new
  BY <1>1, <1>2
<1>5. /\ e \in Tables /\ e.events = d.events /\ e.receipts = Append(d.receipts, new)
      /\ e.autoinc = d.autoinc /\ e.next = d.next
  <2> HIDE DEF e
  <2> QED BY <1>1, <1>3, <1>4 DEF Tables
<1> HIDE DEF e, l
<1>6. /\ DOMAIN e.receipts = DOMAIN d.receipts \cup {l + 1}
      /\ l + 1 \in Nat
      /\ \A i \in DOMAIN d.receipts : i \in Nat /\ i <= l /\ e.receipts[i] = d.receipts[i]
      /\ e.receipts[l + 1] = new
  BY <1>4, <1>5
<1>7. Numbered(e, h) /\ Gone(e, h, K)
  BY <1>1, <1>5 DEF Numbered, Sound, Gone
<1>8. new.thr = thr /\ new.from = from /\ new.landed = FALSE
  BY DEF new
<1>9. Vouched(e, h, K)
  BY <1>6, <1>8 DEF Sound, Vouched
<1>10. Reaching(e)
  <2>1. PICK n \in Nat : Capped(d, n)
    BY DEF Sound, Reaching
  <2>2. PICK m \in Nat : n <= m /\ thr <= m
    <3>1. CASE n <= thr
      BY <3>1
    <3>2. CASE thr <= n
      BY <3>2
    <3> QED BY <3>1, <3>2
  <2>3. \A i \in DOMAIN d.receipts : d.receipts[i].thr \in Nat
    BY <1>1, ReceiptsAreReceipts
  <2>4. Capped(e, m)
    BY <1>6, <1>8, <2>1, <2>2, <2>3 DEF Capped
  <2> QED BY <1>5, <1>6, <1>8, <2>4 DEF Sound, Reaching
<1>11. Booked(d, h, K, from, thr, whole, e)
  BY <1>5, <1>6, <1>7, <1>9, <1>10 DEF Booked, Sound, l, new
<1> QED BY <1>11 DEF e

\* A confirmation may vouch for a range that is held.
LEMMA SoundConfirm ==
  ASSUME NEW d, NEW h, NEW K, Sound(d, h, K), NEW id \in DOMAIN d.receipts,
         d.receipts[id].whole => Holds(K, h, d.receipts[id].from, d.receipts[id].thr)
  PROVE  LET e == ConfirmReceipt(d, id) IN
         /\ Sound(e, h, K)
         /\ DOMAIN e.receipts = DOMAIN d.receipts
         /\ \A i \in DOMAIN d.receipts :
              /\ e.receipts[i].from = d.receipts[i].from
              /\ e.receipts[i].thr = d.receipts[i].thr
              /\ e.receipts[i].whole = d.receipts[i].whole
              /\ i # id => e.receipts[i] = d.receipts[i]
         /\ e.autoinc = d.autoinc
<1> DEFINE e == ConfirmReceipt(d, id)
           new == [d.receipts[id] EXCEPT !.landed = TRUE]
           l == Len(d.receipts)
<1>1. d \in Tables /\ Numbered(d, h) /\ d.receipts \in Seq(Receipt) /\ d.receipts[id] \in Receipt
  BY DEF Sound, Numbered, Tables
<1>2. new \in Receipt /\ new.from = d.receipts[id].from /\ new.thr = d.receipts[id].thr
      /\ new.whole = d.receipts[id].whole
  BY <1>1 DEF Receipt
<1>3. e = [d EXCEPT !.receipts = [d.receipts EXCEPT ![id] = new]]
  BY <1>1 DEF ConfirmReceipt, Tables
<1> HIDE DEF new
<1>4. /\ [d.receipts EXCEPT ![id] = new] \in Seq(Receipt)
      /\ DOMAIN [d.receipts EXCEPT ![id] = new] = DOMAIN d.receipts
      /\ \A i \in DOMAIN d.receipts :
           [d.receipts EXCEPT ![id] = new][i] = IF i = id THEN new ELSE d.receipts[i]
  BY <1>1, <1>2
<1>5. /\ e \in Tables /\ e.events = d.events
      /\ e.receipts = [d.receipts EXCEPT ![id] = new]
      /\ e.autoinc = d.autoinc /\ e.next = d.next
  <2> HIDE DEF e
  <2> QED BY <1>1, <1>3, <1>4 DEF Tables
<1> HIDE DEF e
<1>6. /\ DOMAIN e.receipts = DOMAIN d.receipts
      /\ \A i \in DOMAIN d.receipts :
           /\ e.receipts[i].from = d.receipts[i].from
           /\ e.receipts[i].thr = d.receipts[i].thr
           /\ e.receipts[i].whole = d.receipts[i].whole
           /\ i # id => e.receipts[i] = d.receipts[i]
  BY <1>2, <1>4, <1>5
<1>7. Numbered(e, h) /\ Gone(e, h, K)
  BY <1>1, <1>5 DEF Numbered, Sound, Gone
<1>8. Vouched(e, h, K)
  BY <1>6 DEF Sound, Vouched
<1>9. Reaching(e)
  BY <1>5, <1>6 DEF Sound, Reaching, Capped
<1> QED BY <1>5, <1>6, <1>7, <1>8, <1>9 DEF Sound, e

-----------------------------------------------------------------------------
(* A call on its way.                                                      *)

Shown(me) == {r.pos : r \in me.page}

\* The page in hand, of rows there were.
PageOK(me, d, h) ==
  /\ IsFiniteSet(me.page)
  /\ \A r \in me.page : r \in h /\ r.pos <= d.autoinc

\* The receipt of the page in hand.
Receipted(me, d) ==
  /\ me.id \in DOMAIN d.receipts
  /\ d.receipts[me.id].from = me.cursor
  /\ d.receipts[me.id].thr = PageEnd(me)
  /\ d.receipts[me.id].whole = me.whole

CallOK(me, d, h, K) ==
  /\ me \in Pages
  /\ me.whole => me.kinds = Kinds
  /\ me.pc \in {"reach", "through", "apply"} => me.plan # NoPlan
  /\ PageOK(me, d, h)
  /\ me.pc \in {"record", "sink"} /\ me.whole =>
       Holds(K \cup Shown(me), h, me.cursor, PageEnd(me))
  /\ me.pc = "confirm" /\ me.whole => Holds(K, h, me.cursor, PageEnd(me))
  /\ me.pc \in {"sink", "confirm"} => Receipted(me, d)
  /\ me.pc = "sink" => ~d.receipts[me.id].landed

\* The end of a page is its start or the position of one of its rows.
LEMMA PageEnds ==
  ASSUME NEW me, NEW n \in Nat, me.cursor \in Nat, me.page \subseteq Row,
         \A r \in me.page : r.pos <= n
  PROVE  /\ PageEnd(me) \in Nat /\ me.cursor <= PageEnd(me)
         /\ \A r \in me.page : r.pos <= PageEnd(me)
         /\ PageEnd(me) = me.cursor \/ \E r \in me.page : r.pos = PageEnd(me)
<1> DEFINE S == {me.cursor} \cup Positions(me.page)
<1>1. PICK m \in Nat : me.cursor <= m /\ n <= m
  <2>1. CASE me.cursor <= n
    BY <2>1
  <2>2. CASE n <= me.cursor
    BY <2>2
  <2> QED BY <2>1, <2>2
<1>2. \A r \in me.page : r.pos \in Nat /\ r.pos <= m
  BY <1>1 DEF Row
<1>3. S \in SUBSET (0..m) /\ S # {} /\ me.cursor \in S
  BY <1>1, <1>2 DEF Positions
<1>4. \A r \in me.page : r.pos \in S
  BY DEF Positions
<1>5. \A p \in S : p = me.cursor \/ \E r \in me.page : r.pos = p
  BY DEF Positions
<1>6. PageEnd(me) = MaxOrZero(S)
  BY DEF PageEnd
<1> HIDE DEF S
<1>7. MaxOrZero(S) \in 0..m /\ (\A p \in S : p <= MaxOrZero(S)) /\ MaxOrZero(S) \in S
  BY <1>3, MaxOrZeroBound
<1>8. MaxOrZero(S) \in Nat /\ me.cursor <= MaxOrZero(S)
  BY <1>3, <1>7
<1>9. \A r \in me.page : r.pos <= MaxOrZero(S)
  BY <1>4, <1>7
<1>10. MaxOrZero(S) = me.cursor \/ \E r \in me.page : r.pos = MaxOrZero(S)
  BY <1>5, <1>7
<1> QED BY <1>6, <1>8, <1>9, <1>10

\* A call stays as it is while the log grows above it, is trimmed, records and
\* confirms other receipts and the sinks take more.
LEMMA CallKeeps ==
  ASSUME NEW d \in Tables, NEW h, NEW K, NEW me, CallOK(me, d, h, K),
         NEW e, NEW g, NEW L,
         e.autoinc \in Nat, e.autoinc >= d.autoinc, h \subseteq g,
         \A row \in g \ h : row.pos \in Nat /\ row.pos > d.autoinc,
         \A row \in h : row.pos \in K => row.pos \in L,
         \A i \in DOMAIN d.receipts :
           /\ i \in DOMAIN e.receipts
           /\ e.receipts[i].from = d.receipts[i].from
           /\ e.receipts[i].thr = d.receipts[i].thr
           /\ e.receipts[i].whole = d.receipts[i].whole
           /\ (me.pc = "sink" /\ i = me.id) => e.receipts[i].landed = d.receipts[i].landed
  PROVE  CallOK(me, e, g, L)
<1>1. d.autoinc \in Nat /\ me.cursor \in Nat /\ me.page \subseteq Row
      /\ \A r \in me.page : r.pos \in Nat /\ r.pos <= d.autoinc
  BY DEF Tables, CallOK, Pages, PageOK, Row
<1>2. PageOK(me, e, g)
  BY <1>1 DEF CallOK, PageOK
<1>3. /\ PageEnd(me) \in Nat
      /\ PageEnd(me) = me.cursor \/ \E r \in me.page : r.pos = PageEnd(me)
  BY <1>1, PageEnds
<1>4. PageEnd(me) = me.cursor \/ PageEnd(me) <= d.autoinc
  BY <1>1, <1>3
<1>5. ASSUME NEW row \in g, me.cursor < row.pos, row.pos <= PageEnd(me) PROVE row \in h
  <2> SUFFICES ASSUME row \notin h PROVE FALSE
    OBVIOUS
  <2>1. row.pos \in Nat /\ row.pos > d.autoinc
    BY <1>5
  <2> QED BY <2>1, <1>1, <1>3, <1>4, <1>5
<1>6. (me.pc \in {"record", "sink"} /\ me.whole) =>
        Holds(L \cup Shown(me), g, me.cursor, PageEnd(me))
  BY <1>5 DEF CallOK, Holds
<1>7. (me.pc = "confirm" /\ me.whole) => Holds(L, g, me.cursor, PageEnd(me))
  BY <1>5 DEF CallOK, Holds
<1>8. me.pc \in {"sink", "confirm"} => Receipted(me, e)
  BY DEF CallOK, Receipted
<1>9. me.pc = "sink" => ~e.receipts[me.id].landed
  BY DEF CallOK, Receipted
<1> QED BY <1>2, <1>6, <1>7, <1>8, <1>9 DEF CallOK

\* Outside of its page a call says nothing of the tables.
Early(me) ==
  /\ me \in Pages /\ (me.whole => me.kinds = Kinds)
  /\ me.pc \in {"reach", "through", "apply"} => me.plan # NoPlan
  /\ me.page = {}
  /\ me.pc \in {"idle", "reach", "through", "page", "apply"}

\* A call with no page in hand is in order whatever the tables are.
LEMMA EarlyIsOK ==
  ASSUME NEW d, NEW h, NEW K, NEW me, Early(me)
  PROVE  CallOK(me, d, h, K)
<1>1. IsFiniteSet(me.page)
  BY FS_EmptySet DEF Early
<1> QED BY <1>1 DEF CallOK, PageOK, Early

\* No call is one of those.
LEMMA IdleIsEarly == Early(Idle)
BY DEF Early, Idle, Pages

-----------------------------------------------------------------------------
(* What sinks take.                                                        *)

SinkOK(s) == s \in Sink /\ IsFiniteSet(s.holds) /\ s.synced \subseteq s.holds

LateOK(l) == l \in [to : LogSinks, id : Nat, page : SUBSET Row] /\ IsFiniteSet(l.page)

\* A page lands event by event: finitely many, with the positions it had.
LEMMA LandingIsHeld ==
  ASSUME NEW s, SinkOK(s), NEW page \in SUBSET Row, IsFiniteSet(page)
  PROVE  /\ Landing(s, page) \subseteq Held /\ IsFiniteSet(Landing(s, page))
         /\ {h.pos : h \in Landing(s, page)} = {r.pos : r \in page}
<1> DEFINE at(row) == Cardinality(s.holds) + Cardinality({q \in page : q.pos <= row.pos})
           f == [row \in page |-> [at |-> at(row), pos |-> row.pos]]
<1>1. Cardinality(s.holds) \in Nat
  BY FS_CardinalityType DEF SinkOK
<1>2. ASSUME NEW row \in page PROVE Cardinality({q \in page : q.pos <= row.pos}) \in Nat
  <2>1. {q \in page : q.pos <= row.pos} \in SUBSET page
    OBVIOUS
  <2>2. IsFiniteSet({q \in page : q.pos <= row.pos})
    BY <2>1, FS_Subset
  <2> QED BY <2>2, FS_CardinalityType
<1>3. \A row \in page : at(row) \in Nat /\ row.pos \in Nat
  BY <1>1, <1>2 DEF Row
<1>4. Landing(s, page) = {[at |-> at(row), pos |-> row.pos] : row \in page}
  BY DEF Landing
<1> HIDE DEF at
<1>5. f \in Surjection(page, Landing(s, page))
  BY <1>4 DEF Surjection
<1>6. IsFiniteSet(Landing(s, page))
  <2> HIDE DEF f
  <2> QED BY <1>5, FS_Surjection
<1>7. Landing(s, page) \subseteq Held
  BY <1>3, <1>4 DEF Held
<1>8. {h.pos : h \in Landing(s, page)} = {r.pos : r \in page}
  <2>1. \A h \in Landing(s, page) : \E row \in page : h.pos = row.pos
    BY <1>4
  <2>2. \A row \in page : \E h \in Landing(s, page) : h.pos = row.pos
    <3> SUFFICES ASSUME NEW row \in page PROVE \E h \in Landing(s, page) : h.pos = row.pos
      OBVIOUS
    <3>1. [at |-> at(row), pos |-> row.pos] \in Landing(s, page)
      BY <1>4
    <3> QED BY <3>1
  <2> QED BY <2>1, <2>2
<1> QED BY <1>6, <1>7, <1>8

\* A sink that took a page holds what it held and the page.
LEMMA ReceivesIsOK ==
  ASSUME NEW s, SinkOK(s), NEW page \in SUBSET Row, IsFiniteSet(page)
  PROVE  /\ SinkOK(Receives(s, page))
         /\ {h.pos : h \in Receives(s, page).holds} =
              {h.pos : h \in s.holds} \cup {r.pos : r \in page}
         /\ Receives(s, page).synced = s.synced /\ Receives(s, page).lost = s.lost
<1>1. /\ Landing(s, page) \subseteq Held /\ IsFiniteSet(Landing(s, page))
      /\ {h.pos : h \in Landing(s, page)} = {r.pos : r \in page}
  BY LandingIsHeld
<1>2. Receives(s, page) = [s EXCEPT !.holds = s.holds \cup Landing(s, page)]
  BY DEF Receives
<1>3. /\ Receives(s, page) \in Sink /\ Receives(s, page).holds = s.holds \cup Landing(s, page)
      /\ Receives(s, page).synced = s.synced /\ Receives(s, page).lost = s.lost
  BY <1>1, <1>2 DEF SinkOK, Sink
<1>4. IsFiniteSet(s.holds \cup Landing(s, page))
  BY <1>1, FS_Union DEF SinkOK
<1>5. {h.pos : h \in s.holds \cup Landing(s, page)} =
        {h.pos : h \in s.holds} \cup {h.pos : h \in Landing(s, page)}
  OBVIOUS
<1> QED BY <1>1, <1>3, <1>4, <1>5 DEF SinkOK

\* A report changes nothing that is held.
LEMMA ReportsIsOK ==
  ASSUME NEW s, SinkOK(s), NEW page \in SUBSET Row, IsFiniteSet(page)
  PROVE  /\ SinkOK(Reports(s, page)) /\ Reports(s, page).holds = s.holds
         /\ Reports(s, page).synced = s.synced /\ Reports(s, page).lost = s.lost
<1>1. Cardinality(page) \in Nat
  BY FS_CardinalityType
<1> DEFINE all == \A h \in Landing(s, page) : h.at = h.pos
<1>2. s.imported \in Nat /\ s.reproduced \in BOOLEAN
  BY DEF SinkOK, Sink
<1>3. s.imported + Cardinality(page) \in Nat
  BY <1>1, <1>2
<1>4. (s.reproduced /\ all) \in BOOLEAN
  OBVIOUS
<1>5. Reports(s, page) = [s EXCEPT !.imported = s.imported + Cardinality(page),
                                   !.reproduced = s.reproduced /\ all]
  BY DEF Reports
<1> HIDE DEF all
<1> QED BY <1>3, <1>4, <1>5 DEF SinkOK, Sink

\* What a writer has synced is all that a sink has on its disk.
LEMMA SyncedIsOK ==
  ASSUME NEW s, SinkOK(s)
  PROVE  /\ SinkOK(Synced(s)) /\ Synced(s).holds = s.holds /\ Synced(s).synced = s.holds
         /\ Synced(s).lost = s.lost
BY DEF Synced, SinkOK, Sink

\* The positions a task's sink answers for: a writer that syncs for those on its
\* disk, any other also for those it holds in memory and those it lost.
Trust(a, s) == IF a \in SyncSinks THEN {h.pos : h \in s.synced}
               ELSE {h.pos : h \in s.holds} \cup s.lost

Trusted == UNION {Trust(a, sinks[a]) : a \in Archivers}

\* Every trusted position is held, or was lost.
LEMMA TrustedIsKept ==
  ASSUME \A a \in Archivers : SinkOK(sinks[a])
  PROVE  Trusted \subseteq Kept \cup Lost
<1> SUFFICES ASSUME NEW a \in Archivers, NEW p \in Trust(a, sinks[a])
             PROVE  p \in Kept \cup Lost
  BY DEF Trusted
<1>1. p \in {h.pos : h \in sinks[a].holds} \cup sinks[a].lost
  BY DEF Trust, SinkOK
<1> QED BY <1>1 DEF Kept, Lost

-----------------------------------------------------------------------------
(* The inductive invariant.                                                *)

InFlight(me) == me.pc \in {"sink", "confirm"}

\* No two calls have the receipt of one page in hand.
Distinct(f) ==
  \A a, b \in Archivers : a # b /\ InFlight(f[a]) /\ InFlight(f[b]) => f[a].id # f[b].id

CallsOK == /\ archiver \in [Archivers -> Pages] /\ Distinct(archiver)
           /\ \A a \in Archivers : CallOK(archiver[a], db, history, Trusted)

SinksOK == /\ sinks \in [Archivers -> Sink] /\ \A a \in Archivers : SinkOK(sinks[a])
           /\ \A a \in SyncSinks : sinks[a].lost = {}
           /\ \A l \in late : LateOK(l)

DiskOK == /\ disk = [db |-> disk.db, history |-> disk.history]
          /\ Sound(disk.db, disk.history, Trusted)

IInv ==
  /\ Sound(db, history, Trusted) /\ DiskOK
  /\ CallsOK /\ SinksOK
  /\ left \in [tasks : SUBSET Archivers, calls : Nat, losses : Nat]

\* The tables as they were and as they are, for the calls that do not move;
\* `ids` are the receipts that were confirmed.
Extends(d, h, K, e, g, L, ids) ==
  /\ e.autoinc \in Nat /\ e.autoinc >= d.autoinc /\ h \subseteq g
  /\ \A row \in g \ h : row.pos \in Nat /\ row.pos > d.autoinc
  /\ \A row \in h : row.pos \in K => row.pos \in L
  /\ \A i \in DOMAIN d.receipts :
       /\ i \in DOMAIN e.receipts
       /\ e.receipts[i].from = d.receipts[i].from
       /\ e.receipts[i].thr = d.receipts[i].thr
       /\ e.receipts[i].whole = d.receipts[i].whole
       /\ i \notin ids => e.receipts[i].landed = d.receipts[i].landed

\* CallKeeps, for what a step may do to the tables and the sinks at once.
LEMMA CallExtends ==
  ASSUME NEW d \in Tables, NEW h, NEW K, NEW me, CallOK(me, d, h, K),
         NEW e, NEW g, NEW L, NEW ids, Extends(d, h, K, e, g, L, ids),
         me.pc = "sink" => me.id \notin ids
  PROVE  CallOK(me, e, g, L)
BY CallKeeps DEF Extends

\* Tables that stay extend themselves.
LEMMA SameExtends ==
  ASSUME NEW d \in Tables, NEW h, NEW K, NEW L, \A row \in h : row.pos \in K => row.pos \in L
  PROVE  Extends(d, h, K, d, h, L, {})
BY DEF Extends, Tables

\* The call of one task moves, and the others stay as they are.
LEMMA OneCallMoves ==
  ASSUME IInv, NEW a \in Archivers, NEW new, NEW ids,
         archiver' = [archiver EXCEPT ![a] = new],
         Extends(db, history, Trusted, db', history', Trusted', ids),
         \A b \in Archivers : b # a /\ archiver[b].pc = "sink" => archiver[b].id \notin ids,
         CallOK(new, db', history', Trusted'),
         InFlight(new) => \/ InFlight(archiver[a]) /\ new.id = archiver[a].id
                          \/ new.id \notin DOMAIN db.receipts
  PROVE  CallsOK'
<1>1. db \in Tables /\ archiver \in [Archivers -> Pages] /\ new \in Pages
  BY DEF IInv, Sound, Numbered, CallsOK, CallOK
<1>2. archiver' \in [Archivers -> Pages] /\ archiver'[a] = new
      /\ \A b \in Archivers : b # a => archiver'[b] = archiver[b]
  BY <1>1
<1>3. ASSUME NEW b \in Archivers, b # a PROVE CallOK(archiver[b], db', history', Trusted')
  <2>1. CallOK(archiver[b], db, history, Trusted)
    BY DEF IInv, CallsOK
  <2>2. archiver[b].pc = "sink" => archiver[b].id \notin ids
    BY <1>3
  <2> QED BY <2>1, <2>2, <1>1, CallExtends
<1>4. \A b \in Archivers : CallOK(archiver'[b], db', history', Trusted')
  BY <1>2, <1>3
<1>5. \A b \in Archivers : InFlight(archiver[b]) => archiver[b].id \in DOMAIN db.receipts
  BY DEF IInv, CallsOK, CallOK, InFlight, Receipted
<1>6. ASSUME NEW b \in Archivers, b # a, InFlight(archiver[b]), InFlight(new)
      PROVE  new.id # archiver[b].id
  BY <1>5, <1>6 DEF IInv, CallsOK, Distinct
<1>7. Distinct(archiver')
  BY <1>2, <1>6 DEF IInv, CallsOK, Distinct
<1> QED BY <1>2, <1>4, <1>7 DEF CallsOK

\* No call moves.
LEMMA NoCallMoves ==
  ASSUME IInv, UNCHANGED archiver, Extends(db, history, Trusted, db', history', Trusted', {})
  PROVE  CallsOK'
<1>1. db \in Tables
  BY DEF IInv, Sound, Numbered
<1>2. \A a \in Archivers : CallOK(archiver[a], db', history', Trusted')
  BY <1>1, CallExtends DEF IInv, CallsOK
<1> QED BY <1>2 DEF IInv, CallsOK

\* A sink may come to answer for more than it did.
LEMMA TrustGrows ==
  ASSUME SinksOK, NEW a \in Archivers, NEW s, NEW S,
         sinks' = [sinks EXCEPT ![a] = s],
         Trust(a, sinks[a]) \cup S \subseteq Trust(a, s)
  PROVE  Trusted \cup S \subseteq Trusted'
<1>1. sinks'[a] = s /\ \A b \in Archivers : b # a => sinks'[b] = sinks[b]
  BY DEF SinksOK
<1>2. /\ Trusted' = UNION {Trust(b, sinks'[b]) : b \in Archivers}
      /\ Trusted = UNION {Trust(b, sinks[b]) : b \in Archivers}
  BY DEF Trusted, Trust
<1> QED BY <1>1, <1>2

\* What is trusted stays while sinks only report or forget reports.
LEMMA TrustStays ==
  ASSUME \A a \in Archivers : /\ sinks'[a].holds = sinks[a].holds
                               /\ sinks'[a].synced = sinks[a].synced
                               /\ sinks'[a].lost = sinks[a].lost
  PROVE  Trusted' = Trusted
BY DEF Trusted, Trust

-----------------------------------------------------------------------------
(* The steps, by what they move.                                           *)

\* A fresh log and new sinks.
LEMMA InitOK == ASSUME Init PROVE IInv
<1>1. db = EmptyTables /\ history = {}
  BY DEF Init, LogInit
<1>2. EmptyTables \in Tables
  BY DEF EmptyTables, Tables
<1>3. Numbered(db, history)
  BY <1>1, <1>2, FS_EmptySet DEF Numbered, Dense, EmptyTables
<1>4. DOMAIN EmptyTables.receipts = {}
  BY DEF EmptyTables
<1>5. Sound(db, history, Trusted)
  BY <1>1, <1>3, <1>4 DEF Sound, Reaching, Capped, Vouched, Gone, EmptyTables
<1>6. disk = [db |-> db, history |-> history]
  BY DEF Init
<1>7. disk.db = db /\ disk.history = history
  BY <1>6
<1>8. DiskOK
  BY <1>5, <1>6, <1>7 DEF DiskOK
<1>9. CallsOK
  <2>1. archiver = [a \in Archivers |-> Idle] /\ Idle \in Pages
    BY IdleIsEarly DEF Init, Early
  <2>2. \A a \in Archivers : CallOK(archiver[a], db, history, Trusted)
    BY <2>1, IdleIsEarly, EarlyIsOK
  <2>3. \A a \in Archivers : ~InFlight(archiver[a])
    BY <2>1 DEF Idle, InFlight
  <2> QED BY <2>1, <2>2, <2>3 DEF CallsOK, Distinct
<1>10. SinksOK
  <2>1. PICK there \in {{}, {[at |-> 1, pos |-> 0]}} :
          sinks = [a \in Archivers |-> LET held == IF a \in LogSinks THEN there ELSE {}
                                       IN NewSink(held, held, {})]
    BY DEF Init
  <2>2. there \subseteq Held /\ IsFiniteSet(there)
    <3> DEFINE one == [at |-> 1, pos |-> 0]
    <3>1. one \in Held
      BY DEF Held
    <3> HIDE DEF one
    <3>2. IsFiniteSet({one}) /\ IsFiniteSet({})
      BY FS_EmptySet, FS_Singleton
    <3>3. there = {} \/ there = {one}
      BY DEF one
    <3> QED BY <3>1, <3>2, <3>3
  <2>3. \A held \in SUBSET Held : IsFiniteSet(held) =>
          SinkOK(NewSink(held, held, {})) /\ NewSink(held, held, {}).lost = {}
    BY DEF NewSink, SinkOK, Sink
  <2>4. \A a \in Archivers : SinkOK(sinks[a]) /\ sinks[a].lost = {}
    BY <2>1, <2>2, <2>3, FS_EmptySet
  <2>5. late = {}
    BY DEF Init
  <2> QED BY <2>1, <2>4, <2>5, ArchiveAssumption DEF SinksOK, SinkOK
<1>11. left \in Bounds
  BY DEF Init
<1> QED BY <1>5, <1>8, <1>9, <1>10, <1>11, ArchiveAssumption DEF IInv

\* Only one call moves, and it has no receipt of a page in hand.
LEMMA CallOnly ==
  ASSUME IInv, NEW a \in Archivers, NEW new,
         archiver' = [archiver EXCEPT ![a] = new],
         UNCHANGED <<db, history, sinks, late, disk>>,
         left' \in [tasks : SUBSET Archivers, calls : Nat, losses : Nat],
         CallOK(new, db, history, Trusted), ~InFlight(new)
  PROVE  IInv'
<1>1. Trusted' = Trusted
  BY DEF Trusted, Trust
<1>2. db \in Tables
  BY DEF IInv, Sound, Numbered
<1>3. Extends(db, history, Trusted, db', history', Trusted', {})
  BY <1>1, <1>2, SameExtends
<1>4. CallOK(new, db', history', Trusted')
  BY <1>1
<1>5. CallsOK'
  <2>1. \A b \in Archivers : b # a /\ archiver[b].pc = "sink" => archiver[b].id \notin {}
    OBVIOUS
  <2> DEFINE ids == {}
  <2>2. /\ Extends(db, history, Trusted, db', history', Trusted', ids)
        /\ \A b \in Archivers : b # a /\ archiver[b].pc = "sink" => archiver[b].id \notin ids
    BY <1>3
  <2> HIDE DEF ids
  <2> QED BY <2>2, <1>4, OneCallMoves
<1>6. Sound(db, history, Trusted)' /\ DiskOK' /\ SinksOK'
  BY <1>1 DEF IInv, DiskOK, SinksOK
<1> QED BY <1>5, <1>6 DEF IInv

\* A call that starts uses up one of those left.
LEMMA CallsLeft ==
  ASSUME left \in [tasks : SUBSET Archivers, calls : Nat, losses : Nat], NEW a, Calls(a)
  PROVE  left' \in [tasks : SUBSET Archivers, calls : Nat, losses : Nat]
<1>1. left.calls \in Nat /\ left.calls > 0
  BY DEF Calls
<1>2. left.calls - 1 \in Nat
  BY <1>1
<1>3. left' = [left EXCEPT !.calls = left.calls - 1]
  BY DEF Calls
<1> QED BY <1>2, <1>3

\* Starting a call and its reads: the reach, the chain and the page.
LEMMA ReadersOK ==
  ASSUME IInv, NEW a \in Archivers,
         \/ \E plan \in Plans : Archive(a, plan)
         \/ \E x \in Exports : ExportByHand(a, x)
         \/ Reach(a) \/ Through(a) \/ ReadPage(a)
  PROVE  IInv'
<1> DEFINE me == archiver[a]
<1>0. /\ CallOK(me, db, history, Trusted) /\ me \in Pages
      /\ left \in [tasks : SUBSET Archivers, calls : Nat, losses : Nat]
  BY DEF IInv, CallsOK, CallOK
<1>01. db \in Tables /\ Numbered(db, history)
  BY DEF IInv, Sound, Numbered
<1>02. Idle = [pc |-> "idle", plan |-> NoPlan, kinds |-> {}, whole |-> FALSE, target |-> 0,
               cursor |-> 0, page |-> {}, id |-> 0]
  BY DEF Idle
<1>1. ASSUME NEW plan \in Plans, Archive(a, plan) PROVE IInv'
  <2> DEFINE new == [Idle EXCEPT !.pc = "reach", !.plan = plan, !.kinds = Kinds, !.whole = TRUE]
  <2>1. Early(new)
    BY <1>02, NoPlanAssumption DEF Early, Pages
  <2>2. left' \in [tasks : SUBSET Archivers, calls : Nat, losses : Nat]
    BY <1>0, <1>1, CallsLeft DEF Archive
  <2>3. archiver' = [archiver EXCEPT ![a] = new] /\ UNCHANGED <<db, history, sinks, late, disk>>
    BY <1>1 DEF Archive, Goes, logVars, sinkVars
  <2> HIDE DEF new
  <2>4. CallOK(new, db, history, Trusted) /\ ~InFlight(new)
    BY <2>1, EarlyIsOK DEF Early, InFlight
  <2> QED BY <2>2, <2>3, <2>4, CallOnly
<1>2. ASSUME NEW x \in Exports, ExportByHand(a, x) PROVE IInv'
  <2> DEFINE new == [Idle EXCEPT !.pc = "page", !.cursor = x.from, !.kinds = x.kinds,
                                 !.whole = x.whole]
  <2>1. x.from \in Nat /\ x.kinds \subseteq Kinds /\ x.whole \in BOOLEAN
        /\ (x.whole => x.kinds = Kinds)
    BY ArchiveAssumption
  <2>2. Early(new)
    BY <1>02, <2>1 DEF Early, Pages
  <2>3. left' \in [tasks : SUBSET Archivers, calls : Nat, losses : Nat]
    BY <1>0, <1>2, CallsLeft DEF ExportByHand
  <2>4. archiver' = [archiver EXCEPT ![a] = new] /\ UNCHANGED <<db, history, sinks, late, disk>>
    BY <1>2 DEF ExportByHand, Goes, logVars, sinkVars
  <2> HIDE DEF new
  <2>5. CallOK(new, db, history, Trusted) /\ ~InFlight(new)
    BY <2>2, EarlyIsOK DEF Early, InFlight
  <2> QED BY <2>3, <2>4, <2>5, CallOnly
<1>3. CASE Reach(a)
  <2> DEFINE high == HighestMatching(db, me.plan)
             new == IF Matching(db, me.plan) = {} THEN Idle
                    ELSE [me EXCEPT !.pc = "through", !.target = high]
  <2>1. high \in Nat
    BY <1>01, HighestBounds
  <2>2. me.pc = "reach"
    BY <1>3 DEF Reach, At
  <2>3. archiver' = [archiver EXCEPT ![a] = new] /\ UNCHANGED <<db, history, sinks, late, disk, left>>
    BY <1>3 DEF Reach, Goes, logVars, sinkVars
  <2>4. CallOK(new, db, history, Trusted) /\ ~InFlight(new)
    <3>1. CASE Matching(db, me.plan) = {}
      BY <3>1, IdleIsEarly, EarlyIsOK DEF Early, InFlight
    <3>2. CASE Matching(db, me.plan) # {}
      <4> HIDE DEF high
      <4> DEFINE next == [me EXCEPT !.pc = "through", !.target = high]
      <4>1. next \in Pages /\ next.pc = "through" /\ next.plan = me.plan /\ next.whole = me.whole
            /\ next.kinds = me.kinds /\ next.page = me.page /\ new = next
        BY <3>2, <1>0, <2>1 DEF Pages
      <4> HIDE DEF new, next
      <4> QED BY <4>1, <1>0, <2>2 DEF CallOK, PageOK, InFlight
    <3> QED BY <3>1, <3>2
  <2> HIDE DEF new
  <2> QED BY <1>0, <2>3, <2>4, CallOnly
<1>4. CASE Through(a)
  <2> DEFINE cursor == ExportedThrough(db)
             new == Turn(me, cursor)
  <2>1. cursor \in Nat
    BY <1>01, ThroughIsLeast DEF IInv, Sound, Reaching
  <2>2. me.pc = "through"
    BY <1>4 DEF Through, At
  <2>3. archiver' = [archiver EXCEPT ![a] = new] /\ UNCHANGED <<db, history, sinks, late, disk, left>>
    BY <1>4 DEF Through, Goes, logVars, sinkVars
  <2> HIDE DEF cursor
  <2>4. Early(new)
    BY <1>0, <2>1, <2>2 DEF Early, Turn, Pages, CallOK
  <2> HIDE DEF new
  <2>5. CallOK(new, db, history, Trusted) /\ ~InFlight(new)
    BY <2>4, EarlyIsOK DEF Early, InFlight
  <2> QED BY <1>0, <2>3, <2>5, CallOnly
<1>5. CASE ReadPage(a)
  <2> DEFINE S == Selected(db, me.cursor, me.kinds, Streams)
             page == SelectStored(db, me.cursor, me.kinds, Streams, PageSize)
             new == [me EXCEPT !.pc = "record", !.page = page]
  <2>1. me.pc = "page" /\ archiver' = [archiver EXCEPT ![a] = new]
        /\ UNCHANGED <<db, history, sinks, late, disk, left>>
    BY <1>5 DEF ReadPage, At, Goes, logVars, sinkVars
  <2>2. S \subseteq db.events /\ page = Lowest(S, PageSize)
    BY DEF Selected, SelectStored
  <2>3. page \subseteq S /\ page \subseteq Row /\ page \subseteq history
    BY <2>2, <1>01 DEF Lowest, Numbered
  <2>4. IsFiniteSet(page) /\ IsFiniteSet(S)
    BY <2>2, <2>3, <1>01, FS_Subset DEF Numbered
  <2> HIDE DEF page, S
  <2>5. new \in Pages /\ new.pc = "record" /\ new.cursor = me.cursor /\ new.page = page
        /\ new.whole = me.whole /\ new.kinds = me.kinds
    BY <1>0, <2>3 DEF Pages
  <2> HIDE DEF new
  <2>6. PageOK(new, db, history)
    BY <2>3, <2>4, <2>5, <1>01 DEF PageOK, Numbered, Dense
  <2>7. ASSUME new.whole PROVE Holds(Trusted \cup Shown(new), history, new.cursor, PageEnd(new))
    <3> SUFFICES ASSUME NEW row \in history, me.cursor < row.pos, row.pos <= PageEnd(new),
                        row \in db.events
                 PROVE  row \in page
      BY <2>5 DEF Holds, Shown, IInv, Sound, Gone
    <3>1. row \in S
      BY <2>7, <2>5, <1>0, <1>01 DEF S, Selected, CallOK, Numbered, Row
    <3>2. new.cursor \in Nat /\ new.page \subseteq Row /\ db.autoinc \in Nat /\ row.pos \in Nat
      BY <2>5, <1>01 DEF Pages, Tables, Numbered, Row
    <3>3. PICK q \in page : q.pos = PageEnd(new)
      <4>1. PageEnd(new) \in Nat
            /\ (PageEnd(new) = new.cursor \/ \E r \in new.page : r.pos = PageEnd(new))
        BY <3>2, <2>6, PageEnds DEF PageOK
      <4> QED BY <4>1, <3>2, <2>5
    <3> DEFINE B(r) == {x \in S : x.pos < r.pos}
    <3>4. \A x \in S : x.pos \in Nat
      BY <2>2, <1>01 DEF Numbered, Row
    <3>5. B(row) \in SUBSET B(q) /\ B(q) \in SUBSET S
      BY <3>2, <3>3, <3>4, <2>3
    <3>6. Cardinality(B(q)) < PageSize
      BY <2>2, <3>3 DEF Lowest
    <3>7. IsFiniteSet(B(q))
      BY <3>5, <2>4, FS_Subset
    <3>8. IsFiniteSet(B(row)) /\ Cardinality(B(row)) <= Cardinality(B(q))
      BY <3>5, <3>7, FS_Subset
    <3>9. Cardinality(B(row)) \in Nat /\ Cardinality(B(q)) \in Nat /\ PageSize \in Nat
      BY <3>7, <3>8, FS_CardinalityType, ArchiveAssumption
    <3>10. Cardinality(B(row)) < PageSize
      BY <3>6, <3>8, <3>9
    <3> QED BY <3>1, <3>10, <2>2 DEF Lowest
  <2>8. CallOK(new, db, history, Trusted) /\ ~InFlight(new)
    BY <1>0, <2>1, <2>5, <2>6, <2>7 DEF CallOK, InFlight
  <2> QED BY <1>0, <2>1, <2>8, CallOnly
<1> QED BY <1>1, <1>2, <1>3, <1>4, <1>5

\* The receipt of a page that is in hand.
LEMMA RecordOK == ASSUME IInv, NEW a \in Archivers, Record(a) PROVE IInv'
<1> DEFINE me == archiver[a]
           e == RecordReceipt(db, me.cursor, PageEnd(me), me.whole)
           i == Len(db.receipts) + 1
           new == IF me.page # {} THEN [me EXCEPT !.pc = "sink", !.id = i]
                  ELSE IF me.plan = NoPlan THEN Idle ELSE [me EXCEPT !.pc = "apply"]
<1>1. /\ CallOK(me, db, history, Trusted) /\ me \in Pages /\ me.pc = "record"
      /\ db \in Tables /\ Sound(db, history, Trusted)
  BY DEF IInv, CallsOK, CallOK, Sound, Numbered, Record, At
<1>2. /\ db' = e /\ archiver' = [archiver EXCEPT ![a] = new]
      /\ UNCHANGED <<history, sinks, late, disk, left>>
  BY DEF Record, Goes, sinkVars
<1>3. Trusted' = Trusted
  BY <1>2 DEF Trusted, Trust
<1>4. /\ me.cursor \in Nat /\ me.whole \in BOOLEAN /\ me.page \subseteq Row
      /\ db.autoinc \in Nat /\ \A r \in me.page : r.pos <= db.autoinc
  BY <1>1 DEF Pages, Tables, CallOK, PageOK
<1>5. /\ PageEnd(me) \in Nat
      /\ PageEnd(me) = me.cursor \/ \E r \in me.page : r.pos = PageEnd(me)
  BY <1>4, PageEnds
<1>6. PageEnd(me) <= db.autoinc \/ PageEnd(me) = me.cursor
  BY <1>4, <1>5
<1> HIDE DEF i, new
<1>7. /\ Sound(e, history, Trusted)
      /\ DOMAIN e.receipts = DOMAIN db.receipts \cup {i} /\ i \in Nat
      /\ \A j \in DOMAIN db.receipts : j \in Nat /\ j < i /\ e.receipts[j] = db.receipts[j]
      /\ e.receipts[i] = [from |-> me.cursor, thr |-> PageEnd(me), landed |-> FALSE,
                          whole |-> me.whole]
      /\ e.autoinc = db.autoinc
  <2> DEFINE l == Len(db.receipts)
  <2>1. /\ Sound(e, history, Trusted)
        /\ DOMAIN e.receipts = DOMAIN db.receipts \cup {l + 1} /\ l + 1 \in Nat
        /\ \A j \in DOMAIN db.receipts : j \in Nat /\ j <= l /\ e.receipts[j] = db.receipts[j]
        /\ e.receipts[l + 1] = [from |-> me.cursor, thr |-> PageEnd(me), landed |-> FALSE,
                                whole |-> me.whole]
        /\ e.autoinc = db.autoinc
    <3> DEFINE end == PageEnd(me)
    <3>1. /\ Sound(db, history, Trusted) /\ me.cursor \in Nat /\ end \in Nat
          /\ end <= db.autoinc \/ end = me.cursor
          /\ me.whole \in BOOLEAN
      BY <1>1, <1>4, <1>5, <1>6
    <3>2. e = RecordReceipt(db, me.cursor, end, me.whole)
      OBVIOUS
    <3> HIDE DEF end, e
    <3>3. Booked(db, history, Trusted, me.cursor, end, me.whole, e)
      BY <3>1, <3>2, SoundRecord
    <3> QED BY <3>3 DEF Booked, end
  <2>2. l \in Nat
    BY <1>1 DEF Tables
  <2>3. i = l + 1
    BY DEF i
  <2> HIDE DEF l, e
  <2> QED BY <2>1, <2>2, <2>3
<1> HIDE DEF e
<1>8. i \notin DOMAIN db.receipts
  BY <1>7
<1>9. Extends(db, history, Trusted, e, history, Trusted, {})
  BY <1>4, <1>7 DEF Extends
<1>10. CallOK(new, e, history, Trusted) /\ (InFlight(new) => new.id = i)
  <2>1. CASE me.page # {}
    <3>1. /\ new \in Pages /\ new.pc = "sink" /\ new.id = i /\ new.page = me.page
          /\ new.cursor = me.cursor /\ new.whole = me.whole /\ new.kinds = me.kinds
      BY <1>1, <1>7, <2>1 DEF Pages, new
    <3>2. PageEnd(new) = PageEnd(me) /\ Shown(new) = Shown(me)
      BY <3>1 DEF PageEnd, Shown
    <3>3. PageOK(new, e, history)
      BY <1>1, <1>7, <3>1 DEF CallOK, PageOK
    <3>4. Receipted(new, e) /\ ~e.receipts[new.id].landed
      BY <1>7, <3>1, <3>2 DEF Receipted
    <3>5. new.whole => Holds(Trusted \cup Shown(new), history, new.cursor, PageEnd(new))
      BY <1>1, <3>1, <3>2 DEF CallOK
    <3> QED BY <1>1, <3>1, <3>3, <3>4, <3>5 DEF CallOK
  <2>2. CASE me.page = {} /\ me.plan = NoPlan
    <3>1. new = Idle
      BY <2>2 DEF new
    <3> QED BY <3>1, IdleIsEarly, EarlyIsOK DEF Early, InFlight
  <2>3. CASE me.page = {} /\ me.plan # NoPlan
    <3>1. /\ new \in Pages /\ new.pc = "apply" /\ new.plan = me.plan /\ new.page = {}
          /\ new.whole = me.whole /\ new.kinds = me.kinds
      BY <1>1, <2>3 DEF Pages, new
    <3>2. Early(new)
      BY <1>1, <2>3, <3>1 DEF Early, CallOK
    <3> QED BY <3>2, EarlyIsOK DEF Early, InFlight
  <2> QED BY <2>1, <2>2, <2>3
<1>11. CallsOK'
  <2> DEFINE ids == {}
  <2>1. /\ Extends(db, history, Trusted, db', history', Trusted', ids)
        /\ \A b \in Archivers : b # a /\ archiver[b].pc = "sink" => archiver[b].id \notin ids
        /\ CallOK(new, db', history', Trusted')
    BY <1>2, <1>3, <1>9, <1>10
  <2> HIDE DEF ids
  <2> QED BY <2>1, <1>2, <1>8, <1>10, OneCallMoves
<1>12. Sound(db, history, Trusted)' /\ DiskOK' /\ SinksOK'
  BY <1>2, <1>3, <1>7 DEF IInv, DiskOK, SinksOK
<1> QED BY <1>2, <1>11, <1>12 DEF IInv

\* One sink answers for what it did and for S, and counts nothing as lost that a
\* syncing one would not.
LEMMA SinkTakes ==
  ASSUME IInv, NEW a \in Archivers, NEW s, SinkOK(s), NEW S,
         sinks' = [sinks EXCEPT ![a] = s], s.lost = sinks[a].lost,
         Trust(a, sinks[a]) \cup S \subseteq Trust(a, s),
         UNCHANGED <<db, history, disk>>, late' \subseteq late
  PROVE  /\ Trusted \cup S \subseteq Trusted'
         /\ Sound(db, history, Trusted)' /\ DiskOK' /\ SinksOK'
         /\ Extends(db, history, Trusted, db', history', Trusted', {})
<1>1. SinksOK /\ db \in Tables
  BY DEF IInv, Sound, Numbered
<1>2. Trusted \cup S \subseteq Trusted'
  BY <1>1, TrustGrows
<1>3. \A row \in history : row.pos \in Trusted => row.pos \in Trusted'
  BY <1>2
<1>4. Sound(db, history, Trusted')
  BY <1>3, SoundKept DEF IInv
<1>5. Sound(disk.db, disk.history, Trusted')
  BY <1>2, SoundKept DEF IInv, DiskOK
<1>6. SinksOK'
  <2>1. \A b \in Archivers : sinks'[b] = IF b = a THEN s ELSE sinks[b]
    BY <1>1 DEF SinksOK
  <2>2. \A b \in Archivers : SinkOK(sinks'[b]) /\ sinks'[b].lost = sinks[b].lost
    BY <1>1, <2>1 DEF SinksOK
  <2>3. sinks' \in [Archivers -> Sink]
    BY <1>1 DEF SinksOK, SinkOK
  <2> QED BY <1>1, <2>2, <2>3, ArchiveAssumption DEF SinksOK
<1>7. Extends(db, history, Trusted, db, history, Trusted', {})
  BY <1>1, <1>3, SameExtends
<1> QED BY <1>2, <1>4, <1>5, <1>6, <1>7 DEF IInv, DiskOK

\* A sink that took a page answers for what it did, whether it synced or not; one
\* that does not sync, or synced after it, answers for the page as well.
LEMMA TakingTrusts ==
  ASSUME NEW a, NEW s, NEW t, s.lost = t.lost, s.synced \subseteq t.synced, NEW S,
         {h.pos : h \in t.holds} = {h.pos : h \in s.holds} \cup S
  PROVE  /\ Trust(a, s) \subseteq Trust(a, t)
         /\ a \notin SyncSinks => S \subseteq Trust(a, t)
         /\ t.synced = t.holds => S \subseteq Trust(a, t)
BY DEF Trust

\* The sink takes the page.
LEMMA WriteSinkOK == ASSUME IInv, NEW a \in Archivers, WriteSink(a) PROVE IInv'
<1> DEFINE me == archiver[a]
           s == IF a \in LogSinks THEN Receives(Reports(sinks[a], me.page), me.page)
                ELSE IF a \in SyncSinks THEN Synced(Receives(sinks[a], me.page))
                ELSE Receives(sinks[a], me.page)
           new == [me EXCEPT !.pc = "confirm"]
<1>1. /\ CallOK(me, db, history, Trusted) /\ me \in Pages /\ me.pc = "sink" /\ SinkOK(sinks[a])
      /\ me.page \in SUBSET Row /\ IsFiniteSet(me.page)
  BY DEF IInv, CallsOK, CallOK, SinksOK, WriteSink, At, Pages, PageOK
<1>2. sinks' = [sinks EXCEPT ![a] = s] /\ archiver' = [archiver EXCEPT ![a] = new]
      /\ UNCHANGED <<db, history, late, disk, left>>
  BY DEF WriteSink, Goes, logVars
<1>3. /\ SinkOK(s) /\ s.lost = sinks[a].lost
      /\ Trust(a, sinks[a]) \cup Shown(me) \subseteq Trust(a, s)
  <2> DEFINE t == IF a \in LogSinks THEN Reports(sinks[a], me.page) ELSE sinks[a]
             u == Receives(t, me.page)
  <2>1. /\ SinkOK(t) /\ t.holds = sinks[a].holds /\ t.synced = sinks[a].synced
        /\ t.lost = sinks[a].lost
    BY <1>1, ReportsIsOK
  <2>2. s = IF a \in SyncSinks THEN Synced(u) ELSE u
    <3>1. a \in SyncSinks => a \notin LogSinks
      BY ArchiveAssumption
    <3>2. CASE a \in LogSinks
      BY <3>1, <3>2, Zenon
    <3>3. CASE a \notin LogSinks
      BY <3>3, Zenon
    <3> QED BY <3>2, <3>3
  <2> HIDE DEF t, s
  <2>3. /\ SinkOK(u) /\ {h.pos : h \in u.holds} = {h.pos : h \in t.holds} \cup Shown(me)
        /\ u.synced = t.synced /\ u.lost = t.lost
    <3>1. /\ SinkOK(Receives(t, me.page))
          /\ {h.pos : h \in Receives(t, me.page).holds} =
               {h.pos : h \in t.holds} \cup {r.pos : r \in me.page}
          /\ Receives(t, me.page).synced = t.synced /\ Receives(t, me.page).lost = t.lost
      BY <1>1, <2>1, ReceivesIsOK
    <3> QED BY <3>1 DEF Shown
  <2> HIDE DEF u
  <2>4. /\ SinkOK(s) /\ s.holds = u.holds /\ s.lost = u.lost
        /\ u.synced \subseteq s.synced
        /\ a \in SyncSinks => s.synced = s.holds
    BY <2>2, <2>3, SyncedIsOK DEF SinkOK
  <2>5. /\ s.lost = sinks[a].lost /\ sinks[a].synced \subseteq s.synced
        /\ {h.pos : h \in s.holds} = {h.pos : h \in sinks[a].holds} \cup Shown(me)
    BY <2>1, <2>3, <2>4
  <2> QED BY <2>4, <2>5, TakingTrusts
<1> HIDE DEF s
<1>4. /\ Trusted \cup Shown(me) \subseteq Trusted'
      /\ Sound(db, history, Trusted)' /\ DiskOK' /\ SinksOK'
      /\ Extends(db, history, Trusted, db', history', Trusted', {})
  BY <1>2, <1>3, SinkTakes
<1>5. /\ new \in Pages /\ new.pc = "confirm" /\ new.id = me.id /\ new.page = me.page
      /\ new.cursor = me.cursor /\ new.whole = me.whole /\ new.kinds = me.kinds
  BY <1>1 DEF Pages
<1> HIDE DEF new
<1>6. PageEnd(new) = PageEnd(me)
  BY <1>5 DEF PageEnd
<1>7. CallOK(new, db', history', Trusted')
  <2>1. new.whole => Holds(Trusted', history', new.cursor, PageEnd(new))
    BY <1>1, <1>2, <1>4, <1>5, <1>6 DEF CallOK, Holds
  <2>2. Receipted(new, db') /\ PageOK(new, db', history')
    BY <1>1, <1>2, <1>5, <1>6 DEF CallOK, Receipted, PageOK
  <2> QED BY <1>1, <1>5, <2>1, <2>2 DEF CallOK
<1>8. CallsOK'
  <2> DEFINE ids == {}
  <2>1. /\ Extends(db, history, Trusted, db', history', Trusted', ids)
        /\ \A b \in Archivers : b # a /\ archiver[b].pc = "sink" => archiver[b].id \notin ids
    BY <1>4
  <2>2. InFlight(me) /\ new.id = me.id
    BY <1>1, <1>5 DEF InFlight
  <2> HIDE DEF ids
  <2> QED BY <2>1, <2>2, <1>2, <1>7, OneCallMoves
<1> QED BY <1>2, <1>4, <1>8 DEF IInv

\* The sink takes the first lines of the page and the call ends.
LEMMA SinkFailsOK == ASSUME IInv, NEW a \in Archivers, SinkFails(a) PROVE IInv'
<1> DEFINE me == archiver[a]
<1>1. /\ CallOK(me, db, history, Trusted) /\ me \in Pages /\ SinkOK(sinks[a])
      /\ me.page \in SUBSET Row /\ IsFiniteSet(me.page)
  BY DEF IInv, CallsOK, CallOK, SinksOK, Pages, PageOK
<1>2. PICK n \in 0..Cardinality(me.page) :
        sinks' = [sinks EXCEPT ![a] = Receives(sinks[a], Lowest(me.page, n))]
  BY DEF SinkFails
<1> DEFINE page == Lowest(me.page, n)
           s == Receives(sinks[a], page)
           S == {r.pos : r \in page}
<1>3. page \in SUBSET me.page
  BY DEF Lowest
<1> HIDE DEF page
<1>4. page \in SUBSET Row /\ IsFiniteSet(page)
  BY <1>1, <1>3, FS_Subset
<1>5. SinkOK(s) /\ s.lost = sinks[a].lost /\ Trust(a, sinks[a]) \cup {} \subseteq Trust(a, s)
  <2>1. /\ SinkOK(s) /\ {h.pos : h \in s.holds} = {h.pos : h \in sinks[a].holds} \cup S
        /\ s.synced = sinks[a].synced /\ s.lost = sinks[a].lost
    BY <1>1, <1>4, ReceivesIsOK
  <2> HIDE DEF s, S
  <2> QED BY <2>1, TakingTrusts
<1>6. /\ sinks' = [sinks EXCEPT ![a] = s] /\ archiver' = [archiver EXCEPT ![a] = Idle]
      /\ UNCHANGED <<db, history, late, disk, left>>
  BY <1>2 DEF SinkFails, Goes, logVars, page
<1> HIDE DEF s, S
<1>7. /\ Sound(db, history, Trusted)' /\ DiskOK' /\ SinksOK'
      /\ Extends(db, history, Trusted, db', history', Trusted', {})
  BY <1>5, <1>6, SinkTakes
<1>8. CallOK(Idle, db', history', Trusted') /\ ~InFlight(Idle)
  BY IdleIsEarly, EarlyIsOK DEF Early, InFlight
<1>9. CallsOK'
  <2> DEFINE ids == {}
  <2>1. /\ Extends(db, history, Trusted, db', history', Trusted', ids)
        /\ \A b \in Archivers : b # a /\ archiver[b].pc = "sink" => archiver[b].id \notin ids
    BY <1>7
  <2> HIDE DEF ids
  <2> QED BY <2>1, <1>6, <1>8, OneCallMoves
<1> QED BY <1>6, <1>7, <1>9 DEF IInv

\* A page whose caller is gone lands.
LEMMA LandsOK == ASSUME IInv, NEW l \in late, Lands(l) PROVE IInv'
<1> DEFINE s == Receives(sinks[l.to], l.page)
           S == {r.pos : r \in l.page}
<1>1. /\ l.to \in Archivers /\ SinkOK(sinks[l.to])
      /\ l.page \in SUBSET Row /\ IsFiniteSet(l.page)
  BY ArchiveAssumption DEF IInv, SinksOK, LateOK
<1>2. /\ SinkOK(s) /\ s.lost = sinks[l.to].lost
      /\ Trust(l.to, sinks[l.to]) \cup {} \subseteq Trust(l.to, s)
  <2>1. /\ SinkOK(s) /\ {h.pos : h \in s.holds} = {h.pos : h \in sinks[l.to].holds} \cup S
        /\ s.synced = sinks[l.to].synced /\ s.lost = sinks[l.to].lost
    BY <1>1, ReceivesIsOK
  <2> HIDE DEF s, S
  <2> QED BY <2>1, TakingTrusts
<1>3. /\ sinks' = [sinks EXCEPT ![l.to] = s] /\ late' \subseteq late
      /\ UNCHANGED <<db, history, archiver, disk, left>>
  BY DEF Lands, logVars
<1> HIDE DEF s, S
<1>4. /\ Sound(db, history, Trusted)' /\ DiskOK' /\ SinksOK'
      /\ Extends(db, history, Trusted, db', history', Trusted', {})
  BY <1>1, <1>2, <1>3, SinkTakes
<1>5. CallsOK'
  BY <1>3, <1>4, NoCallMoves
<1> QED BY <1>3, <1>4, <1>5 DEF IInv

\* The receipt is confirmed with the page in the sink.
LEMMA ConfirmOK == ASSUME IInv, NEW a \in Archivers, Confirm(a) PROVE IInv'
<1> DEFINE me == archiver[a]
           e == ConfirmReceipt(db, me.id)
           new == IF me.plan = NoPlan THEN Idle ELSE Turn(me, PageEnd(me))
<1>1. /\ CallOK(me, db, history, Trusted) /\ me \in Pages /\ me.pc = "confirm"
      /\ db \in Tables /\ Sound(db, history, Trusted)
  BY DEF IInv, CallsOK, CallOK, Sound, Numbered, Confirm, At
<1>2. Receipted(me, db) /\ me.id \in DOMAIN db.receipts
  BY <1>1 DEF CallOK, Receipted
<1>3. /\ db' = e /\ archiver' = [archiver EXCEPT ![a] = new]
      /\ UNCHANGED <<history, sinks, late, disk, left>>
  BY <1>2 DEF Confirm, Goes, sinkVars, HasReceipt
<1>4. Trusted' = Trusted
  BY <1>3 DEF Trusted, Trust
<1>5. db.receipts[me.id].whole =>
        Holds(Trusted, history, db.receipts[me.id].from, db.receipts[me.id].thr)
  BY <1>1, <1>2 DEF CallOK, Receipted
<1>6. /\ Sound(e, history, Trusted)
      /\ DOMAIN e.receipts = DOMAIN db.receipts
      /\ \A i \in DOMAIN db.receipts :
           /\ e.receipts[i].from = db.receipts[i].from
           /\ e.receipts[i].thr = db.receipts[i].thr
           /\ e.receipts[i].whole = db.receipts[i].whole
           /\ i # me.id => e.receipts[i] = db.receipts[i]
      /\ e.autoinc = db.autoinc
  BY <1>1, <1>2, <1>5, SoundConfirm
<1> HIDE DEF e
<1>7. db.autoinc \in Nat /\ PageEnd(me) \in Nat
  BY <1>1, PageEnds DEF Tables, CallOK, PageOK, Pages
<1>8. Extends(db, history, Trusted, e, history, Trusted, {me.id})
  BY <1>6, <1>7 DEF Extends
<1>9. Early(new)
  <2>1. CASE me.plan = NoPlan
    BY <2>1, IdleIsEarly
  <2>2. CASE me.plan # NoPlan
    BY <1>1, <1>7, <2>2 DEF Early, Turn, Pages, CallOK
  <2> QED BY <2>1, <2>2
<1> HIDE DEF new
<1>10. CallOK(new, e, history, Trusted) /\ ~InFlight(new)
  BY <1>9, EarlyIsOK DEF Early, InFlight
<1>11. \A b \in Archivers : b # a /\ archiver[b].pc = "sink" => archiver[b].id \notin {me.id}
  BY <1>1 DEF IInv, CallsOK, Distinct, InFlight
<1>12. CallsOK'
  <2> DEFINE ids == {me.id}
  <2>1. /\ Extends(db, history, Trusted, db', history', Trusted', ids)
        /\ \A b \in Archivers : b # a /\ archiver[b].pc = "sink" => archiver[b].id \notin ids
        /\ CallOK(new, db', history', Trusted')
    BY <1>3, <1>4, <1>8, <1>10, <1>11
  <2> HIDE DEF ids
  <2> QED BY <2>1, <1>3, <1>10, OneCallMoves
<1>13. Sound(db, history, Trusted)' /\ DiskOK' /\ SinksOK'
  BY <1>3, <1>4, <1>6 DEF IInv, DiskOK, SinksOK
<1> QED BY <1>3, <1>12, <1>13 DEF IInv

\* What a removal under Guard::Exported leaves, for the calls on their way.
LEMMA RemovalExtends ==
  ASSUME IInv, NEW plan, RetainAnswer(db, plan, "Exported") = "removed",
         db' = RemoveMatching(db, plan), UNCHANGED <<history, sinks>>
  PROVE  /\ Sound(db, history, Trusted)' /\ Trusted' = Trusted
         /\ Extends(db, history, Trusted, db', history', Trusted', {})
<1>1. db \in Tables /\ Numbered(db, history) /\ Sound(db, history, Trusted)
  BY DEF IInv, Sound, Numbered
<1>2. PICK n \in Nat : Capped(db, n)
  BY <1>1 DEF Sound, Reaching
<1>3. HighestMatching(db, plan) \in Nat /\ ExportedThrough(db) \in Nat
  BY <1>1, <1>2, HighestBounds, ThroughIsLeast
<1>4. ~(HighestMatching(db, plan) > ExportedThrough(db))
  BY DEF RetainAnswer, Uncovered
<1>5. HighestMatching(db, plan) <= ExportedThrough(db)
  BY <1>3, <1>4
<1>6. Trusted' = Trusted
  BY DEF Trusted, Trust
<1>7. /\ Sound(db', history, Trusted) /\ db'.receipts = db.receipts /\ db'.autoinc = db.autoinc
  BY <1>1, <1>5, SoundRemove
<1>8. Extends(db, history, Trusted, db', history, Trusted, {})
  BY <1>1, <1>7 DEF Extends, Tables
<1> QED BY <1>6, <1>7, <1>8

\* The removal, under its guard.
LEMMA ApplyOK == ASSUME IInv, NEW a \in Archivers, Apply(a) PROVE IInv'
<1> DEFINE plan == archiver[a].plan
<1>1. /\ db' = IF RetainAnswer(db, plan, "Exported") = "removed" THEN RemoveMatching(db, plan)
               ELSE db
      /\ archiver' = [archiver EXCEPT ![a] = Idle]
      /\ UNCHANGED <<history, sinks, late, disk, left>>
  BY DEF Apply, Goes, sinkVars
<1>2. CallOK(Idle, db', history', Trusted') /\ ~InFlight(Idle)
  BY IdleIsEarly, EarlyIsOK DEF Early, InFlight
<1>3. Trusted' = Trusted
  BY <1>1 DEF Trusted, Trust
<1>4. /\ Sound(db, history, Trusted)'
      /\ Extends(db, history, Trusted, db', history', Trusted', {})
  <2>1. CASE RetainAnswer(db, plan, "Exported") = "removed"
    BY <1>1, <2>1, RemovalExtends
  <2>2. CASE RetainAnswer(db, plan, "Exported") # "removed"
    <3>1. db' = db /\ db \in Tables
      BY <1>1, <2>2 DEF IInv, Sound, Numbered
    <3>2. Extends(db, history, Trusted, db, history, Trusted, {})
      BY <3>1, SameExtends
    <3> QED BY <1>1, <1>3, <3>1, <3>2 DEF IInv
  <2> QED BY <2>1, <2>2
<1>5. CallsOK'
  <2> DEFINE ids == {}
  <2>1. /\ Extends(db, history, Trusted, db', history', Trusted', ids)
        /\ \A b \in Archivers : b # a /\ archiver[b].pc = "sink" => archiver[b].id \notin ids
    BY <1>4
  <2> HIDE DEF ids
  <2> QED BY <2>1, <1>1, <1>2, OneCallMoves
<1>6. DiskOK' /\ SinksOK'
  BY <1>1, <1>3 DEF IInv, DiskOK, SinksOK
<1> QED BY <1>1, <1>4, <1>5, <1>6 DEF IInv

\* Other writers append, and remove under the same guard.
LEMMA OthersOK == ASSUME IInv, Others PROVE IInv'
<1>1. UNCHANGED <<archiver, sinks, late, disk, left>> /\ Trusted' = Trusted
  BY DEF Others, sinkVars, Trusted, Trust
<1>2. /\ Sound(db, history, Trusted)'
      /\ Extends(db, history, Trusted, db', history', Trusted', {})
  <2>1. ASSUME NEW x \in Appends, Write(x)
        PROVE  /\ Sound(db, history, Trusted)'
               /\ Extends(db, history, Trusted, db', history', Trusted', {})
    <3>1. x.stream \in Streams /\ IsRun(x.run)
      BY WritersAssumption, EventsAreRun DEF AppendCall, Run
    <3>2. /\ db' = AppendRun(db, x.stream, x.run)
          /\ history' = history \cup RunRows(db, x.stream, x.run)
      BY <2>1 DEF Write
    <3> DEFINE rows == RunRows(db, x.stream, x.run)
    <3>3. /\ Sound(db', history', Trusted) /\ db'.receipts = db.receipts
          /\ db'.autoinc >= db.autoinc
          /\ \A row \in rows : row.pos > db.autoinc
      BY <3>1, <3>2, SoundAppend DEF IInv
    <3>4. db'.autoinc \in Nat /\ history' \subseteq Row
      BY <3>3 DEF Sound, Numbered, Tables
    <3>5. \A row \in history' \ history : row.pos \in Nat /\ row.pos > db.autoinc
      BY <3>2, <3>3, <3>4 DEF Row
    <3>6. Extends(db, history, Trusted, db', history', Trusted, {})
      BY <3>2, <3>3, <3>4, <3>5 DEF Extends
    <3> QED BY <1>1, <3>3, <3>6
  <2>2. ASSUME NEW r \in Removals, Trim(r)
        PROVE  /\ Sound(db, history, Trusted)'
               /\ Extends(db, history, Trusted, db', history', Trusted', {})
    <3>1. r.guard = "Exported"
      BY ArchiveAssumption
    <3> QED BY <1>1, <2>2, <3>1, RemovalExtends DEF Trim
  <2> QED BY <2>1, <2>2 DEF Others
<1>3. CallsOK'
  BY <1>1, <1>2, NoCallMoves
<1>4. DiskOK' /\ SinksOK'
  BY <1>1 DEF IInv, DiskOK, SinksOK
<1> QED BY <1>1, <1>2, <1>3, <1>4 DEF IInv

\* A call is dropped or dies.
LEMMA LeavesOK == ASSUME IInv, NEW a \in Archivers, Stops(a) \/ Dies(a) PROVE IInv'
<1> DEFINE me == archiver[a]
           mine == [to |-> a, id |-> me.id, page |-> me.page]
<1>1. /\ archiver' = [archiver EXCEPT ![a] = Idle]
      /\ UNCHANGED <<db, history, disk, left>>
  BY DEF Stops, Dies, Goes, logVars
<1>2. /\ SinksOK /\ db \in Tables /\ me \in Pages /\ IsFiniteSet(me.page)
  BY DEF IInv, Sound, Numbered, CallsOK, CallOK, PageOK
<1>3. /\ sinks' \in [Archivers -> Sink]
      /\ \A b \in Archivers :
           /\ sinks'[b].holds = sinks[b].holds /\ sinks'[b].synced = sinks[b].synced
           /\ sinks'[b].lost = sinks[b].lost /\ SinkOK(sinks'[b])
  <2>1. CASE Stops(a)
    BY <1>2, <2>1 DEF Stops, SinksOK
  <2>2. CASE Dies(a)
    <3> DEFINE s == NewSink(sinks[a].holds, sinks[a].synced, sinks[a].lost)
    <3>1. /\ SinkOK(s) /\ s.holds = sinks[a].holds /\ s.synced = sinks[a].synced
          /\ s.lost = sinks[a].lost
      BY <1>2 DEF SinksOK, SinkOK, Sink, NewSink
    <3>2. sinks' = [sinks EXCEPT ![a] = s]
      BY <2>2 DEF Dies
    <3> HIDE DEF s
    <3> QED BY <1>2, <3>1, <3>2 DEF SinksOK, SinkOK
  <2> QED BY <2>1, <2>2
<1>4. Trusted' = Trusted
  BY <1>3, TrustStays
<1>5. \A l \in late' : LateOK(l)
  <2>1. CASE Stops(a) /\ a \in LogSinks
    <3>1. late' \subseteq late \cup {mine}
      BY <2>1 DEF Stops
    <3>2. LateOK(mine)
      BY <1>2, <2>1 DEF LateOK, Pages
    <3> QED BY <1>2, <3>1, <3>2 DEF SinksOK
  <2>2. CASE Dies(a) \/ a \notin LogSinks
    <3>1. late' \subseteq late
      BY <2>2 DEF Stops, Dies
    <3> QED BY <1>2, <3>1 DEF SinksOK
  <2> QED BY <2>1, <2>2
<1>6. SinksOK'
  BY <1>2, <1>3, <1>5, ArchiveAssumption DEF SinksOK
<1>7. Extends(db, history, Trusted, db', history', Trusted', {})
  <2>1. Extends(db, history, Trusted, db, history, Trusted, {})
    BY <1>2, SameExtends
  <2> QED BY <1>1, <1>4, <2>1
<1>8. CallOK(Idle, db', history', Trusted') /\ ~InFlight(Idle)
  BY IdleIsEarly, EarlyIsOK DEF Early, InFlight
<1>9. CallsOK'
  <2> DEFINE ids == {}
  <2>1. /\ Extends(db, history, Trusted, db', history', Trusted', ids)
        /\ \A b \in Archivers : b # a /\ archiver[b].pc = "sink" => archiver[b].id \notin ids
    BY <1>7
  <2> HIDE DEF ids
  <2> QED BY <2>1, <1>1, <1>8, OneCallMoves
<1>10. Sound(db, history, Trusted)' /\ DiskOK'
  BY <1>1, <1>4 DEF IInv, DiskOK
<1> QED BY <1>1, <1>6, <1>9, <1>10 DEF IInv

\* The disk catches up.
LEMMA SyncOK == ASSUME IInv, Sync PROVE IInv'
<1>1. /\ disk' = [db |-> db, history |-> history]
      /\ UNCHANGED <<db, history, archiver, sinks, late, left>>
  BY DEF Sync, logVars, sinkVars
<1>2. disk'.db = db /\ disk'.history = history
  BY <1>1
<1>3. Trusted' = Trusted
  BY <1>1 DEF Trusted, Trust
<1>4. Sound(db, history, Trusted)' /\ DiskOK'
  BY <1>1, <1>2, <1>3 DEF IInv, DiskOK
<1>5. CallsOK' /\ SinksOK'
  BY <1>1, <1>3 DEF IInv, CallsOK, SinksOK
<1> QED BY <1>1, <1>4, <1>5 DEF IInv

\* The disk of one sink catches up.
LEMMA SinkSyncsOK == ASSUME IInv, NEW a \in Archivers, SinkSyncs(a) PROVE IInv'
<1> DEFINE s == Synced(sinks[a])
<1>1. SinkOK(sinks[a])
  BY DEF IInv, SinksOK
<1>2. /\ SinkOK(s) /\ s.holds = sinks[a].holds /\ s.synced = sinks[a].holds
      /\ s.lost = sinks[a].lost
  BY <1>1, SyncedIsOK
<1>3. /\ sinks' = [sinks EXCEPT ![a] = s] /\ late' \subseteq late
      /\ UNCHANGED <<db, history, archiver, disk, left>>
  BY DEF SinkSyncs, logVars
<1> HIDE DEF s
<1>4. Trust(a, sinks[a]) \cup {} \subseteq Trust(a, s)
  BY <1>1, <1>2 DEF Trust, SinkOK
<1>5. /\ Sound(db, history, Trusted)' /\ DiskOK' /\ SinksOK'
      /\ Extends(db, history, Trusted, db', history', Trusted', {})
  BY <1>2, <1>3, <1>4, SinkTakes
<1>6. CallsOK'
  BY <1>3, <1>5, NoCallMoves
<1> QED BY <1>3, <1>5, <1>6 DEF IInv

\* Of what was on a sink's disk the positions this history has are there after.
LEMMA KnownHolds ==
  ASSUME NEW H \in SUBSET Held, IsFiniteSet(H)
  PROVE  /\ Known(H) \subseteq Held /\ IsFiniteSet(Known(H))
         /\ \A h \in H : h.pos \in Positions(disk.history) => \E g \in Known(H) : g.pos = h.pos
<1> DEFINE was(p) == IF p \in Positions(disk.history) THEN p ELSE 0
           now(h) == [h EXCEPT !.pos = was(h.pos)]
<1>1. Known(H) = {now(h) : h \in H}
  BY DEF Known
<1>2. \A h \in H : now(h) \in Held /\ now(h).pos = was(h.pos)
  BY DEF Held
<1> HIDE DEF now
<1> DEFINE f == [h \in H |-> now(h)]
<1>3. f \in Surjection(H, Known(H))
  BY <1>1 DEF Surjection
<1> HIDE DEF f
<1>4. IsFiniteSet(Known(H))
  BY <1>3, FS_Surjection
<1>5. \A h \in H : h.pos \in Positions(disk.history) => \E g \in Known(H) : g.pos = h.pos
  BY <1>1, <1>2
<1> QED BY <1>1, <1>2, <1>4, <1>5

\* What a sink answers for once the machine came back.
LEMMA LossOK == ASSUME IInv, PowerLoss PROVE IInv'
<1> DEFINE kept(a) == Known(sinks[a].synced)
           s(a) == NewSink(kept(a), kept(a), Loses(a))
<1>1. /\ db' = disk.db /\ history' = disk.history /\ late' = {} /\ disk' = disk
      /\ archiver' = [a \in Archivers |-> Idle]
      /\ left' = [left EXCEPT !.losses = @ - 1] /\ left.losses > 0
  BY DEF PowerLoss, Survives
<1>2. sinks' = [a \in Archivers |-> s(a)]
  BY DEF PowerLoss
<1>3. ASSUME NEW a \in Archivers
      PROVE  /\ SinkOK(s(a)) /\ (a \in SyncSinks => s(a).lost = {})
             /\ \A p \in Trust(a, sinks[a]) : p \in Positions(disk.history) => p \in Trust(a, s(a))
  <2>1. /\ sinks[a].holds \subseteq Held /\ IsFiniteSet(sinks[a].holds)
        /\ sinks[a].synced \subseteq sinks[a].holds /\ sinks[a].lost \subseteq Nat
    BY DEF IInv, SinksOK, SinkOK, Sink
  <2>2. IsFiniteSet(sinks[a].synced) /\ sinks[a].synced \in SUBSET Held
    BY <2>1, FS_Subset
  <2>3. /\ kept(a) \subseteq Held /\ IsFiniteSet(kept(a))
        /\ \A h \in sinks[a].synced : h.pos \in Positions(disk.history) =>
             \E g \in kept(a) : g.pos = h.pos
    BY <2>2, KnownHolds
  <2> HIDE DEF kept
  <2>4. Loses(a) \subseteq Nat
    BY <2>1 DEF Loses, Held
  <2>5. /\ s(a) \in Sink /\ s(a).holds = kept(a) /\ s(a).synced = kept(a)
        /\ s(a).lost = Loses(a)
    BY <2>3, <2>4 DEF NewSink, Sink
  <2> HIDE DEF s
  <2>6. SinkOK(s(a)) /\ (a \in SyncSinks => s(a).lost = {})
    BY <2>3, <2>5 DEF SinkOK, Loses
  <2>7. ASSUME NEW p \in Trust(a, sinks[a]), p \in Positions(disk.history)
        PROVE  p \in Trust(a, s(a))
    <3>1. CASE \E h \in sinks[a].synced : h.pos = p
      <4>1. \E g \in kept(a) : g.pos = p
        BY <2>3, <2>7, <3>1
      <4> QED BY <4>1, <2>5 DEF Trust
    <3>2. CASE ~\E h \in sinks[a].synced : h.pos = p
      <4>1. a \notin SyncSinks /\ p \in Loses(a)
        BY <2>7, <3>2 DEF Trust, Loses
      <4> QED BY <4>1, <2>5 DEF Trust
    <3> QED BY <3>1, <3>2
  <2> QED BY <2>6, <2>7
<1> HIDE DEF s
<1>4. SinksOK'
  <2>1. \A a \in Archivers : SinkOK(sinks'[a]) /\ (a \in SyncSinks => sinks'[a].lost = {})
    BY <1>2, <1>3
  <2>2. sinks' \in [Archivers -> Sink]
    BY <1>2, <2>1 DEF SinkOK
  <2> QED BY <1>1, <2>1, <2>2, ArchiveAssumption DEF SinksOK
<1>5. \A row \in disk.history : row.pos \in Trusted => row.pos \in Trusted'
  <2> SUFFICES ASSUME NEW row \in disk.history, row.pos \in Trusted PROVE row.pos \in Trusted'
    OBVIOUS
  <2>1. PICK a \in Archivers : row.pos \in Trust(a, sinks[a])
    BY DEF Trusted
  <2>2. row.pos \in Positions(disk.history)
    BY DEF Positions
  <2>3. row.pos \in Trust(a, s(a))
    BY <1>3, <2>1, <2>2
  <2>4. Trusted' = UNION {Trust(b, sinks'[b]) : b \in Archivers}
    BY DEF Trusted, Trust
  <2> QED BY <1>2, <2>3, <2>4
<1>6. Sound(disk.db, disk.history, Trusted')
  BY <1>5, SoundKept DEF IInv, DiskOK
<1>7. Sound(db, history, Trusted)' /\ DiskOK'
  BY <1>1, <1>6 DEF IInv, DiskOK
<1>8. CallsOK'
  <2>1. Idle \in Pages /\ ~InFlight(Idle)
    BY IdleIsEarly DEF Early, InFlight
  <2>2. CallOK(Idle, db', history', Trusted')
    BY IdleIsEarly, EarlyIsOK
  <2> QED BY <1>1, <2>1, <2>2 DEF CallsOK, Distinct
<1>9. left' \in [tasks : SUBSET Archivers, calls : Nat, losses : Nat]
  <2>1. left.losses - 1 \in Nat /\ left' = [left EXCEPT !.losses = left.losses - 1]
    BY <1>1 DEF IInv
  <2> QED BY <2>1 DEF IInv
<1> QED BY <1>4, <1>7, <1>8, <1>9 DEF IInv

\* Every step keeps the invariant.
LEMMA NextOK == ASSUME IInv, [Next]_vars PROVE IInv'
<1>1. ASSUME NEW a \in Archivers, Step(a) PROVE IInv'
  BY <1>1, ReadersOK, RecordOK, WriteSinkOK, ConfirmOK, ApplyOK DEF Step
<1>2. ASSUME NEW a \in Archivers,
             \/ SinkFails(a) \/ Stops(a) \/ Dies(a) \/ SinkSyncs(a)
             \/ \E plan \in Plans : Archive(a, plan)
             \/ \E x \in Exports : ExportByHand(a, x)
      PROVE  IInv'
  BY <1>2, SinkFailsOK, LeavesOK, SinkSyncsOK, ReadersOK
<1>3. CASE UNCHANGED vars
  <2>1. UNCHANGED <<db, history, archiver, sinks, late, disk, left>>
    BY <1>3 DEF vars, logVars
  <2>2. Trusted' = Trusted
    BY <2>1 DEF Trusted, Trust
  <2> QED BY <2>1, <2>2 DEF IInv, DiskOK, CallsOK, SinksOK
<1>4. CASE Next
  BY <1>1, <1>2, <1>4, OthersOK, SyncOK, LossOK, LandsOK DEF Next
<1> QED BY <1>3, <1>4

\* The inductive invariant holds in every state a log with its archivers, its
\* sinks, other writers and power losses can be in.
THEOREM Invariance == Spec => []IInv
<1>1. Init => IInv
  BY InitOK
<1>2. IInv /\ [Next]_vars => IInv'
  BY NextOK
<1> QED BY <1>1, <1>2, PTL DEF Spec

\* Every variable keeps its type, a sink that syncs never counts anything as lost,
\* and a page on its way to a sink has a receipt nobody else confirms.
THEOREM TypeCorrect == Spec => []TypeOK
<1>1. IInv => TypeOK
  <2> SUFFICES ASSUME IInv PROVE TypeOK
    OBVIOUS
  <2>1. LogTypeOK /\ disk \in [db : Tables, history : SUBSET Row]
    <3>1. db \in Tables /\ history \subseteq Row /\ disk.db \in Tables /\ disk.history \subseteq Row
          /\ disk = [db |-> disk.db, history |-> disk.history]
      BY DEF IInv, DiskOK, Sound, Numbered
    <3> QED BY <3>1 DEF LogTypeOK
  <2>2. /\ archiver \in [Archivers -> Pages] /\ sinks \in [Archivers -> Sink]
        /\ late \subseteq [to : LogSinks, id : Nat, page : SUBSET Row]
        /\ left \in [tasks : SUBSET Archivers, calls : Nat, losses : Nat]
        /\ \A a \in SyncSinks : sinks[a].lost = {}
    BY DEF IInv, CallsOK, SinksOK, LateOK
  <2>3. ASSUME NEW a \in Archivers, At(a, "sink")
        PROVE  /\ HasReceipt(db, archiver[a].id)
               /\ db.receipts[archiver[a].id] =
                    [from |-> archiver[a].cursor, thr |-> PageEnd(archiver[a]),
                     landed |-> FALSE, whole |-> archiver[a].whole]
    <3>1. Receipted(archiver[a], db) /\ ~db.receipts[archiver[a].id].landed
      BY <2>3 DEF IInv, CallsOK, CallOK, At
    <3>2. db.receipts \in Seq(Receipt)
      BY DEF IInv, Sound, Numbered, Tables
    <3>3. db.receipts[archiver[a].id] \in Receipt
      BY <3>1, <3>2 DEF Receipted
    <3> QED BY <3>1, <3>3 DEF Receipted, Receipt, HasReceipt
  <2> QED BY <2>1, <2>2, <2>3 DEF TypeOK
<1> QED BY <1>1, Invariance, PTL

\* The chain of confirmed receipts vouches for no position that no sink took: it
\* is held, or a power loss took it from a sink whose writer does not sync.
THEOREM ChainStaysHeld == Spec => []ChainIsHeld
<1>1. IInv => Trusted \subseteq Kept \cup Lost
  BY TrustedIsKept DEF IInv, SinksOK
<1>2. IInv => ChainIsHeld
  BY <1>1, SoundChain DEF IInv, ChainIsHeld
<1> QED BY <1>2, Invariance, PTL

\* No event is gone from the log that no sink took: it is held, or a power loss
\* took it from a sink whose writer does not sync; a sink that syncs still holds
\* every event it answered for.
THEOREM NothingGoneUnarchived == Spec => []GoneIsArchived
<1>1. IInv => Trusted \subseteq Kept \cup Lost
  BY TrustedIsKept DEF IInv, SinksOK
<1>2. IInv => GoneIsArchived
  BY <1>1 DEF IInv, Sound, Gone, GoneIsArchived
<1> QED BY <1>2, Invariance, PTL

\* The walk over the receipts finds the end of their chain, whatever receipts a
\* file can hold.
THEOREM WalkFindsEnd == Spec => []WalkFindsTheEnd
<1>1. ASSUME NEW d \in Tables PROVE Walk(Vouching(d)) = ExportedThrough(d)
  BY VouchersAreEntries, WalkIsEnd, ThroughIsEnd
<1>2. IInv => WalkFindsTheEnd
  BY <1>1 DEF IInv, Sound, Numbered, WalkFindsTheEnd
<1> QED BY <1>2, Invariance, PTL

-----------------------------------------------------------------------------
(* What a sink's reports account for.                                      *)

\* Places are taken from the first one on, one event each.
Packed(H) ==
  /\ \A h \in H : h.at <= Cardinality(H)
  /\ \A h, g \in H : h.at = g.at => h = g

\* Those of a sink are, and those on its disk.
Filled(s) == Packed(s.holds) /\ Packed(s.synced)

\* The events of the reported pages are as many as the sink counted, and are
\* where they were if it says so.
Accounted(s) ==
  \E Q \in SUBSET s.holds : /\ Cardinality(Q) = s.imported
                            /\ s.reproduced => \A h \in Q : h.at = h.pos

OneEach(page) == \A x, y \in page : x.pos = y.pos => x = y

PlacesOK ==
  /\ \A a \in Archivers : Filled(sinks[a]) /\ Accounted(sinks[a])
  /\ \A l \in late : OneEach(l.page)

\* A page lands behind everything that is there, as many events as it has.
LEMMA LandingFits ==
  ASSUME NEW s, SinkOK(s), Filled(s), NEW page \in SUBSET Row, IsFiniteSet(page), OneEach(page)
  PROVE  /\ Cardinality(Landing(s, page)) = Cardinality(page)
         /\ Landing(s, page) \cap s.holds = {}
         /\ Filled(Receives(s, page))
<1> DEFINE n == Cardinality(s.holds)
           upto(row) == {q \in page : q.pos <= row.pos}
           rank(row) == Cardinality(upto(row))
           land(row) == [at |-> n + rank(row), pos |-> row.pos]
           L == Landing(s, page)
<1>1. n \in Nat /\ IsFiniteSet(s.holds) /\ s.holds \subseteq Held
  BY FS_CardinalityType DEF SinkOK, Sink
<1>2. \A row \in page : row.pos \in Nat
  BY DEF Row
<1>3. ASSUME NEW row \in page
      PROVE  /\ IsFiniteSet(upto(row)) /\ rank(row) \in Nat /\ rank(row) <= Cardinality(page)
             /\ rank(row) >= 1
  <2>1. upto(row) \in SUBSET page /\ row \in upto(row)
    BY <1>2
  <2>2. {row} \in SUBSET upto(row) /\ Cardinality({row}) = 1
    BY <2>1, FS_Singleton
  <2> HIDE DEF upto
  <2>3. IsFiniteSet(upto(row))
    BY <2>1, FS_Subset
  <2>4. Cardinality(upto(row)) \in Nat
    BY <2>3, FS_CardinalityType
  <2>5. Cardinality(upto(row)) <= Cardinality(page)
    BY <2>1, FS_Subset
  <2>6. 1 <= Cardinality(upto(row))
    BY <2>2, <2>3, FS_Subset
  <2> QED BY <2>3, <2>4, <2>5, <2>6
<1>4. ASSUME NEW x \in page, NEW y \in page, x.pos < y.pos PROVE rank(x) < rank(y)
  <2>1. upto(x) \in SUBSET upto(y) /\ y \in upto(y) \ upto(x)
    BY <1>2, <1>4
  <2>2. upto(x) \cup {y} \in SUBSET upto(y) /\ y \notin upto(x)
    BY <2>1
  <2>3. IsFiniteSet(upto(x)) /\ IsFiniteSet(upto(y)) /\ rank(x) \in Nat /\ rank(y) \in Nat
    BY <1>3
  <2> HIDE DEF upto
  <2>4. Cardinality(upto(x) \cup {y}) = Cardinality(upto(x)) + 1
    BY <2>2, <2>3, FS_AddElement
  <2>5. Cardinality(upto(x) \cup {y}) <= Cardinality(upto(y))
    BY <2>2, <2>3, FS_Subset
  <2> QED BY <2>3, <2>4, <2>5
<1>5. L = {land(row) : row \in page}
  BY DEF Landing
<1> HIDE DEF rank, upto, n, L
<1>6. \A x, y \in page : rank(x) = rank(y) => x = y
  BY <1>2, <1>3, <1>4 DEF OneEach
<1>7. \A row \in page : land(row).at \in Nat /\ land(row).at > n /\ land(row).at <= n + Cardinality(page)
  <2>1. Cardinality(page) \in Nat
    BY FS_CardinalityType
  <2> QED BY <2>1, <1>1, <1>3
<1>8. \A x, y \in page : land(x).at = land(y).at => x = y
  BY <1>1, <1>3, <1>6
<1>9. Cardinality(L) = Cardinality(page) /\ IsFiniteSet(L)
  <2> DEFINE f == [row \in page |-> land(row)]
  <2>1. /\ f \in [page -> L] /\ \A y \in L : \E x \in page : f[x] = y
        /\ \A x, y \in page : f[x] = f[y] => x = y
    <3> HIDE DEF land
    <3>1. f \in [page -> L] /\ \A y \in L : \E x \in page : f[x] = y
      BY <1>5
    <3>2. \A x, y \in page : f[x] = f[y] => x = y
      BY <1>8
    <3> QED BY <3>1, <3>2
  <2> HIDE DEF f
  <2> QED BY <2>1, SameSize
<1>10. \A h \in s.holds : h.at \in Nat /\ h.at <= n
  BY <1>1 DEF Filled, Packed, Held, n
<1>11. L \cap s.holds = {}
  BY <1>1, <1>5, <1>7, <1>10
<1>12. Receives(s, page).holds = s.holds \cup L /\ Receives(s, page).synced = s.synced
  BY DEF Receives, SinkOK, Sink, L
<1>13. Cardinality(s.holds \cup L) = n + Cardinality(page)
  <2>1. Cardinality(s.holds \cup L) = Cardinality(s.holds) + Cardinality(L)
    BY <1>1, <1>9, <1>11, DisjointUnion
  <2> QED BY <2>1, <1>9 DEF n
<1>14. Filled(Receives(s, page))
  <2> DEFINE H == s.holds \cup L
             N == Cardinality(H)
  <2>1. N = n + Cardinality(page) /\ Cardinality(page) \in Nat
    BY <1>13, FS_CardinalityType
  <2> HIDE DEF N, land
  <2>2. \A h \in L : h.at \in Nat /\ h.at > n /\ h.at <= N
    BY <1>5, <1>7, <2>1
  <2>3. \A h \in H : h.at <= N
    BY <1>1, <1>10, <2>1, <2>2
  <2>4. \A h, g \in L : h.at = g.at => h = g
    BY <1>5, <1>8
  <2>5. \A h, g \in s.holds : h.at = g.at => h = g
    BY DEF Filled, Packed
  <2>6. \A h, g \in H : h.at = g.at => h = g
    BY <1>1, <1>10, <2>2, <2>4, <2>5
  <2>7. Packed(H)
    BY <2>3, <2>6 DEF Packed, N
  <2> HIDE DEF H
  <2> QED BY <1>12, <2>7 DEF Filled, H
<1> QED BY <1>9, <1>11, <1>14 DEF L

\* Taking a page unreported leaves the accounts as they are.
LEMMA ReceivesAccounted ==
  ASSUME NEW s, SinkOK(s), Accounted(s), NEW page
  PROVE  Accounted(Receives(s, page))
<1>1. /\ Receives(s, page).holds = s.holds \cup Landing(s, page)
      /\ Receives(s, page).imported = s.imported
      /\ Receives(s, page).reproduced = s.reproduced
  BY DEF Receives, SinkOK, Sink
<1>2. PICK Q \in SUBSET s.holds : /\ Cardinality(Q) = s.imported
                                  /\ s.reproduced => \A h \in Q : h.at = h.pos
  BY DEF Accounted
<1> QED BY <1>1, <1>2 DEF Accounted

\* A page reported and taken is accounted for.
LEMMA ReportAccounted ==
  ASSUME NEW s, SinkOK(s), Filled(s), Accounted(s),
         NEW page \in SUBSET Row, IsFiniteSet(page), OneEach(page)
  PROVE  /\ Accounted(Receives(Reports(s, page), page))
         /\ Filled(Receives(Reports(s, page), page))
<1> DEFINE r == Reports(s, page)
           L == Landing(s, page)
<1>1. SinkOK(r) /\ r.holds = s.holds /\ r.synced = s.synced
  BY ReportsIsOK
<1>2. /\ r.imported = s.imported + Cardinality(page)
      /\ r.reproduced <=> s.reproduced /\ \A h \in L : h.at = h.pos
  BY DEF Reports, SinkOK, Sink
<1> HIDE DEF r
<1>3. Filled(r) /\ Landing(r, page) = L
  BY <1>1 DEF Filled, Landing
<1>4. /\ Receives(r, page).holds = s.holds \cup L
      /\ Receives(r, page).imported = r.imported
      /\ Receives(r, page).reproduced = r.reproduced
  BY <1>1, <1>3 DEF Receives, SinkOK, Sink
<1>5. Cardinality(L) = Cardinality(page) /\ L \cap s.holds = {} /\ IsFiniteSet(L)
  BY LandingFits, LandingIsHeld
<1> HIDE DEF L
<1>6. PICK Q \in SUBSET s.holds : /\ Cardinality(Q) = s.imported
                                  /\ s.reproduced => \A h \in Q : h.at = h.pos
  BY DEF Accounted
<1>7. Cardinality(Q \cup L) = Cardinality(Q) + Cardinality(page)
  <2>1. IsFiniteSet(Q) /\ Q \cap L = {}
    BY <1>5, <1>6, FS_Subset DEF SinkOK
  <2> QED BY <1>5, <2>1, DisjointUnion
<1>8. Accounted(Receives(r, page))
  <2>1. Q \cup L \in SUBSET (s.holds \cup L)
    BY <1>6
  <2>2. r.reproduced => \A h \in Q \cup L : h.at = h.pos
    BY <1>2, <1>6
  <2> QED BY <1>2, <1>4, <1>6, <1>7, <2>1, <2>2 DEF Accounted
<1>9. Filled(Receives(r, page))
  BY <1>1, <1>3, LandingFits
<1> QED BY <1>8, <1>9 DEF r

\* The rows of a page in hand are of different positions.
LEMMA PageIsOneEach ==
  ASSUME IInv, NEW a \in Archivers
  PROVE  /\ archiver[a].page \in SUBSET Row /\ IsFiniteSet(archiver[a].page)
         /\ OneEach(archiver[a].page)
<1>1. CallOK(archiver[a], db, history, Trusted) /\ archiver[a] \in Pages
  BY DEF IInv, CallsOK
<1>2. Dense(history, db.autoinc, db.next)
  BY DEF IInv, Sound, Numbered
<1> QED BY <1>1, <1>2 DEF CallOK, PageOK, Pages, OneEach, Dense

\* One sink moves, from accounted to accounted.
LEMMA OneSinkMoves ==
  ASSUME IInv, PlacesOK, NEW a \in Archivers, NEW s, Filled(s), Accounted(s),
         sinks' = [sinks EXCEPT ![a] = s], late' \subseteq late
  PROVE  PlacesOK'
<1>1. \A b \in Archivers : sinks'[b] = IF b = a THEN s ELSE sinks[b]
  BY DEF IInv, SinksOK
<1>2. \A b \in Archivers : Filled(sinks'[b]) /\ Accounted(sinks'[b])
  BY <1>1 DEF PlacesOK
<1> QED BY <1>2 DEF PlacesOK

\* A fresh sink has nothing to account for.
LEMMA NewAccounted ==
  ASSUME NEW H, NEW G, NEW lost, Packed(H), Packed(G)
  PROVE  Filled(NewSink(H, G, lost)) /\ Accounted(NewSink(H, G, lost))
BY FS_EmptySet DEF Filled, Accounted, NewSink

\* A power loss may take the event off a position, never off its place.
LEMMA KnownPacked ==
  ASSUME NEW H \in SUBSET Held, IsFiniteSet(H), Packed(H)
  PROVE  Packed(Known(H))
<1> DEFINE now(h) == [h EXCEPT !.pos = IF @ \in Positions(disk.history) THEN @ ELSE 0]
           f == [h \in H |-> now(h)]
           G == Known(H)
<1>1. G = {now(h) : h \in H}
  BY DEF Known
<1>2. \A h \in H : now(h).at = h.at
  BY DEF Held
<1>3. \A h, g \in H : h.at = g.at => h = g
  BY DEF Packed
<1>4. \A h \in H : h.at <= Cardinality(H)
  BY DEF Packed
<1> HIDE DEF now, G
<1>5. /\ f \in [H -> G] /\ \A y \in G : \E x \in H : f[x] = y
      /\ \A x, y \in H : f[x] = f[y] => x = y
  <2>1. f \in [H -> G] /\ \A y \in G : \E x \in H : f[x] = y
    BY <1>1
  <2>2. \A x, y \in H : f[x] = f[y] => x = y
    BY <1>2, <1>3
  <2> QED BY <2>1, <2>2
<1>6. Cardinality(G) = Cardinality(H)
  <2> HIDE DEF f
  <2> QED BY <1>5, SameSize
<1>7. \A g \in G : g.at <= Cardinality(G)
  BY <1>1, <1>2, <1>4, <1>6
<1>8. \A g, k \in G : g.at = k.at => g = k
  BY <1>1, <1>2, <1>3
<1>9. Packed(G)
  BY <1>7, <1>8 DEF Packed
<1> QED BY <1>9 DEF G

\* What comes back of a sink is packed as it was on its disk.
LEMMA LossPlaces == ASSUME IInv, PlacesOK, PowerLoss PROVE PlacesOK'
<1> DEFINE s(a) == NewSink(Known(sinks[a].synced), Known(sinks[a].synced), Loses(a))
<1>1. sinks' = [a \in Archivers |-> s(a)] /\ late' = {}
  BY DEF PowerLoss
<1>2. ASSUME NEW a \in Archivers PROVE Filled(s(a)) /\ Accounted(s(a))
  <2>1. /\ sinks[a].synced \in SUBSET Held /\ IsFiniteSet(sinks[a].synced)
        /\ Packed(sinks[a].synced)
    BY FS_Subset DEF IInv, SinksOK, SinkOK, Sink, PlacesOK, Filled
  <2>2. Packed(Known(sinks[a].synced))
    BY <2>1, KnownPacked
  <2> QED BY <2>2, NewAccounted
<1> HIDE DEF s
<1>3. \A a \in Archivers : sinks'[a] = s(a)
  BY <1>1
<1> QED BY <1>1, <1>2, <1>3 DEF PlacesOK

\* Neither does syncing change what is accounted for.
LEMMA SyncedAccounted ==
  ASSUME NEW s, SinkOK(s), Filled(s), Accounted(s)
  PROVE  Filled(Synced(s)) /\ Accounted(Synced(s))
<1>1. /\ Synced(s).holds = s.holds /\ Synced(s).synced = s.holds
      /\ Synced(s).imported = s.imported /\ Synced(s).reproduced = s.reproduced
  BY DEF Synced, SinkOK, Sink
<1>2. Filled(Synced(s))
  BY <1>1 DEF Filled
<1>3. Accounted(Synced(s))
  BY <1>1 DEF Accounted
<1> QED BY <1>2, <1>3

\* Every step keeps the places in order and the reports accounted for.
LEMMA PlacesKept == ASSUME IInv, PlacesOK, [Next]_vars PROVE PlacesOK'
<1>1. \A a \in Archivers : SinkOK(sinks[a]) /\ Filled(sinks[a]) /\ Accounted(sinks[a])
  BY DEF IInv, SinksOK, PlacesOK
<1>2. ASSUME NEW a \in Archivers, WriteSink(a) PROVE PlacesOK'
  <2> DEFINE page == archiver[a].page
             r == Receives(sinks[a], page)
             s == IF a \in LogSinks THEN Receives(Reports(sinks[a], page), page)
                  ELSE IF a \in SyncSinks THEN Synced(r) ELSE r
  <2>1. page \in SUBSET Row /\ IsFiniteSet(page) /\ OneEach(page)
    BY PageIsOneEach
  <2>2. sinks' = [sinks EXCEPT ![a] = s] /\ late' = late
    BY <1>2 DEF WriteSink
  <2> HIDE DEF page
  <2>3. /\ Filled(r) /\ Accounted(r) /\ SinkOK(r)
        /\ Accounted(Receives(Reports(sinks[a], page), page))
        /\ Filled(Receives(Reports(sinks[a], page), page))
    BY <1>1, <2>1, LandingFits, ReceivesAccounted, ReportAccounted, ReceivesIsOK
  <2> HIDE DEF r
  <2>4. Filled(Synced(r)) /\ Accounted(Synced(r))
    BY <2>3, SyncedAccounted
  <2>5. Filled(s) /\ Accounted(s)
    BY <2>3, <2>4
  <2> HIDE DEF s
  <2> QED BY <2>2, <2>5, OneSinkMoves
<1>3. ASSUME NEW a \in Archivers, SinkFails(a) PROVE PlacesOK'
  <2>1. PICK n \in 0..Cardinality(archiver[a].page) :
          sinks' = [sinks EXCEPT ![a] = Receives(sinks[a], Lowest(archiver[a].page, n))]
    BY <1>3 DEF SinkFails
  <2> DEFINE page == Lowest(archiver[a].page, n)
             s == Receives(sinks[a], page)
  <2>2. page \in SUBSET archiver[a].page
    BY DEF Lowest
  <2> HIDE DEF page
  <2>3. page \in SUBSET Row /\ IsFiniteSet(page) /\ OneEach(page)
    BY <2>2, PageIsOneEach, FS_Subset DEF OneEach
  <2>4. Filled(s) /\ Accounted(s)
    BY <1>1, <2>3, LandingFits, ReceivesAccounted
  <2>5. sinks' = [sinks EXCEPT ![a] = s] /\ late' = late
    BY <1>3, <2>1 DEF SinkFails, page
  <2> HIDE DEF s
  <2> QED BY <2>4, <2>5, OneSinkMoves
<1>4. ASSUME NEW l \in late, Lands(l) PROVE PlacesOK'
  <2> DEFINE s == Receives(sinks[l.to], l.page)
  <2>1. l.to \in Archivers /\ l.page \in SUBSET Row /\ IsFiniteSet(l.page) /\ OneEach(l.page)
    BY ArchiveAssumption DEF IInv, SinksOK, LateOK, PlacesOK
  <2>2. Filled(s) /\ Accounted(s)
    BY <1>1, <2>1, LandingFits, ReceivesAccounted
  <2>3. sinks' = [sinks EXCEPT ![l.to] = s] /\ late' \subseteq late
    BY <1>4 DEF Lands
  <2> HIDE DEF s
  <2> QED BY <2>1, <2>2, <2>3, OneSinkMoves
<1>5. ASSUME NEW a \in Archivers, Stops(a) PROVE PlacesOK'
  <2> DEFINE mine == [to |-> a, id |-> archiver[a].id, page |-> archiver[a].page]
  <2>1. sinks' = sinks /\ late' \subseteq late \cup {mine} /\ OneEach(mine.page)
    BY <1>5, PageIsOneEach DEF Stops
  <2> HIDE DEF mine
  <2> QED BY <2>1 DEF PlacesOK
<1>6. ASSUME NEW a \in Archivers, Dies(a) PROVE PlacesOK'
  <2> DEFINE s == NewSink(sinks[a].holds, sinks[a].synced, sinks[a].lost)
  <2>1. sinks' = [sinks EXCEPT ![a] = s] /\ late' \subseteq late
    BY <1>6 DEF Dies
  <2>2. Filled(s) /\ Accounted(s)
    BY <1>1, NewAccounted DEF Filled
  <2> HIDE DEF s
  <2> QED BY <2>1, <2>2, OneSinkMoves
<1>7. CASE UNCHANGED <<sinks, late>>
  BY <1>7 DEF PlacesOK
<1>8. ASSUME NEW a \in Archivers,
             \/ Reach(a) \/ Through(a) \/ ReadPage(a) \/ Record(a) \/ Confirm(a) \/ Apply(a)
             \/ \E plan \in Plans : Archive(a, plan)
             \/ \E x \in Exports : ExportByHand(a, x)
      PROVE  UNCHANGED <<sinks, late>>
  BY <1>8 DEF Reach, Through, ReadPage, Record, Confirm, Apply, Archive, ExportByHand, sinkVars
<1>9. CASE Others \/ Sync \/ UNCHANGED vars
  BY <1>7, <1>9 DEF Others, Sync, sinkVars, vars
<1>10. ASSUME NEW a \in Archivers, SinkSyncs(a) PROVE PlacesOK'
  <2>1. sinks' = [sinks EXCEPT ![a] = Synced(sinks[a])] /\ late' \subseteq late
    BY <1>10 DEF SinkSyncs
  <2> QED BY <1>1, <2>1, SyncedAccounted, OneSinkMoves
<1> QED BY <1>2, <1>3, <1>4, <1>5, <1>6, <1>7, <1>8, <1>9, <1>10, LossPlaces DEF Next, Step

\* A LogSink that accounts for everything the other log holds, and says it
\* reproduced the coordinates, did: nothing that failed, landed late, went
\* unreported or was sent twice hides behind its reports.
THEOREM ReportsAreTrue == Spec => []ReportIsTruth
<1>1. Init => PlacesOK
  <2> SUFFICES ASSUME Init PROVE PlacesOK
    OBVIOUS
  <2>1. PICK there \in {{}, {[at |-> 1, pos |-> 0]}} :
          sinks = [a \in Archivers |-> LET held == IF a \in LogSinks THEN there ELSE {}
                                       IN NewSink(held, held, {})]
    BY DEF Init
  <2>2. ASSUME NEW H \in {{}, there}
        PROVE  Filled(NewSink(H, H, {})) /\ Accounted(NewSink(H, H, {}))
    <3> DEFINE one == [at |-> 1, pos |-> 0]
    <3>1. Cardinality({one}) = 1 /\ one.at = 1
      BY FS_Singleton
    <3>2. H = {} \/ H = {one}
      OBVIOUS
    <3> HIDE DEF one
    <3>3. \A h \in H : h.at <= Cardinality(H)
      BY <3>1, <3>2
    <3>4. \A h, g \in H : h.at = g.at => h = g
      BY <3>2
    <3>5. Packed(H)
      BY <3>3, <3>4 DEF Packed
    <3> QED BY <3>5, NewAccounted
  <2>3. \A a \in Archivers : Filled(sinks[a]) /\ Accounted(sinks[a])
    BY <2>1, <2>2
  <2>4. late = {}
    BY DEF Init
  <2> QED BY <2>3, <2>4 DEF PlacesOK
<1>2. IInv /\ PlacesOK /\ [Next]_vars => PlacesOK'
  BY PlacesKept
<1>3. IInv /\ PlacesOK => ReportIsTruth
  <2> SUFFICES ASSUME IInv, PlacesOK, NEW a \in LogSinks, sinks[a].reproduced,
                      sinks[a].imported = Cardinality(sinks[a].holds),
                      NEW h \in sinks[a].holds
               PROVE  h.at = h.pos
    BY DEF ReportIsTruth
  <2>1. SinkOK(sinks[a]) /\ Accounted(sinks[a])
    BY ArchiveAssumption DEF IInv, SinksOK, PlacesOK
  <2>2. PICK Q \in SUBSET sinks[a].holds :
          Cardinality(Q) = Cardinality(sinks[a].holds) /\ \A g \in Q : g.at = g.pos
    BY <2>1 DEF Accounted
  <2>3. Q = sinks[a].holds
    BY <2>1, <2>2, FS_Subset DEF SinkOK
  <2> QED BY <2>2, <2>3
<1> QED BY <1>1, <1>2, <1>3, Invariance, PTL DEF Spec

=============================================================================
