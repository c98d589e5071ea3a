-------------------------- MODULE LogTables_proofs --------------------------
EXTENDS LogTables, TLAPS, WellFoundedInduction, FiniteSetTheorems

\* A set of numbers that is not empty has a least one.
LEMMA LeastOf ==
  ASSUME NEW B \in SUBSET Nat, B # {}
  PROVE  \E k \in B : \A j \in B : ~(j < k)
<1>1. PICK k \in B : \A j \in B : ~(<<j, k>> \in OpToRel(<, Nat))
  BY NatLessThanWellFounded, WFMin
<1>2. \A j \in B : ~(j < k)
  BY <1>1 DEF OpToRel
<1> QED BY <1>2

\* The maximum of some numbers is one of them, and 0 of none.
LEMMA MaxOrZeroBound ==
  ASSUME NEW n \in Nat, NEW S \in SUBSET (0..n)
  PROVE  /\ MaxOrZero(S) \in 0..n
         /\ \A p \in S : p <= MaxOrZero(S)
         /\ S # {} => MaxOrZero(S) \in S
<1>1. CASE S = {}
  BY <1>1 DEF MaxOrZero
<1>2. CASE S # {}
  <2> DEFINE T == {n - p : p \in S}
  <2>a. \A p \in S : p \in Int /\ 0 <= p /\ p <= n
    OBVIOUS
  <2>0. T \subseteq Nat
    BY <2>a
  <2>1. T # {}
    BY <1>2
  <2>2. PICK m \in T : \A y \in T : ~(<<y, m>> \in OpToRel(<, Nat))
    <3> HIDE DEF T
    <3> QED BY <2>0, <2>1, NatLessThanWellFounded, WFMin
  <2>3. \A y \in T : m <= y
    <3> SUFFICES ASSUME NEW y \in T PROVE m <= y
      OBVIOUS
    <3>1. y \in Nat /\ m \in Nat
      BY <2>0
    <3>2. ~ (y < m)
      BY <2>2, <3>1 DEF OpToRel
    <3> QED BY <3>1, <3>2
  <2>4. n - m \in S /\ \A q \in S : q <= n - m
    <3>1. PICK p \in S : m = n - p
      OBVIOUS
    <3>2. \A q \in S : m <= n - q
      BY <2>3
    <3> QED BY <3>1, <3>2, <2>a
  <2>5. MaxOrZero(S) \in S /\ \A q \in S : q <= MaxOrZero(S)
    BY <2>4, <1>2 DEF MaxOrZero
  <2> QED BY <2>5
<1> QED BY <1>1, <1>2

\* Finitely many numbers have a bound.
LEMMA FiniteBound ==
  ASSUME NEW S \in SUBSET Nat, IsFiniteSet(S)
  PROVE  \E n \in Nat : \A x \in S : x <= n
<1> DEFINE Bounded(T) == \E n \in Nat : \A x \in T : x <= n
           B == {Cardinality(T) : T \in {U \in SUBSET S : ~Bounded(U)}}
<1>1. \A T \in SUBSET S : IsFiniteSet(T) /\ Cardinality(T) \in Nat
  BY FS_Subset, FS_CardinalityType
<1>2. B = {}
  <2> SUFFICES ASSUME B # {} PROVE FALSE
    OBVIOUS
  <2>1. B \subseteq Nat
    BY <1>1
  <2>2. PICK k \in B : \A j \in B : ~(<<j, k>> \in OpToRel(<, Nat))
    <3> HIDE DEF B
    <3> QED BY <2>1, NatLessThanWellFounded, WFMin
  <2>3. PICK T \in SUBSET S : ~Bounded(T) /\ Cardinality(T) = k
    OBVIOUS
  <2>4. PICK x \in T : TRUE
    BY <2>3
  <2> DEFINE U == T \ {x}
  <2>5. Cardinality(U) = Cardinality(T) - 1 /\ U \in SUBSET S /\ x \in Nat
    BY <1>1, <2>4, FS_RemoveElement
  <2>6. Cardinality(U) \in Nat /\ k \in Nat /\ Cardinality(U) < k
    BY <1>1, <2>3, <2>5
  <2>7. Cardinality(U) \notin B
    <3> HIDE DEF B, U
    <3> QED BY <2>2, <2>6 DEF OpToRel
  <2>8. Bounded(U)
    BY <2>5, <2>7
  <2>9. PICK n \in Nat : \A y \in U : y <= n
    BY <2>8
  <2>10. n + x \in Nat /\ \A y \in T : y <= n + x
    BY <2>5, <2>9
  <2> QED BY <2>3, <2>10
<1> QED BY <1>2

\* Sets that are mapped one to one have the same size.
LEMMA SameSize ==
  ASSUME NEW S, IsFiniteSet(S), NEW T, NEW f \in [S -> T],
         \A x, y \in S : f[x] = f[y] => x = y,
         \A t \in T : \E x \in S : f[x] = t
  PROVE  IsFiniteSet(T) /\ Cardinality(T) = Cardinality(S)
<1>1. f \in Bijection(S, T)
  BY DEF Bijection, Injection, Surjection, IsInjective
<1>2. ExistsBijection(S, T)
  BY <1>1 DEF ExistsBijection
<1> QED BY <1>2, FS_Bijection

\* Two sets with nothing in common.
LEMMA DisjointUnion ==
  ASSUME NEW S, IsFiniteSet(S), NEW T, IsFiniteSet(T), S \cap T = {}
  PROVE  IsFiniteSet(S \cup T) /\ Cardinality(S \cup T) = Cardinality(S) + Cardinality(T)
<1>1. Cardinality(S) \in Nat /\ Cardinality(T) \in Nat
  BY FS_CardinalityType
<1>2. /\ IsFiniteSet(S \cup T)
      /\ Cardinality(S \cup T) = Cardinality(S) + Cardinality(T) - Cardinality(S \cap T)
  BY FS_Union
<1>3. Cardinality(S \cap T) = 0
  BY FS_EmptySet
<1> QED BY <1>1, <1>2, <1>3

\* Positive numbers, in the form the arithmetic below gives them.
LEMMA Positive == \A x : x \in Nat \ {0} <=> x \in Nat /\ x >= 1
OBVIOUS

\* A finite sequence of things that have a kind and a time.
IsRun(run) ==
  /\ Len(run) \in Nat /\ DOMAIN run = 1..Len(run)
  /\ \A i \in 1..Len(run) : run[i].kind \in Kinds /\ run[i].at \in Times

\* A sequence of events is a run.
LEMMA EventsAreRun == ASSUME NEW run \in Seq(Event) PROVE IsRun(run)
<1>1. Len(run) \in Nat /\ DOMAIN run = 1..Len(run) /\ \A i \in 1..Len(run) : run[i] \in Event
  OBVIOUS
<1> QED BY <1>1 DEF IsRun, Event

\* Appending a run gives tables, and the rows are rows.
LEMMA AppendRunType ==
  ASSUME NEW d \in Tables, NEW s \in Streams, NEW run, IsRun(run)
  PROVE  /\ RunRows(d, s, run) \subseteq Row
         /\ AppendRun(d, s, run) \in Tables
         /\ AppendRun(d, s, run).events = d.events \cup RunRows(d, s, run)
         /\ AppendRun(d, s, run).autoinc = d.autoinc + Len(run)
         /\ AppendRun(d, s, run).next = [d.next EXCEPT ![s] = d.next[s] + Len(run)]
         /\ \A r \in RunRows(d, s, run) :
              d.autoinc < r.pos /\ r.pos <= d.autoinc + Len(run)
<1> DEFINE a == d.autoinc
           n == d.next[s]
           l == Len(run)
<1>1. /\ a \in Nat /\ n \in Nat /\ n >= 1 /\ l \in Nat
      /\ DOMAIN run = 1..l /\ NextSeq(d, s) = n
  BY DEF Tables, NextSeq, IsRun
<1>2. ASSUME NEW i \in DOMAIN run
      PROVE  /\ a + i \in Nat \ {0} /\ n + i - 1 \in Nat \ {0}
             /\ run[i].kind \in Kinds /\ run[i].at \in Times
  <2>1. i \in Nat /\ i >= 1 /\ run[i].kind \in Kinds /\ run[i].at \in Times
    BY <1>1 DEF IsRun
  <2>2. a + i \in Nat /\ n + i - 1 \in Nat /\ a + i >= 1 /\ n + i - 1 >= 1
    <3> HIDE DEF a, n, l
    <3> QED BY <1>1, <2>1
  <2> HIDE DEF a, n, l
  <2> QED BY <2>1, <2>2, Positive
<1>3. RunRows(d, s, run) \subseteq Row
  BY <1>1, <1>2 DEF RunRows, Row
<1>4. a + l \in Nat /\ n + l \in Nat \ {0}
  <2> HIDE DEF a, n, l
  <2> QED BY <1>1, Positive
<1>5. AppendRun(d, s, run) =
        [d EXCEPT !.events = d.events \cup RunRows(d, s, run), !.autoinc = a + l,
                  !.next = [d.next EXCEPT ![s] = n + l]]
  BY <1>1 DEF AppendRun, SetNextSeq, Tables
<1>6. [d.next EXCEPT ![s] = n + l] \in [Streams -> Nat \ {0}]
  BY <1>4 DEF Tables
<1>7. d.events \cup RunRows(d, s, run) \in SUBSET Row
  BY <1>3 DEF Tables
<1> HIDE DEF a, n, l
<1>8. /\ AppendRun(d, s, run) \in Tables
      /\ AppendRun(d, s, run).events = d.events \cup RunRows(d, s, run)
      /\ AppendRun(d, s, run).autoinc = a + l
      /\ AppendRun(d, s, run).next = [d.next EXCEPT ![s] = n + l]
  BY <1>4, <1>5, <1>6, <1>7 DEF Tables
<1>9. ASSUME NEW r \in RunRows(d, s, run) PROVE a < r.pos /\ r.pos <= a + l
  <2>1. PICK i \in 1..l : r.pos = a + i
    BY <1>1 DEF RunRows, a, l
  <2> QED BY <2>1, <1>1
<1> QED BY <1>3, <1>8, <1>9 DEF a, n, l

\* A run continues the numbering of any history the counters stand behind.
LEMMA AppendRunDense ==
  ASSUME NEW d \in Tables, NEW s \in Streams, NEW run, IsRun(run),
         NEW rows \in SUBSET Row, Dense(rows, d.autoinc, d.next)
  PROVE  Dense(rows \cup RunRows(d, s, run), d.autoinc + Len(run),
               [d.next EXCEPT ![s] = d.next[s] + Len(run)])
<1> DEFINE a == d.autoinc
           n == d.next[s]
           l == Len(run)
           new == RunRows(d, s, run)
           nx == [d.next EXCEPT ![s] = n + l]
<1>1. /\ a \in Nat /\ n \in Nat /\ n >= 1 /\ l \in Nat
      /\ DOMAIN run = 1..l /\ NextSeq(d, s) = n
      /\ d.next \in [Streams -> Nat]
  BY DEF Tables, NextSeq, IsRun
<1>2. nx[s] = n + l /\ \A q \in Streams : q # s => nx[q] = d.next[q]
  BY <1>1
<1>3. ASSUME NEW r \in new
      PROVE \E i \in 1..l : r.pos = a + i /\ r.stream = s /\ r.seq = n + i - 1 
  BY <1>1 DEF RunRows
<1>4. ASSUME NEW i \in 1..l
      PROVE \E r \in new : r.pos = a + i /\ r.stream = s /\ r.seq = n + i - 1
  <2> DEFINE r == [pos |-> a + i, stream |-> s, seq |-> n + i - 1,
                   kind |-> run[i].kind, at |-> run[i].at]
  <2>1. r \in new
    BY <1>1 DEF RunRows
  <2>2. r.pos = a + i /\ r.stream = s /\ r.seq = n + i - 1
    OBVIOUS
  <2> HIDE DEF r
  <2> QED BY <2>1, <2>2
<1>5. \A r, q \in new : r.pos = q.pos => r = q
  <2> SUFFICES ASSUME NEW i \in 1..l, NEW j \in 1..l, a + i = a + j PROVE i = j
    BY <1>1 DEF RunRows
  <2> HIDE DEF a
  <2> QED BY <1>1
<1>6. \A r \in rows : /\ r.pos \in Nat /\ r.pos >= 1 /\ r.seq \in Nat /\ r.seq >= 1
                      /\ r.stream \in Streams
                      /\ r.pos <= a /\ r.seq < d.next[r.stream]
  BY DEF Row, Dense
<1>7. \A r, q \in rows : r.pos = q.pos => r = q
  BY DEF Dense
<1>8. \A r, q \in rows : r.stream = q.stream => (r.seq < q.seq <=> r.pos < q.pos)
  BY DEF Dense
<1>9. \A k \in 1..a : \E r \in rows : r.pos = k
  BY DEF Dense
<1>10. \A t \in Streams : \A k \in 1..(d.next[t] - 1) :
         \E r \in rows : r.stream = t /\ r.seq = k
  BY DEF Dense
<1> HIDE DEF a, n, l, new, nx
<1>11. \A r \in rows \cup new : r.pos <= a + l /\ r.seq < nx[r.stream]
  <2>1. ASSUME NEW r \in rows PROVE r.pos <= a + l /\ r.seq < nx[r.stream]
    <3>1. CASE r.stream = s
      BY <3>1, <1>1, <1>2, <1>6 DEF n
    <3>2. CASE r.stream # s
      BY <3>2, <1>1, <1>2, <1>6
    <3> QED BY <3>1, <3>2
  <2>2. ASSUME NEW r \in new PROVE r.pos <= a + l /\ r.seq < nx[r.stream]
    BY <1>1, <1>2, <1>3
  <2> QED BY <2>1, <2>2
<1>12. \A r, q \in rows \cup new : r.pos = q.pos => r = q
  <2>1. ASSUME NEW r \in rows, NEW q \in new PROVE r.pos < q.pos
    BY <1>1, <1>3, <1>6
  <2>2. \A r \in new : r.pos \in Nat
    BY <1>1, <1>3
  <2> QED BY <2>1, <2>2, <1>5, <1>6, <1>7
<1>13. \A r, q \in rows \cup new : r.stream = q.stream => (r.seq < q.seq <=> r.pos < q.pos)
  <2>1. ASSUME NEW r \in rows, NEW q \in new, r.stream = q.stream
        PROVE  r.pos < q.pos /\ r.seq < q.seq
    <3>1. r.seq < n
      BY <2>1, <1>3, <1>6 DEF n
    <3> QED BY <3>1, <1>1, <1>3, <1>6
  <2>2. ASSUME NEW r \in new, NEW q \in new PROVE r.seq < q.seq <=> r.pos < q.pos
    BY <1>1, <1>3
  <2>3. \A r \in rows \cup new : r.pos \in Nat /\ r.seq \in Int
    BY <1>1, <1>3, <1>6
  <2> QED BY <2>1, <2>2, <2>3, <1>8
<1>14. \A k \in 1..(a + l) : \E r \in rows \cup new : r.pos = k
  <2> SUFFICES ASSUME NEW k \in 1..(a + l) PROVE \E r \in rows \cup new : r.pos = k
    OBVIOUS
  <2>1. CASE k <= a
    BY <2>1, <1>1, <1>9
  <2>2. CASE k > a
    <3>1. k - a \in 1..l /\ a + (k - a) = k
      BY <2>2, <1>1
    <3> QED BY <3>1, <1>4
  <2> QED BY <2>1, <2>2, <1>1
<1>15. ASSUME NEW t \in Streams, NEW k \in 1..(nx[t] - 1)
       PROVE  \E r \in rows \cup new : r.stream = t /\ r.seq = k
  <2>1. CASE t # s
    BY <2>1, <1>2, <1>10
  <2>2. CASE t = s /\ k < n
    <3>1. k \in 1..(d.next[t] - 1)
      BY <2>2, <1>1 DEF n
    <3> QED BY <3>1, <1>10
  <2>3. CASE t = s /\ k >= n
    <3>1. k - n + 1 \in 1..l /\ n + (k - n + 1) - 1 = k
      BY <2>3, <1>1, <1>2
    <3> QED BY <3>1, <2>3, <1>4
  <2>4. k \in Int
    OBVIOUS
  <2> QED BY <2>1, <2>2, <2>3, <2>4, <1>1
<1>16. Dense(rows \cup new, a + l, nx)
  BY <1>11, <1>12, <1>13, <1>14, <1>15 DEF Dense
<1> QED BY <1>16 DEF a, n, l, new, nx

\* So does one row inserted with the next number of its stream.
LEMMA InsertDense ==
  ASSUME NEW a \in Nat, NEW nx \in [Streams -> Nat \ {0}], NEW rows \in SUBSET Row,
         Dense(rows, a, nx),
         NEW w \in Row, w.pos = a + 1, w.seq = nx[w.stream]
  PROVE  Dense(rows \cup {w}, a + 1, [nx EXCEPT ![w.stream] = nx[w.stream] + 1])
<1> DEFINE s == w.stream
           n == nx[s]
           my == [nx EXCEPT ![s] = n + 1]
<1>1. s \in Streams /\ n \in Nat /\ n >= 1 /\ my[s] = n + 1
      /\ \A q \in Streams : q # s => my[q] = nx[q]
  BY DEF Row
<1>2. \A r \in rows : /\ r.pos \in Nat /\ r.seq \in Nat /\ r.stream \in Streams
                      /\ r.pos <= a /\ r.seq < nx[r.stream] /\ nx[r.stream] \in Nat
  BY DEF Row, Dense
<1>3. /\ \A r, q \in rows : r.pos = q.pos => r = q
      /\ \A r, q \in rows : r.stream = q.stream => (r.seq < q.seq <=> r.pos < q.pos)
      /\ \A k \in 1..a : \E r \in rows : r.pos = k
      /\ \A t \in Streams : \A k \in 1..(nx[t] - 1) : \E r \in rows : r.stream = t /\ r.seq = k
  BY DEF Dense
<1>4. w.pos = a + 1 /\ w.seq = n /\ w.stream = s
  OBVIOUS
<1> HIDE DEF s, n, my
<1>5. \A r \in rows \cup {w} : r.pos <= a + 1 /\ r.seq < my[r.stream]
  <2>1. ASSUME NEW r \in rows PROVE r.pos <= a + 1 /\ r.seq < my[r.stream]
    <3>1. CASE r.stream = s
      BY <3>1, <1>1, <1>2 DEF n
    <3>2. CASE r.stream # s
      BY <3>2, <1>1, <1>2
    <3> QED BY <3>1, <3>2
  <2> QED BY <2>1, <1>1, <1>4
<1>6. \A r, q \in rows \cup {w} : r.pos = q.pos => r = q
  BY <1>2, <1>3, <1>4
<1>7. \A r, q \in rows \cup {w} : r.stream = q.stream => (r.seq < q.seq <=> r.pos < q.pos)
  <2>1. ASSUME NEW r \in rows, r.stream = s PROVE r.seq < n /\ r.pos < a + 1
    BY <2>1, <1>2 DEF n
  <2> QED BY <2>1, <1>1, <1>2, <1>3, <1>4
<1>8. \A k \in 1..(a + 1) : \E r \in rows \cup {w} : r.pos = k
  BY <1>3, <1>4
<1>9. ASSUME NEW t \in Streams, NEW k \in 1..(my[t] - 1)
      PROVE  \E r \in rows \cup {w} : r.stream = t /\ r.seq = k
  <2>1. CASE t # s
    BY <2>1, <1>1, <1>3
  <2>2. CASE t = s /\ k = n
    BY <2>2, <1>4
  <2>3. CASE t = s /\ k # n
    <3>1. k \in 1..(nx[t] - 1)
      BY <2>3, <1>1 DEF n
    <3> QED BY <3>1, <1>3
  <2> QED BY <2>1, <2>2, <2>3
<1>10. Dense(rows \cup {w}, a + 1, my)
  BY <1>5, <1>6, <1>7, <1>8, <1>9 DEF Dense
<1> QED BY <1>10 DEF s, n, my

-----------------------------------------------------------------------------
(* The tables behind a history.                                            *)

\* History is dense and the rows there are a finite part of it.
Numbered(d, h) ==
  /\ d \in Tables /\ h \subseteq Row /\ d.events \subseteq h
  /\ IsFiniteSet(d.events)
  /\ Dense(h, d.autoinc, d.next)

\* A run is finitely many rows.
LEMMA RunRowsFinite ==
  ASSUME NEW d, NEW s, NEW run, IsRun(run)
  PROVE  IsFiniteSet(RunRows(d, s, run))
<1> DEFINE w(i) == [pos |-> d.autoinc + i, stream |-> s, seq |-> NextSeq(d, s) + i - 1,
                    kind |-> run[i].kind, at |-> run[i].at]
           f == [i \in 1..Len(run) |-> w(i)]
<1>1. RunRows(d, s, run) = {w(i) : i \in 1..Len(run)}
  BY DEF RunRows, IsRun
<1>2. f \in Surjection(1..Len(run), {w(i) : i \in 1..Len(run)})
  <2> HIDE DEF w
  <2> QED BY DEF Surjection
<1>3. IsFiniteSet(1..Len(run))
  BY FS_Interval DEF IsRun
<1> HIDE DEF f
<1> QED BY <1>1, <1>2, <1>3, FS_Surjection

\* What a plan takes ends at a position, and everything it takes is at or below.
LEMMA HighestBounds ==
  ASSUME NEW d \in Tables, NEW h, Numbered(d, h), NEW plan
  PROVE  /\ HighestMatching(d, plan) \in Nat
         /\ \A r \in Matching(d, plan) : r.pos <= HighestMatching(d, plan)
<1>1. d.autoinc \in Nat
  BY DEF Tables
<1>2. Positions(Matching(d, plan)) \in SUBSET (0..d.autoinc)
  BY <1>1 DEF Numbered, Dense, Matching, Positions, Row
<1>3. \A r \in Matching(d, plan) : r.pos \in Positions(Matching(d, plan))
  BY DEF Positions
<1>4. HighestMatching(d, plan) = MaxOrZero(Positions(Matching(d, plan)))
  BY DEF HighestMatching
<1> DEFINE S == Positions(Matching(d, plan))
<1> HIDE DEF S
<1>5. MaxOrZero(S) \in 0..d.autoinc /\ \A p \in S : p <= MaxOrZero(S)
  BY <1>1, <1>2, MaxOrZeroBound DEF S
<1> QED BY <1>1, <1>3, <1>4, <1>5 DEF S

\* The tables e are numbered, and have the rows of a run above what d had.
Lengthened(d, h, run, e, rows) ==
  /\ Numbered(e, h \cup rows) /\ e.events = d.events \cup rows /\ e.receipts = d.receipts
  /\ e.autoinc >= d.autoinc /\ e.autoinc = d.autoinc + Len(run)
  /\ rows \subseteq Row /\ \A row \in rows : row.pos > d.autoinc

\* An append keeps them so: its rows are above everything.
LEMMA NumberedAppend ==
  ASSUME NEW d, NEW h, Numbered(d, h), NEW s \in Streams, NEW run, IsRun(run)
  PROVE  Lengthened(d, h, run, AppendRun(d, s, run), RunRows(d, s, run))
<1> DEFINE e == AppendRun(d, s, run)
           rows == RunRows(d, s, run)
<1>1. d \in Tables
  BY DEF Numbered
<1>2. /\ rows \subseteq Row /\ e \in Tables
      /\ e.events = d.events \cup rows
      /\ e.autoinc = d.autoinc + Len(run)
      /\ e.next = [d.next EXCEPT ![s] = d.next[s] + Len(run)]
      /\ \A r \in rows : d.autoinc < r.pos /\ r.pos <= d.autoinc + Len(run)
  BY <1>1, AppendRunType
<1>3. e.receipts = d.receipts
  BY <1>1 DEF AppendRun, SetNextSeq, Tables
<1>4. Dense(h \cup rows, e.autoinc, e.next)
  <2>1. h \in SUBSET Row /\ Dense(h, d.autoinc, d.next)
    BY <1>1 DEF Numbered
  <2>2. Dense(h \cup rows, d.autoinc + Len(run), [d.next EXCEPT ![s] = d.next[s] + Len(run)])
    BY <1>1, <2>1, AppendRunDense
  <2> HIDE DEF e, rows
  <2> QED BY <1>2, <2>2
<1>5. IsFiniteSet(e.events)
  <2>1. IsFiniteSet(d.events) /\ IsFiniteSet(rows)
    BY <1>1, RunRowsFinite DEF Numbered
  <2> HIDE DEF e, rows
  <2>2. IsFiniteSet(d.events \cup rows)
    BY <2>1, FS_Union
  <2>3. e.events = d.events \cup rows
    BY <1>2
  <2> QED BY <2>2, <2>3
<1>6. d.autoinc \in Nat /\ e.autoinc \in Nat /\ Len(run) \in Nat
  BY <1>1, <1>2 DEF Tables, IsRun
<1>7. e.autoinc >= d.autoinc /\ \A row \in rows : row.pos > d.autoinc
  <2>1. \A row \in rows : row.pos \in Nat
    BY <1>2 DEF Row
  <2> HIDE DEF e, rows
  <2> QED BY <1>2, <1>6, <2>1
<1> HIDE DEF e, rows
<1>8. Numbered(e, h \cup rows)
  BY <1>1, <1>2, <1>4, <1>5 DEF Numbered
<1>9. Lengthened(d, h, run, e, rows)
  BY <1>2, <1>3, <1>7, <1>8 DEF Lengthened
<1> QED BY <1>9 DEF e, rows

\* So does a removal: it takes rows and no number.
LEMMA NumberedRemove ==
  ASSUME NEW d, NEW h, Numbered(d, h), NEW plan
  PROVE  LET e == RemoveMatching(d, plan)
         IN  /\ Numbered(e, h)
             /\ e.events = d.events \ Matching(d, plan)
             /\ e.receipts = d.receipts /\ e.autoinc = d.autoinc
             /\ e.ckpt = d.ckpt
             /\ e.ledger = Append(d.ledger, HighestMatching(d, plan))
<1> DEFINE e == RemoveMatching(d, plan)
<1>1. d \in Tables
  BY DEF Numbered
<1>2. PICK n \in Nat : n = HighestMatching(d, plan)
  BY <1>1, HighestBounds
<1>3. e = [d EXCEPT !.events = d.events \ Matching(d, plan), !.ledger = Append(d.ledger, n)]
  BY <1>2 DEF RemoveMatching
<1>4. Append(d.ledger, n) \in Seq(Nat)
  BY <1>1 DEF Tables
<1>5. d.events \ Matching(d, plan) \in SUBSET Row
  BY <1>1 DEF Tables
<1>6. /\ e \in Tables /\ e.events = d.events \ Matching(d, plan)
      /\ e.receipts = d.receipts /\ e.autoinc = d.autoinc /\ e.next = d.next
      /\ e.ckpt = d.ckpt /\ e.ledger = Append(d.ledger, n)
  <2> HIDE DEF e
  <2> QED BY <1>1, <1>3, <1>4, <1>5 DEF Tables
<1> HIDE DEF e
<1>7. Numbered(e, h)
  <2>1. IsFiniteSet(e.events)
    BY <1>1, <1>6, FS_Subset DEF Numbered
  <2> QED BY <1>1, <1>6, <2>1 DEF Numbered
<1> QED BY <1>2, <1>6, <1>7 DEF e

-----------------------------------------------------------------------------
(* ORDER BY position LIMIT n.                                              *)

\* What is left out comes after what is taken.
LEMMA LowestIsLowest ==
  ASSUME NEW S, IsFiniteSet(S), S \subseteq Row, NEW n \in Nat,
         NEW row \in S \ Lowest(S, n), NEW q \in Lowest(S, n)
  PROVE  q.pos < row.pos
<1> DEFINE below(x) == {y \in S : y.pos < x.pos}
<1>1. \A x \in S : x.pos \in Nat
  BY DEF Row
<1>2. q \in S /\ IsFiniteSet(below(row)) /\ IsFiniteSet(below(q))
  BY FS_Subset DEF Lowest
<1>3. Cardinality(below(row)) \in Nat /\ Cardinality(below(q)) \in Nat
  BY <1>2, FS_CardinalityType
<1>4. ~(Cardinality(below(row)) < n) /\ Cardinality(below(q)) < n
  BY DEF Lowest
<1>5. SUFFICES ASSUME row.pos <= q.pos PROVE FALSE
  BY <1>1, <1>2
<1>6. below(row) \subseteq below(q)
  BY <1>1, <1>2, <1>5
<1>7. Cardinality(below(row)) <= Cardinality(below(q))
  <2> HIDE DEF below
  <2> QED BY <1>2, <1>6, FS_Subset
<1> HIDE DEF below
<1> QED BY <1>3, <1>4, <1>7

\* A page that is not full leaves nothing out.
LEMMA LowestOfFew ==
  ASSUME NEW S, IsFiniteSet(S), S \subseteq Row, NEW n \in Nat,
         \A x, y \in S : x.pos = y.pos => x = y,
         Cardinality(Lowest(S, n)) # n
  PROVE  Lowest(S, n) = S
<1> DEFINE below(x) == {y \in S : y.pos < x.pos}
           rank == [x \in S |-> Cardinality(below(x))]
           N == Cardinality(S)
           T == Lowest(S, n)
<1>1. N \in Nat
  BY FS_CardinalityType
<1>2. \A x \in S : x.pos \in Nat
  BY DEF Row
<1>3. ASSUME NEW x \in S
      PROVE  /\ IsFiniteSet(below(x)) /\ Cardinality(below(x)) \in Nat
             /\ x \notin below(x)
  BY <1>2, FS_Subset, FS_CardinalityType
<1>4. ASSUME NEW x \in S, NEW y \in S, x.pos < y.pos PROVE rank[x] < rank[y]
  <2>1. below(x) \cup {x} \subseteq below(y)
    BY <1>2, <1>4
  <2>2. Cardinality(below(x) \cup {x}) = Cardinality(below(x)) + 1
    <3> HIDE DEF below
    <3> QED BY <1>3, FS_AddElement
  <2>3. Cardinality(below(x) \cup {x}) <= Cardinality(below(y))
    <3> HIDE DEF below
    <3> QED BY <1>3, <2>1, FS_Subset
  <2>4. Cardinality(below(x)) \in Nat /\ Cardinality(below(y)) \in Nat
    BY <1>3
  <2> HIDE DEF below
  <2> QED BY <2>2, <2>3, <2>4
<1>5. \A x \in S : rank[x] \in 0..(N - 1)
  <2> SUFFICES ASSUME NEW x \in S PROVE rank[x] \in 0..(N - 1)
    OBVIOUS
  <2>1. below(x) \cup {x} \subseteq S
    OBVIOUS
  <2>2. Cardinality(below(x) \cup {x}) = Cardinality(below(x)) + 1
    <3> HIDE DEF below
    <3> QED BY <1>3, FS_AddElement
  <2>3. Cardinality(below(x) \cup {x}) <= N
    <3> HIDE DEF below
    <3> QED BY <2>1, FS_Subset
  <2>4. Cardinality(below(x)) \in Nat
    BY <1>3
  <2> HIDE DEF below, N
  <2> QED BY <1>1, <2>2, <2>3, <2>4
<1>6. \A x, y \in S : rank[x] = rank[y] => x = y
  <2>1. \A x \in S : rank[x] \in Nat
    BY <1>3
  <2> HIDE DEF rank
  <2> QED BY <1>2, <1>4, <2>1
<1>7. rank \in Injection(S, 0..(N - 1))
  <2>1. rank \in [S -> 0..(N - 1)]
    BY <1>5
  <2> HIDE DEF rank, N
  <2> QED BY <1>6, <2>1 DEF Injection, IsInjective
<1>8. IsFiniteSet(0..(N - 1)) /\ Cardinality(0..(N - 1)) = N
  <2>1. N - 1 \in Int /\ 0 \in Int
    BY <1>1
  <2>2. IsFiniteSet(0..(N - 1)) /\ Cardinality(0..(N - 1)) = IF 0 > N - 1 THEN 0 ELSE N - 1 - 0 + 1
    <3> HIDE DEF N
    <3> QED BY <2>1, FS_Interval
  <2> HIDE DEF N
  <2> QED BY <1>1, <2>2
<1>9. \A k \in 0..(N - 1) : \E x \in S : rank[x] = k
  <2>1. rank \in Surjection(S, 0..(N - 1))
    <3> HIDE DEF rank
    <3> QED BY <1>7, <1>8, FS_Injection
  <2> HIDE DEF rank
  <2> QED BY <2>1 DEF Surjection
<1>10. T \subseteq S /\ \A x \in S : x \in T <=> rank[x] < n
  BY DEF Lowest
<1> SUFFICES ASSUME NEW row \in S, row \notin T PROVE FALSE
  BY <1>10
<1>11. n <= N - 1
  <2>1. ~(rank[row] < n) /\ rank[row] \in 0..(N - 1)
    BY <1>5, <1>10
  <2> HIDE DEF rank, N
  <2> QED BY <1>1, <2>1
<1> DEFINE g == [x \in T |-> rank[x]]
<1>12. g \in Injection(T, 0..(n - 1))
  <2>1. \A x \in T : rank[x] \in 0..(n - 1)
    <3>1. \A x \in T : rank[x] < n /\ rank[x] \in 0..(N - 1)
      BY <1>5, <1>10
    <3> HIDE DEF rank, N
    <3> QED BY <1>1, <3>1
  <2>2. \A x, y \in T : rank[x] = rank[y] => x = y
    BY <1>6, <1>10
  <2> HIDE DEF rank, T
  <2> QED BY <2>1, <2>2 DEF Injection, IsInjective
<1>13. g \in Surjection(T, 0..(n - 1))
  <2>1. ASSUME NEW k \in 0..(n - 1) PROVE \E x \in T : rank[x] = k
    <3>1. k \in 0..(N - 1) /\ k < n
      <4> HIDE DEF N
      <4> QED BY <1>1, <1>11
    <3>2. PICK x \in S : rank[x] = k
      BY <1>9, <3>1
    <3> HIDE DEF rank
    <3> QED BY <1>10, <3>1, <3>2
  <2>2. g \in [T -> 0..(n - 1)]
    <3> HIDE DEF g
    <3> QED BY <1>12 DEF Injection
  <2>3. \A k \in 0..(n - 1) : \E x \in T : g[x] = k
    <3> HIDE DEF rank, T
    <3> QED BY <2>1
  <2> HIDE DEF g
  <2> QED BY <2>2, <2>3 DEF Surjection
<1>14. IsFiniteSet(0..(n - 1)) /\ Cardinality(0..(n - 1)) = n
  <2>1. IsFiniteSet(0..(n - 1)) /\ Cardinality(0..(n - 1)) = IF 0 > n - 1 THEN 0 ELSE n - 1 - 0 + 1
    BY FS_Interval
  <2> QED BY <2>1
<1>15. Cardinality(T) = n
  <2> HIDE DEF g, T
  <2> QED BY <1>12, <1>13, <1>14, FS_Injection
<1> QED BY <1>15

-----------------------------------------------------------------------------
(* Order.                                                                  *)

\* upTo says of every member of S which come no later, in one order of all.
Ordering(S, upTo) ==
  /\ \A x \in S : x \in upTo[x] /\ \A y \in upTo[x] : y \in S
  /\ \A x, y \in S : x \in upTo[y] \/ y \in upTo[x]
  /\ \A x, y \in S : x \in upTo[y] => \A z \in upTo[x] : z \in upTo[y]
  /\ \A x, y \in S : x \in upTo[y] /\ y \in upTo[x] => x = y

\* Each member of S once, in order, at the place that says how many come no later.
InOrderOf(s, S, upTo) ==
  /\ Cardinality(S) \in Nat /\ DOMAIN s = 1..Cardinality(S) /\ s \in Seq(S)
  /\ \A i \in DOMAIN s : s[i] \in S /\ Cardinality(upTo[s[i]]) = i
  /\ \A x \in S : Cardinality(upTo[x]) \in DOMAIN s /\ s[Cardinality(upTo[x])] = x
  /\ \A i, j \in DOMAIN s : i < j => s[i] \in upTo[s[j]] /\ s[i] # s[j]

\* ORDER BY lists every member once and in order.
LEMMA Ordered ==
  ASSUME NEW S, IsFiniteSet(S), NEW upTo, Ordering(S, upTo)
  PROVE  InOrderOf(OrderBy(S, upTo), S, upTo)
<1> DEFINE N == Cardinality(S)
           rank == [x \in S |-> Cardinality(upTo[x])]
           s == OrderBy(S, upTo)
<1>1. N \in Nat
  BY FS_CardinalityType
<1>2. ASSUME NEW x \in S
      PROVE  /\ IsFiniteSet(upTo[x]) /\ rank[x] = Cardinality(upTo[x]) /\ rank[x] \in 1..N
             /\ upTo[x] \subseteq S
  <2>1. upTo[x] \in SUBSET S /\ x \in upTo[x]
    BY DEF Ordering
  <2>2. /\ IsFiniteSet(upTo[x]) /\ Cardinality(upTo[x]) <= N /\ Cardinality(upTo[x]) \in Nat
    BY <2>1, FS_Subset, FS_CardinalityType
  <2>3. Cardinality(upTo[x]) # 0
    BY <2>1, <2>2, FS_EmptySet
  <2> QED BY <1>1, <2>1, <2>2, <2>3
<1>3. ASSUME NEW x \in S, NEW y \in S, x \in upTo[y], x # y PROVE rank[x] < rank[y]
  <2>1. upTo[x] \in SUBSET upTo[y] /\ y \notin upTo[x] /\ y \in upTo[y]
    BY <1>3, <1>2 DEF Ordering
  <2>2. /\ IsFiniteSet(upTo[y]) /\ rank[x] = Cardinality(upTo[x]) /\ rank[y] = Cardinality(upTo[y])
        /\ rank[x] \in 1..N /\ rank[y] \in 1..N
    BY <1>2
  <2> HIDE DEF rank
  <2>3. Cardinality(upTo[x]) <= Cardinality(upTo[y])
        /\ Cardinality(upTo[x]) # Cardinality(upTo[y])
    BY <2>1, <2>2, FS_Subset
  <2> QED BY <1>1, <2>2, <2>3
<1>4. \A x, y \in S : rank[x] = rank[y] => x = y
  <2> SUFFICES ASSUME NEW x \in S, NEW y \in S, rank[x] = rank[y] PROVE x = y
    OBVIOUS
  <2>1. rank[x] \in 1..N /\ rank[y] \in 1..N
    BY <1>2
  <2>2. x \in upTo[y] \/ y \in upTo[x]
    BY DEF Ordering
  <2> HIDE DEF rank
  <2> QED BY <1>1, <1>3, <2>1, <2>2
<1>5. \A n \in 1..N : \E x \in S : rank[x] = n
  <2>1. rank \in [S -> 1..N]
    BY <1>2
  <2> HIDE DEF rank
  <2>2. rank \in Injection(S, 1..N)
    BY <1>4, <2>1 DEF Injection, IsInjective
  <2>3. IsFiniteSet(1..N) /\ Cardinality(1..N) = N
    BY <1>1, FS_Interval
  <2>4. rank \in Surjection(S, 1..N)
    BY <2>2, <2>3, FS_Injection
  <2> QED BY <2>4 DEF Surjection
<1>6. \A i \in 1..N : s[i] \in S /\ rank[s[i]] = i
  <2> SUFFICES ASSUME NEW i \in 1..N PROVE s[i] \in S /\ rank[s[i]] = i
    OBVIOUS
  <2>1. \E x \in S : Cardinality(upTo[x]) = i
    BY <1>5
  <2>2. s[i] = CHOOSE x \in S : Cardinality(upTo[x]) = i
    BY DEF OrderBy
  <2>3. s[i] \in S /\ Cardinality(upTo[s[i]]) = i
    BY <2>1, <2>2
  <2> QED BY <2>3
<1>7. DOMAIN s = 1..N /\ s \in Seq(S)
  <2> DEFINE at(i) == CHOOSE x \in S : Cardinality(upTo[x]) = i
  <2>1. s = [i \in 1..N |-> at(i)]
    BY DEF OrderBy
  <2> HIDE DEF s, at
  <2>2. \A i \in 1..N : at(i) \in S
    BY <1>6, <2>1
  <2>3. s \in [1..N -> S]
    BY <2>1, <2>2
  <2> QED BY <1>1, <2>3
<1>8. ASSUME NEW i \in 1..N, NEW j \in 1..N, i < j PROVE s[i] \in upTo[s[j]] /\ s[i] # s[j]
  <2>1. s[i] \in S /\ s[j] \in S /\ rank[s[i]] = i /\ rank[s[j]] = j
    BY <1>6
  <2>2. s[i] \in upTo[s[j]] \/ s[j] \in upTo[s[i]]
    BY <2>1 DEF Ordering
  <2> HIDE DEF rank, s
  <2>3. s[i] # s[j]
    BY <1>8, <2>1
  <2>4. ~(s[j] \in upTo[s[i]])
    BY <1>1, <1>3, <1>8, <2>1, <2>3
  <2> QED BY <2>2, <2>3, <2>4
<1>9. ASSUME NEW x \in S PROVE rank[x] \in 1..N /\ s[rank[x]] = x
  <2>1. rank[x] \in 1..N
    BY <1>2
  <2>2. s[rank[x]] \in S /\ rank[s[rank[x]]] = rank[x]
    BY <1>6, <2>1
  <2> HIDE DEF rank, s
  <2> QED BY <1>4, <2>1, <2>2
<1>10. \A x \in S : rank[x] = Cardinality(upTo[x])
  OBVIOUS
<1> HIDE DEF rank, s
<1>11. InOrderOf(s, S, upTo)
  BY <1>1, <1>6, <1>7, <1>8, <1>9, <1>10 DEF InOrderOf
<1> QED BY <1>11 DEF s

\* Numbers in ascending order, each once; the numbers 1..n are their own places.
LEMMA AscendingIs ==
  ASSUME NEW S \in SUBSET Nat, IsFiniteSet(S)
  PROVE  /\ Cardinality(S) \in Nat /\ DOMAIN Ascending(S) = 1..Cardinality(S)
         /\ Ascending(S) \in Seq(S)
         /\ \A i \in DOMAIN Ascending(S) : Ascending(S)[i] \in S
         /\ \A x \in S : \E i \in DOMAIN Ascending(S) : Ascending(S)[i] = x
         /\ \A i, j \in DOMAIN Ascending(S) : i < j => Ascending(S)[i] < Ascending(S)[j]
<1> DEFINE upTo == [x \in S |-> {y \in S : y <= x}]
           s == OrderBy(S, upTo)
<1>1. Ordering(S, upTo)
  <2>1. \A x \in S : \A y : y \in upTo[x] <=> y \in S /\ y <= x
    OBVIOUS
  <2>2. \A x \in S : x \in Nat
    OBVIOUS
  <2> HIDE DEF upTo
  <2>3. \A x \in S : x \in upTo[x] /\ \A y \in upTo[x] : y \in S
    BY <2>1, <2>2
  <2>4. \A x, y \in S : x \in upTo[y] \/ y \in upTo[x]
    BY <2>1, <2>2
  <2>5. ASSUME NEW x \in S, NEW y \in S, x \in upTo[y], NEW z \in upTo[x] PROVE z \in upTo[y]
    <3>1. x <= y /\ z \in S /\ z <= x
      BY <2>1, <2>5
    <3>2. x \in Nat /\ y \in Nat /\ z \in Nat
      BY <2>2, <3>1
    <3>3. z <= y
      BY <3>1, <3>2
    <3> QED BY <2>1, <3>1, <3>3
  <2>6. ASSUME NEW x \in S, NEW y \in S, x \in upTo[y], y \in upTo[x] PROVE x = y
    <3>1. x <= y /\ y <= x /\ x \in Nat /\ y \in Nat
      BY <2>1, <2>2, <2>6
    <3> QED BY <3>1
  <2> QED BY <2>3, <2>4, <2>5, <2>6 DEF Ordering
<1>2. InOrderOf(s, S, upTo)
  BY <1>1, Ordered
<1>3. \A x, y \in S : x \in upTo[y] => x <= y
  OBVIOUS
<1> HIDE DEF s, upTo
<1>4. /\ Cardinality(S) \in Nat /\ DOMAIN s = 1..Cardinality(S) /\ s \in Seq(S)
      /\ \A i \in DOMAIN s : s[i] \in S
      /\ \A x \in S : \E i \in DOMAIN s : s[i] = x
  BY <1>2 DEF InOrderOf
<1>5. ASSUME NEW i \in DOMAIN s, NEW j \in DOMAIN s, i < j PROVE s[i] < s[j]
  <2>1. s[i] \in upTo[s[j]] /\ s[i] # s[j]
    BY <1>2, <1>5 DEF InOrderOf
  <2>2. s[i] \in S /\ s[j] \in S /\ s[i] <= s[j]
    BY <1>3, <1>4, <2>1
  <2>3. s[i] \in Nat /\ s[j] \in Nat
    BY <2>2
  <2> QED BY <2>1, <2>2, <2>3
<1>6. Ascending(S) = s
  BY DEF Ascending, s, upTo
<1> QED BY <1>4, <1>5, <1>6

\* The first n numbers in ascending order.
LEMMA AscendingFrom1 ==
  ASSUME NEW n \in Nat
  PROVE  Ascending(1..n) = [i \in 1..n |-> i]
<1> DEFINE S == 1..n
           upTo == [x \in S |-> {y \in S : y <= x}]
           s == OrderBy(S, upTo)
<1>1. IsFiniteSet(S) /\ Cardinality(S) = n
  BY FS_Interval
<1>2. ASSUME NEW i \in S PROVE Cardinality(upTo[i]) = i
  <2>1. upTo[i] = 1..i
    OBVIOUS
  <2>2. Cardinality(1..i) = i
    BY FS_Interval
  <2> QED BY <2>1, <2>2
<1>3. \A i \in S : s[i] = CHOOSE x \in S : Cardinality(upTo[x]) = i
  BY <1>1 DEF OrderBy
<1>4. DOMAIN s = S /\ s = [i \in S |-> s[i]]
  <2> HIDE DEF upTo, S
  <2> QED BY <1>1 DEF OrderBy, S
<1> HIDE DEF s, upTo, S
<1>5. \A i \in S : s[i] = i
  BY <1>2, <1>3
<1>6. s = [i \in S |-> i]
  BY <1>4, <1>5
<1>7. Ascending(S) = s
  BY DEF Ascending, s, upTo
<1> QED BY <1>6, <1>7 DEF S

-----------------------------------------------------------------------------
(* What readers of the log rely on.                                        *)

\* The greater of two numbers.
LEMMA MaxOfTwo ==
  ASSUME NEW a \in Nat, NEW b \in Nat
  PROVE  /\ MaxOrZero({a, b}) \in {a, b}
         /\ a <= MaxOrZero({a, b}) /\ b <= MaxOrZero({a, b})
<1>1. CASE a <= b
  <2>1. {a, b} \in SUBSET (0..b)
    BY <1>1
  <2> QED BY <2>1, MaxOrZeroBound
<1>2. CASE b <= a
  <2>1. {a, b} \in SUBSET (0..a)
    BY <1>2
  <2> QED BY <2>1, MaxOrZeroBound
<1> QED BY <1>1, <1>2

\* The highest position there is.
LEMMA HeadBounds ==
  ASSUME NEW d, NEW h, Numbered(d, h)
  PROVE  /\ HeadPosition(d) \in Nat /\ HeadPosition(d) <= d.autoinc
         /\ \A row \in d.events : row.pos <= HeadPosition(d)
<1>1. d.autoinc \in Nat /\ Positions(d.events) \in SUBSET (0..d.autoinc)
  BY DEF Numbered, Tables, Dense, Positions, Row
<1>2. \A row \in d.events : row.pos \in Positions(d.events)
  BY DEF Positions
<1> DEFINE P == Positions(d.events)
<1> HIDE DEF P
<1>3. MaxOrZero(P) \in 0..d.autoinc /\ \A p \in P : p <= MaxOrZero(P)
  BY <1>1, MaxOrZeroBound DEF P
<1> QED BY <1>1, <1>2, <1>3 DEF HeadPosition, P

\* A page is what is wanted above the cursor, the lowest of it, and all of it if
\* it is short.
LEMMA PageIsLowest ==
  ASSUME NEW d, NEW h, Numbered(d, h), NEW c \in Nat, NEW K, NEW T, NEW n \in Nat
  PROVE  LET S == Selected(d, c, K, T)
             page == SelectStored(d, c, K, T, n)
         IN  /\ page \subseteq S /\ S \subseteq d.events /\ d.events \subseteq Row
             /\ \A row \in S \ page : \A q \in page : q.pos < row.pos
             /\ Cardinality(page) # n => page = S
             /\ \A x, y \in S : x.pos = y.pos => x = y
<1> DEFINE S == Selected(d, c, K, T)
<1>1. S \subseteq d.events /\ d.events \subseteq Row /\ IsFiniteSet(d.events)
  BY DEF Selected, Numbered
<1>2. \A x, y \in S : x.pos = y.pos => x = y
  BY <1>1 DEF Numbered, Dense
<1>3. IsFiniteSet(S) /\ S \subseteq Row
  BY <1>1, FS_Subset
<1>4. Lowest(S, n) \subseteq S
  BY DEF Lowest
<1> HIDE DEF S
<1>5. \A row \in S \ Lowest(S, n) : \A q \in Lowest(S, n) : q.pos < row.pos
  BY <1>3, LowestIsLowest
<1>6. Cardinality(Lowest(S, n)) # n => Lowest(S, n) = S
  BY <1>2, <1>3, LowestOfFew
<1>7. SelectStored(d, c, K, T, n) = Lowest(S, n)
  BY DEF SelectStored, S
<1> QED BY <1>1, <1>2, <1>4, <1>5, <1>6, <1>7 DEF S

\* The highest mark of the ledger.
LEMMA WatermarkBounds ==
  ASSUME NEW d \in Tables, \A i \in DOMAIN d.ledger : d.ledger[i] <= d.autoinc
  PROVE  /\ Watermark(d) \in Nat /\ Watermark(d) <= d.autoinc
         /\ \A i \in DOMAIN d.ledger : d.ledger[i] <= Watermark(d)
         /\ Watermark(d) # 0 => \E i \in DOMAIN d.ledger : Watermark(d) = d.ledger[i]
<1> DEFINE L == {d.ledger[i] : i \in DOMAIN d.ledger}
<1>1. d.autoinc \in Nat /\ \A i \in DOMAIN d.ledger : d.ledger[i] \in Nat
  BY DEF Tables
<1>2. L \in SUBSET (0..d.autoinc)
  BY <1>1
<1>3. \A i \in DOMAIN d.ledger : d.ledger[i] \in L
  OBVIOUS
<1>4. \A p \in L : \E i \in DOMAIN d.ledger : p = d.ledger[i]
  OBVIOUS
<1> HIDE DEF L
<1>5. /\ MaxOrZero(L) \in 0..d.autoinc /\ \A p \in L : p <= MaxOrZero(L)
      /\ L # {} => MaxOrZero(L) \in L
  BY <1>1, <1>2, MaxOrZeroBound
<1>6. L = {} => MaxOrZero(L) = 0
  BY DEF MaxOrZero
<1>7. Watermark(d) = MaxOrZero(L)
  BY DEF Watermark, L
<1> QED BY <1>1, <1>3, <1>4, <1>5, <1>6, <1>7

\* What a plan reaches is a position that was given.
LEMMA TopIsGiven ==
  ASSUME NEW d, NEW h, Numbered(d, h), NEW plan
  PROVE  HighestMatching(d, plan) <= d.autoinc
<1> DEFINE P == Positions(Matching(d, plan))
<1>1. d.autoinc \in Nat /\ P \in SUBSET (0..d.autoinc)
  BY DEF Numbered, Tables, Dense, Positions, Row, Matching
<1> HIDE DEF P
<1>2. MaxOrZero(P) \in 0..d.autoinc
  BY <1>1, MaxOrZeroBound
<1> QED BY <1>1, <1>2 DEF HighestMatching, P

\* The tables e are those of d and the rows of a run, which land above what d had.
RunLands(d, h, run, e, rows) ==
  /\ Numbered(e, h \cup rows) /\ e.events = d.events \cup rows
  /\ Len(run) \in Nat /\ e.autoinc = d.autoinc + Len(run) /\ e.autoinc >= d.autoinc
  /\ \A row \in rows : row.pos > d.autoinc
  /\ e.ckpt = d.ckpt /\ e.ledger = d.ledger /\ e.receipts = d.receipts

\* A run that is appended: the history stays dense, and new rows land above it.
LEMMA RunWritten ==
  ASSUME NEW d, NEW h, Numbered(d, h), NEW s \in Streams, NEW run \in Seq(Event)
  PROVE  RunLands(d, h, run, AppendRun(d, s, run), RunRows(d, s, run))
<1>1. IsRun(run)
  BY EventsAreRun
<1>2. d \in Tables
  BY DEF Numbered
<1> DEFINE e == AppendRun(d, s, run)
           rows == RunRows(d, s, run)
<1>3. e.ledger = d.ledger /\ e.ckpt = d.ckpt
  BY <1>2 DEF AppendRun, SetNextSeq, Tables
<1>4. /\ Numbered(e, h \cup rows) /\ e.events = d.events \cup rows
      /\ e.receipts = d.receipts
      /\ e.autoinc >= d.autoinc /\ e.autoinc = d.autoinc + Len(run)
      /\ \A row \in rows : row.pos > d.autoinc
  <2>1. Lengthened(d, h, run, e, rows)
    BY <1>1, NumberedAppend
  <2> HIDE DEF e, rows
  <2> QED BY <2>1 DEF Lengthened
<1>5. Len(run) \in Nat
  OBVIOUS
<1> HIDE DEF e, rows
<1>6. RunLands(d, h, run, e, rows)
  BY <1>3, <1>4, <1>5 DEF RunLands
<1> QED BY <1>6 DEF e, rows

-----------------------------------------------------------------------------
(* The ledger and what is gone.                                            *)

\* A row that is gone is at or below a mark of the ledger.
LedgerOK(d, h) ==
  /\ \A i \in DOMAIN d.ledger : d.ledger[i] <= d.autoinc
  /\ \A row \in h \ d.events : \E i \in DOMAIN d.ledger : row.pos <= d.ledger[i]

\* An append does not touch the ledger.
LEMMA LedgerAppended ==
  ASSUME NEW d, NEW h, Numbered(d, h), LedgerOK(d, h), NEW s \in Streams, NEW run \in Seq(Event)
  PROVE  LedgerOK(AppendRun(d, s, run), h \cup RunRows(d, s, run))
<1> DEFINE e == AppendRun(d, s, run)
           rows == RunRows(d, s, run)
<1>1. d.autoinc \in Nat /\ \A i \in DOMAIN d.ledger : d.ledger[i] \in Nat
  BY DEF Numbered, Tables
<1>2. /\ Numbered(e, h \cup rows) /\ e.events = d.events \cup rows
      /\ Len(run) \in Nat /\ e.autoinc = d.autoinc + Len(run) /\ e.autoinc >= d.autoinc
      /\ e.ckpt = d.ckpt /\ e.ledger = d.ledger /\ e.receipts = d.receipts
  <2>1. RunLands(d, h, run, e, rows)
    BY RunWritten
  <2> HIDE DEF e, rows
  <2> QED BY <2>1 DEF RunLands
<1> HIDE DEF e, rows
<1>3. \A i \in DOMAIN e.ledger : e.ledger[i] <= e.autoinc
  BY <1>1, <1>2 DEF LedgerOK
<1>4. LedgerOK(e, h \cup rows)
  BY <1>2, <1>3 DEF LedgerOK
<1> QED BY <1>4 DEF e, rows

\* A removal is told by the ledger.
LEMMA LedgerTrimmed ==
  ASSUME NEW d, NEW h, Numbered(d, h), LedgerOK(d, h), NEW p
  PROVE  LedgerOK(RemoveMatching(d, p), h)
<1> DEFINE e == RemoveMatching(d, p)
           top == HighestMatching(d, p)
<1>1. d \in Tables /\ d.autoinc \in Nat /\ d.ledger \in Seq(Nat)
  BY DEF Numbered, Tables
<1>2. /\ e.events = d.events \ Matching(d, p) /\ e.autoinc = d.autoinc
      /\ e.ledger = Append(d.ledger, top)
  BY NumberedRemove
<1>3. top \in Nat /\ \A row \in Matching(d, p) : row.pos <= top
  BY <1>1, HighestBounds
<1>4. top <= d.autoinc
  BY TopIsGiven
<1> HIDE DEF e, top
<1>5. /\ DOMAIN e.ledger = 1..(Len(d.ledger) + 1) /\ DOMAIN d.ledger = 1..Len(d.ledger)
      /\ e.ledger[Len(d.ledger) + 1] = top /\ Len(d.ledger) \in Nat
      /\ \A i \in DOMAIN d.ledger : e.ledger[i] = d.ledger[i]
  BY <1>1, <1>2, <1>3
<1>6. \A i \in DOMAIN e.ledger : e.ledger[i] <= e.autoinc
  BY <1>2, <1>4, <1>5 DEF LedgerOK
<1>7. ASSUME NEW row \in h \ e.events
      PROVE  \E i \in DOMAIN e.ledger : row.pos <= e.ledger[i]
  <2>1. CASE row \in Matching(d, p)
    <3>1. Len(d.ledger) + 1 \in DOMAIN e.ledger
      BY <1>5
    <3> QED BY <1>3, <1>5, <2>1, <3>1
  <2>2. CASE row \notin Matching(d, p)
    <3>1. PICK i \in DOMAIN d.ledger : row.pos <= d.ledger[i]
      BY <1>2, <2>2 DEF LedgerOK
    <3>2. i \in DOMAIN e.ledger
      BY <1>5
    <3> QED BY <1>5, <3>1, <3>2
  <2> QED BY <2>1, <2>2
<1>8. LedgerOK(e, h)
  BY <1>6, <1>7 DEF LedgerOK
<1> QED BY <1>8 DEF e

-----------------------------------------------------------------------------
(* The channels of the logs H: values n, and commits u not published yet.  *)

\* No channel tells of a position that was not given.
Heard(H, n, u, top) ==
  /\ n \in [H -> Nat] /\ u \in [H -> SUBSET Nat]
  /\ \A h \in H : n[h] <= top /\ \A p \in u[h] : p <= top

\* A commit by somebody else.
LEMMA HeardRises ==
  ASSUME NEW H, NEW n, NEW u, NEW top \in Nat, NEW t \in Nat, t >= top, Heard(H, n, u, top)
  PROVE  Heard(H, n, u, t)
BY DEF Heard

\* A commit whose caller will publish it.
LEMMA HeardCommit ==
  ASSUME NEW H, NEW n, NEW u, NEW top \in Nat, NEW t \in Nat, t >= top, Heard(H, n, u, top),
         NEW h \in H
  PROVE  Heard(H, n, [u EXCEPT ![h] = u[h] \cup {t}], t)
<1> DEFINE v == [u EXCEPT ![h] = u[h] \cup {t}]
<1>1. n \in [H -> Nat] /\ u \in [H -> SUBSET Nat] /\ v \in [H -> SUBSET Nat]
  BY DEF Heard
<1>2. ASSUME NEW k \in H PROVE n[k] <= t /\ \A q \in v[k] : q <= t
  <2>1. n[k] <= top /\ n[k] \in Nat /\ \A q \in u[k] : q <= top /\ q \in Nat
    BY <1>1 DEF Heard
  <2>2. \A q \in v[k] : q \in u[k] \/ q = t
    BY <1>1
  <2> HIDE DEF v
  <2> QED BY <2>1, <2>2
<1> HIDE DEF v
<1>3. Heard(H, n, v, t)
  BY <1>1, <1>2 DEF Heard
<1> QED BY <1>3 DEF v

\* The caller publishes, or never does.
LEMMA HeardTold ==
  ASSUME NEW H, NEW n, NEW u, NEW top \in Nat, Heard(H, n, u, top), NEW h \in H, NEW p \in u[h],
         NEW v, v = [u EXCEPT ![h] = u[h] \ {p}],
         NEW m, m = n \/ m = [n EXCEPT ![h] = MaxOrZero({n[h], p})]
  PROVE  Heard(H, m, v, top)
<1>1. n \in [H -> Nat] /\ u \in [H -> SUBSET Nat] /\ v \in [H -> SUBSET Nat]
  BY DEF Heard
<1>2. n[h] \in Nat /\ p \in Nat /\ n[h] <= top /\ p <= top
  BY <1>1 DEF Heard
<1>3. PICK g \in Nat : g = MaxOrZero({n[h], p}) /\ g <= top
  BY <1>2, MaxOfTwo
<1>4. \A k \in H : n[k] <= top /\ \A q \in v[k] : q <= top
  BY <1>1 DEF Heard
<1>5. m = n \/ m = [n EXCEPT ![h] = g]
  BY <1>3
<1>6. m \in [H -> Nat] /\ \A k \in H : m[k] <= top
  BY <1>1, <1>3, <1>4, <1>5
<1> QED BY <1>1, <1>4, <1>6 DEF Heard

-----------------------------------------------------------------------------
(* The chain of receipts that vouch, and its end.                          *)

\* What the walk is given.
Entry == [id : Nat, from : Nat, thr : Nat]

EndsOf(R) == {0} \cup {r.thr : r \in R}

ClosedUnder(R, e) == \A r \in R : r.from <= e => r.thr <= e

\* The end of the chain of some receipts.
EndOf(R) ==
  CHOOSE e \in EndsOf(R) : ClosedUnder(R, e) /\ \A f \in EndsOf(R) : ClosedUnder(R, f) => e <= f

\* The chain's end is an end nothing extends, and lies at or below every number
\* nothing extends.
LEMMA EndIsLeast ==
  ASSUME NEW n \in Nat, NEW R \in SUBSET Entry, \A r \in R : r.thr <= n
  PROVE  /\ EndOf(R) \in EndsOf(R) /\ EndOf(R) \in Nat /\ ClosedUnder(R, EndOf(R))
         /\ \A f \in Nat : ClosedUnder(R, f) => EndOf(R) <= f
<1>1. \A r \in R : r.from \in Nat /\ r.thr \in Nat /\ r.thr <= n
  BY DEF Entry
<1>2. EndsOf(R) \in SUBSET (0..n) /\ 0 \in EndsOf(R) /\ \A r \in R : r.thr \in EndsOf(R)
  BY <1>1 DEF EndsOf
<1> DEFINE E == EndsOf(R)
           G == {e \in E : ClosedUnder(R, e)}
<1> HIDE DEF E
<1>3. MaxOrZero(E) \in E /\ \A e \in E : e <= MaxOrZero(E)
  BY <1>2, MaxOrZeroBound DEF E
<1>4. MaxOrZero(E) \in G
  BY <1>2, <1>3 DEF ClosedUnder, E
<1>5. PICK low \in G : \A f \in G : ~(<<f, low>> \in OpToRel(<, Nat))
  <2>1. G \subseteq Nat /\ G # {}
    BY <1>2, <1>4 DEF E
  <2> HIDE DEF G
  <2> QED BY <2>1, NatLessThanWellFounded, WFMin
<1>6. \A f \in G : low <= f
  <2> SUFFICES ASSUME NEW f \in G PROVE low <= f
    OBVIOUS
  <2>1. low \in Nat /\ f \in Nat
    BY <1>2 DEF E
  <2>2. ~(f < low)
    BY <1>5, <2>1 DEF OpToRel
  <2> QED BY <2>1, <2>2
<1>7. \E x \in E : ClosedUnder(R, x) /\ \A f \in E : ClosedUnder(R, f) => x <= f
  BY <1>5, <1>6
<1>8. EndOf(R) = CHOOSE x \in E : ClosedUnder(R, x) /\ \A f \in E : ClosedUnder(R, f) => x <= f
  BY DEF EndOf, E
<1>9. /\ EndOf(R) \in E /\ ClosedUnder(R, EndOf(R))
      /\ \A f \in E : ClosedUnder(R, f) => EndOf(R) <= f
  BY <1>7, <1>8
<1>10. ASSUME NEW f \in Nat, ClosedUnder(R, f) PROVE EndOf(R) <= f
  <2> DEFINE S == {e \in E : e <= f}
             top == MaxOrZero(S)
  <2>1. S \in SUBSET (0..f) /\ 0 \in S
    BY <1>2 DEF E
  <2>2. top \in S /\ \A x \in S : x <= top
    <3> HIDE DEF S
    <3> QED BY <2>1, MaxOrZeroBound
  <2>3. ClosedUnder(R, top)
    <3> SUFFICES ASSUME NEW r \in R, r.from <= top PROVE r.thr <= top
      BY DEF ClosedUnder
    <3>1. top \in Nat /\ top <= f /\ r.from \in Nat /\ r.thr \in E
      BY <2>1, <2>2, <1>1, <1>2 DEF E
    <3>2. r.thr <= f
      BY <3>1, <1>10 DEF ClosedUnder
    <3> QED BY <2>2, <3>1, <3>2
  <2>4. EndOf(R) <= top /\ top <= f /\ top \in Nat /\ EndOf(R) \in Nat
    BY <1>2, <1>9, <2>1, <2>2, <2>3 DEF E
  <2> QED BY <2>4
<1> QED BY <1>2, <1>9, <1>10 DEF E

Capped(d, n) == \A i \in DOMAIN d.receipts : d.receipts[i].thr <= n

Ends(d) == {0} \cup {r.thr : r \in Vouching(d)}

Unextended(d, e) == \A r \in Vouching(d) : r.from <= e => r.thr <= e

\* What a receipt of the tables is made of.
LEMMA ReceiptsAreReceipts ==
  ASSUME NEW d \in Tables, NEW i \in DOMAIN d.receipts
  PROVE  /\ d.receipts[i].from \in Nat /\ d.receipts[i].thr \in Nat
         /\ d.receipts[i].landed \in BOOLEAN /\ d.receipts[i].whole \in BOOLEAN
<1>1. d.receipts \in Seq(Receipt)
  BY DEF Tables
<1>2. d.receipts[i] \in Receipt
  BY <1>1
<1> QED BY <1>2 DEF Receipt

\* A vouching entry is a landed, whole receipt.
LEMMA VouchersAreReceipts ==
  ASSUME NEW d \in Tables, NEW r \in Vouching(d)
  PROVE  \E i \in DOMAIN d.receipts :
           /\ d.receipts[i].landed /\ d.receipts[i].whole
           /\ r.from = d.receipts[i].from /\ r.thr = d.receipts[i].thr
           /\ r.from \in Nat /\ r.thr \in Nat
<1>1. PICK i \in {j \in DOMAIN d.receipts : d.receipts[j].landed /\ d.receipts[j].whole} :
        r = [id |-> i, from |-> d.receipts[i].from, thr |-> d.receipts[i].thr]
  BY DEF Vouching
<1>2. d.receipts[i].from \in Nat /\ d.receipts[i].thr \in Nat
  BY ReceiptsAreReceipts
<1> QED BY <1>1, <1>2

\* They are what the walk takes, and there are finitely many.
LEMMA VouchersAreEntries ==
  ASSUME NEW d \in Tables
  PROVE  Vouching(d) \in SUBSET Entry /\ IsFiniteSet(Vouching(d))
<1> DEFINE l == Len(d.receipts)
           J == {j \in 1..l : d.receipts[j].landed /\ d.receipts[j].whole}
           entry(i) == [id |-> i, from |-> d.receipts[i].from, thr |-> d.receipts[i].thr]
<1>1. l \in Nat /\ DOMAIN d.receipts = 1..l
  BY DEF Tables
<1>2. \A i \in 1..l : i \in Nat /\ d.receipts[i].from \in Nat /\ d.receipts[i].thr \in Nat
  BY <1>1, ReceiptsAreReceipts
<1>3. Vouching(d) = {entry(i) : i \in J}
  BY <1>1 DEF Vouching
<1>4. IsFiniteSet(J)
  <2>1. IsFiniteSet(1..l) /\ J \subseteq 1..l
    BY <1>1, FS_Interval
  <2> HIDE DEF J
  <2> QED BY <2>1, FS_Subset
<1>5. [i \in J |-> entry(i)] \in Surjection(J, {entry(i) : i \in J})
  <2> HIDE DEF J, entry
  <2> QED BY DEF Surjection
<1>6. IsFiniteSet({entry(i) : i \in J})
  <2> HIDE DEF J, entry
  <2> QED BY <1>4, <1>5, FS_Surjection
<1>7. \A i \in J : entry(i) \in Entry
  BY <1>2 DEF Entry
<1> HIDE DEF J, entry
<1> QED BY <1>3, <1>6, <1>7

\* What the tables state is the end of the chain of the receipts that vouch.
LEMMA ThroughIsEnd == ASSUME NEW d PROVE ExportedThrough(d) = EndOf(Vouching(d))
BY DEF ExportedThrough, EndOf, EndsOf, ClosedUnder

\* The chain's end is an end nothing extends, and the lowest of those.
LEMMA ThroughIsLeast ==
  ASSUME NEW d \in Tables, NEW n \in Nat, Capped(d, n)
  PROVE  /\ ExportedThrough(d) \in Nat
         /\ \A f \in Ends(d) : Unextended(d, f) => ExportedThrough(d) <= f
<1>1. \A r \in Vouching(d) : r.from \in Nat /\ r.thr \in Nat /\ r.thr <= n
  BY VouchersAreReceipts DEF Capped
<1>2. Vouching(d) \in SUBSET Entry
  BY VouchersAreEntries
<1>3. ExportedThrough(d) = EndOf(Vouching(d))
  BY ThroughIsEnd
<1>4. /\ EndOf(Vouching(d)) \in Nat
      /\ \A f \in Nat : ClosedUnder(Vouching(d), f) => EndOf(Vouching(d)) <= f
  BY <1>1, <1>2, EndIsLeast
<1>5. Ends(d) \subseteq Nat
  BY <1>1 DEF Ends
<1> QED BY <1>3, <1>4, <1>5 DEF Unextended, ClosedUnder

\* Every position up to the chain's end is in the range of a receipt that vouches.
LEMMA ThroughIsCovered ==
  ASSUME NEW d \in Tables, NEW n \in Nat, Capped(d, n),
         NEW p \in Nat, 1 <= p, p <= ExportedThrough(d)
  PROVE  \E i \in DOMAIN d.receipts :
           /\ d.receipts[i].landed /\ d.receipts[i].whole
           /\ d.receipts[i].from < p /\ p <= d.receipts[i].thr
<1>1. \A r \in Vouching(d) : r.from \in Nat /\ r.thr \in Nat
  BY VouchersAreReceipts
<1>2. SUFFICES ASSUME \A r \in Vouching(d) : ~(r.from < p /\ p <= r.thr) PROVE FALSE
  <2>1. PICK r \in Vouching(d) : r.from < p /\ p <= r.thr
    BY <1>2
  <2> QED BY <2>1, VouchersAreReceipts
<1> DEFINE S == {e \in Ends(d) : e < p}
           top == MaxOrZero(S)
<1>3. S \in SUBSET (0..p) /\ 0 \in S
  BY <1>1 DEF Ends
<1>4. top \in S /\ \A e \in S : e <= top
  <2> HIDE DEF S
  <2> QED BY <1>3, MaxOrZeroBound
<1>5. Unextended(d, top)
  <2> SUFFICES ASSUME NEW r \in Vouching(d), r.from <= top PROVE r.thr <= top
    BY DEF Unextended
  <2>1. top \in Nat /\ top < p /\ r.from \in Nat /\ r.thr \in Nat
    BY <1>3, <1>4, <1>1
  <2>2. r.from < p
    BY <2>1
  <2>3. r.thr < p
    BY <2>1, <2>2, <1>2
  <2>4. r.thr \in S
    BY <2>3 DEF Ends
  <2> QED BY <2>4, <1>4
<1>6. ExportedThrough(d) <= top /\ ExportedThrough(d) \in Nat /\ top \in Nat /\ top < p
  BY <1>3, <1>4, <1>5, ThroughIsLeast
<1> QED BY <1>6
\* Receipts end somewhere.
LEMMA TablesAreCapped == ASSUME NEW d \in Tables PROVE \E n \in Nat : Capped(d, n)
<1> DEFINE J == DOMAIN d.receipts
           thr == [i \in J |-> d.receipts[i].thr]
           T == {thr[i] : i \in J}
<1>1. IsFiniteSet(J)
  <2>1. Len(d.receipts) \in Nat /\ J = 1..Len(d.receipts)
    BY DEF Tables
  <2> QED BY <2>1, FS_Interval
<1>2. T \in SUBSET Nat
  BY ReceiptsAreReceipts
<1>3. thr \in Surjection(J, T)
  <2> HIDE DEF J
  <2> QED BY DEF Surjection
<1>4. \A i \in J : d.receipts[i].thr \in T
  OBVIOUS
<1> HIDE DEF T, thr, J
<1>5. IsFiniteSet(T)
  BY <1>1, <1>3, FS_Surjection
<1>6. PICK n \in Nat : \A x \in T : x <= n
  BY <1>2, <1>5, FiniteBound
<1> QED BY <1>4, <1>6 DEF Capped, J

\* Each range of positions that a receipt of d vouches for, one of e vouches for too.
VouchesAll(d, e) ==
  \A r \in Vouching(d) : \E q \in Vouching(e) : q.from = r.from /\ q.thr = r.thr

\* Where more vouches, the chain reaches no less far.
LEMMA MoreVouches ==
  ASSUME NEW d \in Tables, NEW e \in Tables, VouchesAll(d, e)
  PROVE  /\ ExportedThrough(d) \in Nat /\ ExportedThrough(e) \in Nat
         /\ ExportedThrough(d) <= ExportedThrough(e)
<1>1. PICK n \in Nat : Capped(d, n)
  BY TablesAreCapped
<1>2. PICK m \in Nat : Capped(e, m)
  BY TablesAreCapped
<1>3. (\A r \in Vouching(d) : r.thr <= n) /\ \A r \in Vouching(e) : r.thr <= m
  BY <1>1, <1>2, VouchersAreReceipts DEF Capped
<1>4. Vouching(d) \in SUBSET Entry /\ Vouching(e) \in SUBSET Entry
  BY VouchersAreEntries
<1>5. /\ EndOf(Vouching(d)) \in Nat
      /\ \A f \in Nat : ClosedUnder(Vouching(d), f) => EndOf(Vouching(d)) <= f
  BY <1>3, <1>4, EndIsLeast
<1>6. EndOf(Vouching(e)) \in Nat /\ ClosedUnder(Vouching(e), EndOf(Vouching(e)))
  BY <1>3, <1>4, EndIsLeast
<1>7. ClosedUnder(Vouching(d), EndOf(Vouching(e)))
  BY <1>6 DEF ClosedUnder, VouchesAll
<1> QED BY <1>5, <1>6, <1>7, ThroughIsEnd

=============================================================================
