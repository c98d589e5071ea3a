--------------------------- MODULE Catalog_proofs ---------------------------
(***************************************************************************)
(* A stream on the file against one in memory (`MemAgrees`), and the five  *)
(* listings, paged through while the log is written (`ListingIsTrue`).     *)
(***************************************************************************)
EXTENDS Catalog, LogTables_proofs

-----------------------------------------------------------------------------
(* A stream, twice.                                                        *)

MemEvent == [seq : Nat, kind : Kinds]

\* Retention has taken nothing of the stream.
Untouched(d, h, s) == \A r \in h : r.stream = s => r \in d.events

\* The vector numbers its events by their places, and holds what an untouched
\* stream does.
Mirrors(d, h, s, m) ==
  /\ m \in Seq(MemEvent) /\ \A i \in DOMAIN m : m[i].seq = i
  /\ Untouched(d, h, s) =>
       /\ Len(m) = d.next[s] - 1
       /\ \A r \in h : r.stream = s => r.seq \in DOMAIN m /\ m[r.seq].kind = r.kind

\* The places of the vector a read selects, and what it then finds on the file.
ReadsPlaces(d, s, m, K, from) ==
  LET C == {i \in DOMAIN m : m[i].seq >= from /\ m[i].kind \in K}
      o == Ascending(C)
  IN  /\ BySeq({r \in StreamRows(d, s, K) : r.seq >= from}) = [n \in DOMAIN o |-> m[o[n]]]
      /\ Cardinality(C) \in Nat /\ Cardinality(C) <= Len(m)
      /\ DOMAIN o = 1..Cardinality(C) /\ \A n \in DOMAIN o : o[n] \in DOMAIN m

\* What is selected of an untouched stream is what the vector has at those places.
LEMMA SelectedIs ==
  ASSUME NEW d, NEW h, Numbered(d, h), NEW s \in Streams, NEW m, Mirrors(d, h, s, m),
         Untouched(d, h, s), NEW K \in SUBSET Kinds, NEW from \in Nat
  PROVE  ReadsPlaces(d, s, m, K, from)
<1> DEFINE R == {r \in StreamRows(d, s, K) : r.seq >= from}
           C == {i \in DOMAIN m : m[i].seq >= from /\ m[i].kind \in K}
           o == Ascending(C)
<1>1. /\ d \in Tables /\ h \subseteq Row /\ d.events \subseteq h /\ Dense(h, d.autoinc, d.next)
      /\ d.next[s] \in Nat
  BY DEF Numbered, Tables
<1>2. /\ m \in Seq(MemEvent) /\ \A i \in DOMAIN m : m[i].seq = i
      /\ Len(m) = d.next[s] - 1
      /\ \A r \in h : r.stream = s => r.seq \in DOMAIN m /\ m[r.seq].kind = r.kind
  BY DEF Mirrors
<1>3. Len(m) \in Nat /\ DOMAIN m = 1..Len(m)
  BY <1>2
<1>4. \A r \in R : /\ r \in h /\ r.stream = s /\ r.kind \in K /\ r.seq >= from
                   /\ r.seq \in DOMAIN m /\ m[r.seq].kind = r.kind
  BY <1>1, <1>2 DEF StreamRows
<1>5. \A i \in C : \E r \in R : r.seq = i
  <2> SUFFICES ASSUME NEW i \in C PROVE \E r \in R : r.seq = i
    OBVIOUS
  <2>1. i \in 1..(d.next[s] - 1) /\ i >= from /\ m[i].kind \in K
    BY <1>2, <1>3
  <2>2. PICK r \in h : r.stream = s /\ r.seq = i
    BY <1>1, <2>1 DEF Dense
  <2>3. r \in d.events /\ m[r.seq].kind = r.kind
    BY <1>2, <2>2 DEF Untouched
  <2>4. r \in R
    BY <2>1, <2>2, <2>3 DEF StreamRows
  <2> QED BY <2>2, <2>4
<1>6. {r.seq : r \in R} = C
  <2>1. \A r \in R : r.seq \in C
    BY <1>2, <1>4
  <2> HIDE DEF R, C
  <2> QED BY <1>5, <2>1
<1>7. \A i \in C : Read(CHOOSE r \in R : r.seq = i) = m[i]
  <2> SUFFICES ASSUME NEW i \in C PROVE Read(CHOOSE r \in R : r.seq = i) = m[i]
    OBVIOUS
  <2> DEFINE r == CHOOSE q \in R : q.seq = i
  <2>1. i \in DOMAIN m
    OBVIOUS
  <2>2. r \in R /\ r.seq = i
    BY <1>5
  <2> HIDE DEF r, R, C
  <2>3. m[i].seq = i /\ m[i].kind = r.kind /\ m[i] \in MemEvent
    BY <1>2, <1>4, <2>1, <2>2
  <2>4. m[i] = [seq |-> r.seq, kind |-> r.kind]
    BY <2>2, <2>3 DEF MemEvent
  <2>5. Read(r) = m[i]
    BY <2>4 DEF Read
  <2> QED BY <2>5 DEF r
<1>8. C \in SUBSET Nat /\ C \subseteq 1..Len(m) /\ IsFiniteSet(C)
      /\ Cardinality(C) \in Nat /\ Cardinality(C) <= Len(m)
  <2>1. C \in SUBSET (1..Len(m))
    BY <1>3
  <2> HIDE DEF C
  <2>0. \A n \in Nat : IsFiniteSet(1..n) /\ Cardinality(1..n) = n
    BY FS_Interval
  <2>2. IsFiniteSet(1..Len(m)) /\ Cardinality(1..Len(m)) = Len(m)
    BY <1>3, <2>0
  <2>3. IsFiniteSet(C) /\ Cardinality(C) <= Len(m)
    BY <2>1, <2>2, FS_Subset
  <2> QED BY <2>1, <2>3, FS_CardinalityType
<1>9. DOMAIN o = 1..Cardinality(C) /\ \A n \in DOMAIN o : o[n] \in C
  <2> HIDE DEF C
  <2> QED BY <1>8, AscendingIs
<1>10. BySeq(R) = [n \in DOMAIN o |-> m[o[n]]]
  <2> DEFINE X == {r.seq : r \in R}
             at(i) == Read(CHOOSE r \in R : r.seq = i)
             p == Ascending(X)
  <2>1. BySeq(R) = [n \in DOMAIN p |-> at(p[n])]
    BY DEF BySeq
  <2>2. p = o
    BY <1>6
  <2>3. \A i \in C : at(i) = m[i]
    BY <1>7
  <2> HIDE DEF at, p, o, R, C
  <2>4. \A n \in DOMAIN o : at(o[n]) = m[o[n]]
    BY <1>9, <2>3
  <2>5. [n \in DOMAIN o |-> at(o[n])] = [n \in DOMAIN o |-> m[o[n]]]
    BY <2>4
  <2> QED BY <2>1, <2>2, <2>5
<1>11. \A n \in DOMAIN o : o[n] \in DOMAIN m
  BY <1>3, <1>8, <1>9
<1> QED BY <1>8, <1>9, <1>10, <1>11 DEF ReadsPlaces

\* Numbers a column holds are stored as they are.
LEMMA Stored == ASSUME NEW n \in Nat, n <= MaxStored PROVE AsStored(n) = n
BY DEF AsStored

\* The first so many of a sequence given by its places.
LEMMA FirstOf ==
  ASSUME NEW n \in Nat, NEW f, DOMAIN f = 1..n, NEW k \in 0..n
  PROVE  SubSeq([i \in 1..n |-> f[i]], 1, k) = [i \in 1..k |-> f[i]]
OBVIOUS

\* A read of an untouched stream and of the vector answer the same.
LEMMA ReadsAlike ==
  ASSUME NEW d, NEW h, Numbered(d, h), NEW s \in Streams, NEW m, Mirrors(d, h, s, m),
         Untouched(d, h, s), NEW K \in SUBSET Kinds, NEW from \in Nat, from <= MaxStored,
         NEW limit \in U64, Len(m) <= MaxStored
  PROVE  SelectStream(d, s, K, from, limit) = Project(m, K, from, limit)
<1> DEFINE C == {i \in DOMAIN m : m[i].seq >= from /\ m[i].kind \in K}
           o == Ascending(C)
           N == Cardinality(C)
           q == [n \in DOMAIN o |-> m[o[n]]]
           k == IF limit < Len(o) THEN limit ELSE Len(o)
<1>1. /\ BySeq({r \in StreamRows(d, s, K) : r.seq >= from}) = q
      /\ N \in Nat /\ N <= Len(m) /\ DOMAIN o = 1..N
  <2>1. ReadsPlaces(d, s, m, K, from)
    BY SelectedIs
  <2> QED BY <2>1 DEF ReadsPlaces
<1>2. MaxStored \in Nat /\ limit \in Nat /\ Len(m) \in Nat
  BY StoreAssumption DEF U64, Mirrors
<1>3. SelectStream(d, s, K, from, limit) = Take(q, ClampLimit(limit))
  BY <1>1, Stored DEF SelectStream
<1>4. Project(m, K, from, limit) = [n \in 1..k |-> m[o[n]]]
  BY DEF Project
<1>5. Len(o) = N /\ Len(q) = N /\ DOMAIN q = 1..N
  <2> HIDE DEF C, N
  <2>1. o \in [1..N -> {o[n] : n \in 1..N}]
    BY <1>1 DEF Ascending, OrderBy, N
  <2> HIDE DEF o
  <2>2. q \in [1..N -> {q[n] : n \in 1..N}]
    BY <1>1
  <2> QED BY <1>1, <2>1, <2>2
<1> HIDE DEF C, o, N
<1>6. CASE limit <= MaxStored
  <2>1. Take(q, ClampLimit(limit)) = SubSeq(q, 1, k)
    BY <1>2, <1>5, <1>6 DEF Take, ClampLimit
  <2>2. k \in 0..N
    BY <1>1, <1>2, <1>5
  <2>3. SubSeq(q, 1, k) = [n \in 1..k |-> q[n]]
    <3> HIDE DEF k, q
    <3> QED BY <1>1, <1>5, <2>2
  <2>4. \A n \in 1..k : q[n] = m[o[n]]
    BY <1>1, <2>2
  <2> HIDE DEF q, k
  <2> QED BY <1>3, <1>4, <2>1, <2>3, <2>4
<1>7. CASE limit > MaxStored
  <2>1. Take(q, ClampLimit(limit)) = q
    BY <1>2, <1>7 DEF Take, ClampLimit
  <2>2. k = N
    BY <1>1, <1>2, <1>5, <1>7
  <2>3. [n \in 1..k |-> m[o[n]]] = q
    BY <1>1, <2>2
  <2> QED BY <1>3, <1>4, <2>1, <2>3
<1> QED BY <1>2, <1>6, <1>7

\* All of an untouched stream is the vector.
LEMMA WholeIs ==
  ASSUME NEW d, NEW h, Numbered(d, h), NEW s \in Streams, NEW m, Mirrors(d, h, s, m),
         Untouched(d, h, s)
  PROVE  BySeq(StreamRows(d, s, Kinds)) = m
<1> DEFINE C == {i \in DOMAIN m : m[i].seq >= 0 /\ m[i].kind \in Kinds}
           o == Ascending(C)
           R == StreamRows(d, s, Kinds)
<1>1. ReadsPlaces(d, s, m, Kinds, 0)
  BY SelectedIs
<1>2. m \in Seq(MemEvent) /\ Len(m) \in Nat /\ DOMAIN m = 1..Len(m)
  BY DEF Mirrors
<1>3. {r \in R : r.seq >= 0} = R
  BY DEF StreamRows, Numbered, Row
<1>4. C = 1..Len(m)
  <2>1. \A i \in 1..Len(m) : m[i] \in MemEvent
    BY <1>2
  <2>2. \A i \in 1..Len(m) : m[i].seq >= 0 /\ m[i].kind \in Kinds
    BY <2>1 DEF MemEvent
  <2> QED BY <1>2, <2>2
<1>5. BySeq(R) = [n \in DOMAIN o |-> m[o[n]]]
  BY <1>1, <1>3 DEF ReadsPlaces
<1>6. o = [n \in 1..Len(m) |-> n]
  <2>1. \A n \in Nat : Ascending(1..n) = [i \in 1..n |-> i]
    BY AscendingFrom1
  <2> QED BY <1>2, <1>4, <2>1
<1> HIDE DEF C, o, R
<1>7. [n \in DOMAIN o |-> m[o[n]]] = [n \in 1..Len(m) |-> m[n]]
  BY <1>6
<1>8. m = [n \in 1..Len(m) |-> m[n]]
  BY <1>2
<1> QED BY <1>5, <1>7, <1>8 DEF R

\* The last so many of an untouched stream and of the vector are the same.
LEMMA LastsAlike ==
  ASSUME NEW d, NEW h, Numbered(d, h), NEW s \in Streams, NEW m, Mirrors(d, h, s, m),
         Untouched(d, h, s), NEW limit \in U64, Len(m) <= MaxStored
  PROVE  ReadLast(d, s, limit) = MemReadLast(m, limit)
<1> DEFINE N == Len(m)
           k == IF limit < N THEN limit ELSE N
           from == IF limit < N THEN N - limit ELSE 0
           rev == [i \in 1..N |-> m[(N - i) + 1]]
           cut == [i \in 1..k |-> m[(N - i) + 1]]
<1>1. m \in Seq(MemEvent) /\ N \in Nat /\ DOMAIN m = 1..N
  BY DEF Mirrors
<1>2. /\ MaxStored \in Nat /\ limit \in Nat /\ k \in 0..N /\ from = N - k
      /\ limit > MaxStored => k = N
      /\ k = IF limit < N THEN limit ELSE N
  <2> HIDE DEF N
  <2>1. MaxStored \in Nat /\ limit \in Nat
    BY StoreAssumption DEF U64
  <2>2. N <= MaxStored
    BY DEF N
  <2> QED BY <1>1, <2>1, <2>2
<1>3. ReadLast(d, s, limit) = Reverse(Take(Reverse(m), ClampLimit(limit)))
  BY WholeIs DEF ReadLast
<1>4. Reverse(m) = rev
  BY DEF Reverse
<1>5. Len(rev) = N /\ DOMAIN rev = 1..N
  BY <1>1
<1>6. Take(rev, ClampLimit(limit)) = cut
  <2> HIDE DEF k, N, from
  <2>0. rev = [i \in 1..N |-> rev[i]] /\ \A i \in 1..k : rev[i] = m[(N - i) + 1]
    BY <1>1, <1>2
  <2> HIDE DEF rev
  <2>1. CASE limit <= MaxStored
    <3>1. Take(rev, ClampLimit(limit)) = SubSeq(rev, 1, k)
      BY <1>2, <1>5, <2>1 DEF Take, ClampLimit
    <3>2. SubSeq(rev, 1, k) = [i \in 1..k |-> rev[i]]
      BY <1>1, <1>2, <1>5
    <3> QED BY <2>0, <3>1, <3>2
  <2>2. CASE limit > MaxStored
    <3>1. Take(rev, ClampLimit(limit)) = rev
      BY <1>2, <2>2 DEF Take, ClampLimit
    <3>2. k = N
      BY <1>2, <2>2
    <3> QED BY <2>0, <3>1, <3>2
  <2> QED BY <1>2, <2>1, <2>2
<1>7. Len(cut) = k
  <2> HIDE DEF k, N
  <2> QED BY <1>1, <1>2
<1>8. Reverse(cut) = [i \in 1..k |-> m[from + i]]
  <2>1. Reverse(cut) = [i \in 1..k |-> cut[(k - i) + 1]]
    <3> HIDE DEF cut, k
    <3> QED BY <1>7 DEF Reverse
  <2>2. ASSUME NEW i \in 1..k PROVE cut[(k - i) + 1] = m[from + i]
    <3>1. (k - i) + 1 \in 1..k /\ (N - ((k - i) + 1)) + 1 = from + i
      <4> HIDE DEF k, N, from
      <4> QED BY <1>1, <1>2
    <3> HIDE DEF k, N, from
    <3> QED BY <3>1
  <2> HIDE DEF cut, k, N, from
  <2> QED BY <2>1, <2>2
<1>9. MemReadLast(m, limit) = [i \in 1..k |-> m[from + i]]
  <2>1. MemReadLast(m, limit) = SubSeq(m, 1 + from, N)
    BY DEF MemReadLast
  <2>2. SubSeq(m, 1 + from, N) = [i \in 1..k |-> m[from + i]]
    <3> HIDE DEF k, N, from
    <3>1. SubSeq(m, 1 + from, N) = [i \in 1..(N - (1 + from) + 1) |-> m[i + (1 + from) - 1]]
      BY <1>1, <1>2
    <3>2. N - (1 + from) + 1 = k
      BY <1>1, <1>2
    <3>3. \A i \in 1..k : i + (1 + from) - 1 = from + i
      BY <1>1, <1>2
    <3> QED BY <3>1, <3>2, <3>3
  <2> QED BY <2>1, <2>2
<1> HIDE DEF k, N, from, rev, cut
<1> QED BY <1>3, <1>4, <1>6, <1>8, <1>9

\* Head, length and next number of an untouched stream are the vector's.
LEMMA EndsAlike ==
  ASSUME NEW d, NEW h, Numbered(d, h), NEW s \in Streams, NEW m, Mirrors(d, h, s, m),
         Untouched(d, h, s)
  PROVE  /\ HeadSeq(d, s) = MemHead(m) /\ Length(d, s) = Len(m)
         /\ NextSeq(d, s) = MemNextSeq(m)
<1> DEFINE R == StreamRows(d, s, Kinds)
           N == Len(m)
<1>1. /\ d \in Tables /\ h \subseteq Row /\ d.events \subseteq h /\ Dense(h, d.autoinc, d.next)
      /\ d.next[s] \in Nat /\ IsFiniteSet(d.events)
  BY DEF Numbered, Tables
<1>2. /\ m \in Seq(MemEvent) /\ N \in Nat /\ DOMAIN m = 1..N
      /\ \A i \in DOMAIN m : m[i].seq = i
      /\ N = d.next[s] - 1
      /\ \A r \in h : r.stream = s => r.seq \in DOMAIN m /\ m[r.seq].kind = r.kind
  BY DEF Mirrors
<1>3. \A r \in R : r \in h /\ r.stream = s /\ r.seq \in 1..N
  BY <1>1, <1>2 DEF StreamRows
<1>4. \A n \in 1..N : \E r \in R : r.seq = n
  <2> SUFFICES ASSUME NEW n \in 1..N PROVE \E r \in R : r.seq = n
    OBVIOUS
  <2>1. PICK r \in h : r.stream = s /\ r.seq = n
    BY <1>1, <1>2 DEF Dense
  <2> QED BY <1>1, <2>1 DEF Untouched, StreamRows, Row
<1>5. \A r, q \in R : r.seq = q.seq => r = q
  <2> SUFFICES ASSUME NEW r \in R, NEW q \in R, r.seq = q.seq PROVE r = q
    OBVIOUS
  <2>1. r \in h /\ q \in h /\ r.stream = q.stream
    BY <1>3
  <2>2. /\ r.seq < q.seq <=> r.pos < q.pos
        /\ q.seq < r.seq <=> q.pos < r.pos
        /\ r.pos = q.pos => r = q
    BY <1>1, <2>1 DEF Dense
  <2>3. r.pos \in Nat /\ q.pos \in Nat /\ r.seq \in Nat /\ q.seq \in Nat
    BY <1>1, <2>1 DEF Row
  <2> QED BY <2>2, <2>3
<1>6. Length(d, s) = N
  <2> DEFINE f == [r \in R |-> r.seq]
  <2>1. IsFiniteSet(R)
    BY <1>1, FS_Subset DEF StreamRows
  <2>2. f \in [R -> 1..N] /\ (\A x, y \in R : f[x] = f[y] => x = y)
        /\ \A n \in 1..N : \E x \in R : f[x] = n
    BY <1>3, <1>4, <1>5
  <2> HIDE DEF f, R
  <2>3. Cardinality(1..N) = Cardinality(R)
    BY <2>1, <2>2, SameSize
  <2>4. \A n \in Nat : Cardinality(1..n) = n
    BY FS_Interval
  <2> QED BY <1>2, <2>3, <2>4 DEF Length, R
<1>7. HeadSeq(d, s) = MemHead(m)
  <2> DEFINE T == {q \in R : \A p \in R : p.seq <= q.seq}
  <2>1. HeadSeq(d, s) = {r.seq : r \in T}
    BY DEF HeadSeq
  <2>2. CASE N = 0
    <3>1. R = {} /\ m = <<>>
      BY <1>2, <1>3, <2>2
    <3> QED BY <2>1, <3>1 DEF MemHead
  <2>3. CASE N # 0
    <3>0. N \in 1..N /\ m # <<>>
      <4>0. \A n \in Nat : n # 0 => n \in 1..n
        OBVIOUS
      <4>1. N \in 1..N
        BY <1>2, <2>3, <4>0
      <4> QED BY <1>2, <4>1
    <3>1. MemHead(m) = {N}
      <4>1. m[N].seq = N
        BY <1>2, <3>0
      <4> QED BY <3>0, <4>1 DEF MemHead, Last
    <3>2. PICK r \in R : r.seq = N
      BY <1>4, <3>0
    <3>3. \A p \in R : p.seq <= N /\ p.seq \in Nat
      BY <1>2, <1>3
    <3> HIDE DEF R, N
    <3>4. r \in T /\ \A q \in T : q.seq = N
      BY <1>2, <3>2, <3>3
    <3> HIDE DEF T
    <3>5. {q.seq : q \in T} = {N}
      BY <3>2, <3>4
    <3> QED BY <2>1, <3>1, <3>5
  <2> QED BY <2>2, <2>3
<1>8. NextSeq(d, s) = MemNextSeq(m)
  BY <1>1, <1>2 DEF NextSeq, MemNextSeq
<1> QED BY <1>6, <1>7, <1>8

-----------------------------------------------------------------------------
(* Both keep up with each other.                                           *)

\* A column can hold every time there is.
ColumnsHold == \A a \in Appends : \A i \in DOMAIN a.run : AsStored(a.run[i].at) \in Times

\* A stream's numbers are no more than the positions given.
Numbers(d) == d.autoinc <= MaxEvents /\ \A s \in Streams : d.next[s] - 1 <= d.autoinc

StoreOK ==
  /\ Numbered(db, history) /\ Numbers(db)
  /\ DOMAIN mem = Streams
  /\ \A s \in Streams : Mirrors(db, history, s, mem[s])

\* What retention took stays taken.
LEMMA StaysTouched ==
  ASSUME NEW d, NEW h, Numbered(d, h), NEW s \in Streams, NEW t \in Streams,
         NEW run \in Seq(Event),
         Untouched(AppendRun(d, t, run), h \cup RunRows(d, t, run), s)
  PROVE  Untouched(d, h, s)
<1> DEFINE e == AppendRun(d, t, run)
           rows == RunRows(d, t, run)
<1>1. e.events = d.events \cup rows /\ \A r \in rows : r.pos > d.autoinc
  <2>1. RunLands(d, h, run, e, rows)
    BY RunWritten
  <2> HIDE DEF e, rows
  <2> QED BY <2>1 DEF RunLands
<1>2. \A r \in h : r.pos <= d.autoinc /\ r.pos \in Nat
  BY DEF Numbered, Dense, Row
<1>3. d.autoinc \in Nat
  BY DEF Numbered, Tables
<1> HIDE DEF e, rows
<1>4. Untouched(e, h \cup rows, s)
  BY DEF e, rows
<1>5. ASSUME NEW r \in h, r.stream = s PROVE r \in d.events
  <2>1. r \in e.events
    BY <1>4, <1>5 DEF Untouched
  <2>2. r \notin rows
    BY <1>1, <1>2, <1>3
  <2> QED BY <1>1, <2>1, <2>2
<1> QED BY <1>5 DEF Untouched

\* Two sequences, one after the other.
JoinOf(r, p, q) ==
  /\ Len(r) = Len(p) + Len(q) /\ DOMAIN r = 1..(Len(p) + Len(q))
  /\ \A i \in 1..Len(p) : r[i] = p[i]
  /\ \A i \in 1..Len(q) : r[Len(p) + i] = q[i]

\* They are joined as they are.
LEMMA Joined ==
  ASSUME NEW S, NEW p \in Seq(S), NEW q \in Seq(S)
  PROVE  p \o q \in Seq(S) /\ JoinOf(p \o q, p, q)
<1>1. p \o q \in Seq(S) /\ Len(p \o q) = Len(p) + Len(q)
  OBVIOUS
<1>2. DOMAIN (p \o q) = 1..(Len(p) + Len(q))
  BY <1>1
<1>3. \A i \in 1..Len(p) : (p \o q)[i] = p[i]
  OBVIOUS
<1>4. \A i \in 1..Len(q) : (p \o q)[Len(p) + i] = q[i]
  OBVIOUS
<1> QED BY <1>1, <1>2, <1>3, <1>4 DEF JoinOf

\* A run of the same kinds, appended to both.
LEMMA BothAppend ==
  ASSUME NEW d, NEW h, Numbered(d, h), NEW s \in Streams, NEW m, Mirrors(d, h, s, m),
         NEW run \in Seq(Event), NEW given \in Seq(Event), Len(given) = Len(run),
         \A i \in 1..Len(run) : given[i].kind = run[i].kind
  PROVE  Mirrors(AppendRun(d, s, run), h \cup RunRows(d, s, run), s, MemAppendMany(m, given))
<1> DEFINE e == AppendRun(d, s, run)
           rows == RunRows(d, s, run)
           n == Len(m)
           k == Len(run)
           new == [i \in DOMAIN given |-> [seq |-> n + i, kind |-> given[i].kind]]
           m2 == m \o new
<1>1. m \in Seq(MemEvent) /\ n \in Nat /\ DOMAIN m = 1..n /\ \A i \in 1..n : m[i].seq = i
  BY DEF Mirrors
<1>2. k \in Nat /\ DOMAIN given = 1..k /\ \A i \in 1..k : given[i].kind \in Kinds
  BY EventsAreRun DEF IsRun
<1>3. new \in Seq(MemEvent) /\ Len(new) = k
  <2>1. \A i \in 1..k : new[i] \in MemEvent
    BY <1>1, <1>2 DEF MemEvent
  <2>2. new \in [1..k -> MemEvent]
    BY <1>2, <2>1
  <2> HIDE DEF new, k
  <2> QED BY <1>2, <2>2
<1>4. \A i \in 1..k : new[i].seq = n + i /\ new[i].kind = given[i].kind
  BY <1>2
<1>5. /\ m2 \in Seq(MemEvent) /\ Len(m2) = n + k /\ DOMAIN m2 = 1..(n + k)
      /\ \A i \in 1..n : m2[i] = m[i]
      /\ \A i \in 1..k : m2[n + i] = new[i]
  <2> HIDE DEF new
  <2>1. m2 \in Seq(MemEvent) /\ JoinOf(m2, m, new)
    BY <1>1, <1>3, Joined
  <2> HIDE DEF m2
  <2> QED BY <1>3, <2>1 DEF JoinOf
<1> HIDE DEF m2, new
<1>6. \A i \in 1..(n + k) : m2[i].seq = i
  <2> SUFFICES ASSUME NEW i \in 1..(n + k) PROVE m2[i].seq = i
    OBVIOUS
  <2> HIDE DEF n, k
  <2>1. i \in 1..n \/ (i - n \in 1..k /\ i = n + (i - n))
    BY <1>1, <1>2
  <2> QED BY <1>1, <1>4, <1>5, <2>1
<1>7. ASSUME Untouched(e, h \cup rows, s)
      PROVE  /\ Len(m2) = e.next[s] - 1
             /\ \A r \in h \cup rows : r.stream = s => r.seq \in DOMAIN m2 /\ m2[r.seq].kind = r.kind
  <2>1. Untouched(d, h, s)
    BY <1>7, StaysTouched
  <2>2. /\ n = d.next[s] - 1 /\ d.next[s] \in Nat /\ d.next \in [Streams -> Nat \ {0}]
        /\ \A r \in h : r.stream = s => r.seq \in DOMAIN m /\ m[r.seq].kind = r.kind
    BY <2>1 DEF Mirrors, Numbered, Tables
  <2>3. e.next[s] = d.next[s] + k
    <3>1. e.next = [d.next EXCEPT ![s] = d.next[s] + k]
      BY EventsAreRun, AppendRunType DEF Numbered
    <3> HIDE DEF e
    <3> QED BY <2>2, <3>1
  <2>4. ASSUME NEW r \in h, r.stream = s PROVE r.seq \in DOMAIN m2 /\ m2[r.seq].kind = r.kind
    <3>1. r.seq \in 1..n /\ m[r.seq].kind = r.kind
      BY <1>1, <2>2, <2>4
    <3> HIDE DEF n, k
    <3> QED BY <1>1, <1>2, <1>5, <3>1
  <2>5. ASSUME NEW r \in rows PROVE r.seq \in DOMAIN m2 /\ m2[r.seq].kind = r.kind
    <3>1. PICK i \in 1..k : r.seq = d.next[s] + i - 1 /\ r.kind = run[i].kind
      BY <2>5 DEF RunRows, NextSeq
    <3>2. r.seq = n + i /\ r.seq \in 1..(n + k)
      <4>1. n \in Nat /\ k \in Nat /\ n = d.next[s] - 1 /\ d.next[s] \in Nat
        BY <1>1, <1>2, <2>2
      <4> HIDE DEF n, k
      <4>2. r.seq = n + i
        BY <3>1, <4>1
      <4> QED BY <4>1, <4>2
    <3>3. r.kind = given[i].kind
      BY <3>1
    <3> HIDE DEF n, k
    <3> QED BY <1>4, <1>5, <3>1, <3>2, <3>3
  <2> HIDE DEF e, rows
  <2>6. Len(m2) = e.next[s] - 1
    <3> HIDE DEF n, k
    <3> QED BY <1>1, <1>2, <1>5, <2>2, <2>3
  <2> QED BY <2>4, <2>5, <2>6
<1>8. m2 = MemAppendMany(m, given)
  BY DEF MemAppendMany, m2, new
<1> HIDE DEF e, rows, n, k
<1>9. Mirrors(e, h \cup rows, s, m2)
  BY <1>5, <1>6, <1>7 DEF Mirrors
<1> QED BY <1>8, <1>9 DEF e, rows

\* A run of another stream, or one the vector was not asked to record since the
\* file no longer shows it what the vector does.
LEMMA OtherAppend ==
  ASSUME NEW d, NEW h, Numbered(d, h), NEW s \in Streams, NEW m, Mirrors(d, h, s, m),
         NEW t \in Streams, NEW run \in Seq(Event), t # s \/ ~Untouched(d, h, s)
  PROVE  Mirrors(AppendRun(d, t, run), h \cup RunRows(d, t, run), s, m)
<1> DEFINE e == AppendRun(d, t, run)
           rows == RunRows(d, t, run)
<1>1. Untouched(e, h \cup rows, s) => Untouched(d, h, s)
  BY StaysTouched
<1>2. t # s => e.next[s] = d.next[s]
  <2>1. e.next = [d.next EXCEPT ![t] = d.next[t] + Len(run)]
    BY EventsAreRun, AppendRunType DEF Numbered
  <2>2. d.next \in [Streams -> Nat \ {0}]
    BY DEF Numbered, Tables
  <2> HIDE DEF e
  <2> QED BY <2>1, <2>2
<1>3. \A r \in rows : r.stream = t
  BY DEF RunRows
<1> HIDE DEF e, rows
<1>4. Mirrors(e, h \cup rows, s, m)
  BY <1>1, <1>2, <1>3 DEF Mirrors
<1> QED BY <1>4 DEF e, rows

\* Only the vector records.
LEMMA OnlyMem ==
  ASSUME NEW d, NEW h, NEW s \in Streams, NEW m, Mirrors(d, h, s, m), ~Untouched(d, h, s),
         NEW ev \in Event
  PROVE  Mirrors(d, h, s, MemAppend(m, ev))
<1> DEFINE x == [seq |-> Len(m) + 1, kind |-> ev.kind]
<1>1. m \in Seq(MemEvent) /\ \A i \in DOMAIN m : m[i].seq = i
  BY DEF Mirrors
<1>2. x \in MemEvent /\ x.seq = Len(m) + 1
  BY <1>1 DEF MemEvent, Event
<1>3. MemAppend(m, ev) = Append(m, x)
  BY DEF MemAppend, MemNextSeq
<1> HIDE DEF x
<1>4. Append(m, x) \in Seq(MemEvent) /\ \A i \in DOMAIN Append(m, x) : Append(m, x)[i].seq = i
  BY <1>1, <1>2
<1> QED BY <1>3, <1>4 DEF Mirrors

\* The counters stay within the bound.
LEMMA NumbersAppend ==
  ASSUME NEW d, NEW h, Numbered(d, h), Numbers(d), NEW t \in Streams, NEW run \in Seq(Event),
         d.autoinc + Len(run) <= MaxEvents
  PROVE  Numbers(AppendRun(d, t, run))
<1> DEFINE e == AppendRun(d, t, run)
<1>1. /\ e.next = [d.next EXCEPT ![t] = d.next[t] + Len(run)]
      /\ e.autoinc = d.autoinc + Len(run)
  BY EventsAreRun, AppendRunType DEF Numbered
<1>2. d.next \in [Streams -> Nat \ {0}] /\ d.autoinc \in Nat /\ Len(run) \in Nat
  BY DEF Numbered, Tables
<1> HIDE DEF e
<1>3. ASSUME NEW s \in Streams PROVE e.next[s] - 1 <= e.autoinc
  <2>1. d.next[s] \in Nat /\ d.next[s] - 1 <= d.autoinc
    BY <1>2 DEF Numbers
  <2>2. e.next[s] = d.next[s] \/ e.next[s] = d.next[s] + Len(run)
    BY <1>1, <1>2
  <2> QED BY <1>1, <1>2, <2>1, <2>2
<1>4. Numbers(e)
  BY <1>1, <1>3 DEF Numbers
<1> QED BY <1>4 DEF e
-----------------------------------------------------------------------------
(* Every step keeps both.                                                  *)

\* What is stored of a run.
AsWritten(run) == [i \in DOMAIN run |-> [run[i] EXCEPT !.at = AsStored(@)]]

\* It is a run of the same kinds.
LEMMA WrittenIs ==
  ASSUME ColumnsHold, NEW a \in Appends
  PROVE  /\ a.stream \in Streams /\ a.run \in Seq(Event) /\ AsWritten(a.run) \in Seq(Event)
         /\ Len(AsWritten(a.run)) = Len(a.run)
         /\ \A i \in 1..Len(a.run) : a.run[i].kind = AsWritten(a.run)[i].kind
<1> DEFINE run == a.run
           w == AsWritten(run)
           n == Len(run)
<1>1. a.stream \in Streams /\ run \in Seq(Event)
  BY WritersAssumption DEF AppendCall, Run
<1>2. n \in Nat /\ DOMAIN run = 1..n /\ \A i \in 1..n : run[i] \in Event
  BY <1>1
<1>3. \A i \in 1..n : AsStored(run[i].at) \in Times
  BY <1>2 DEF ColumnsHold
<1> HIDE DEF run, n
<1>4. ASSUME NEW i \in 1..n PROVE w[i] \in Event /\ w[i].kind = run[i].kind
  <2>1. w[i] = [run[i] EXCEPT !.at = AsStored(run[i].at)]
    BY <1>2 DEF AsWritten
  <2>2. run[i] \in Event /\ AsStored(run[i].at) \in Times
    BY <1>2, <1>3
  <2> QED BY <2>1, <2>2 DEF Event
<1>5. DOMAIN w = 1..n /\ w = [i \in 1..n |-> w[i]]
  BY <1>2 DEF AsWritten
<1> HIDE DEF w
<1>6. w \in [1..n -> Event]
  BY <1>4, <1>5
<1>7. w \in Seq(Event) /\ Len(w) = n
  BY <1>2, <1>5, <1>6
<1> QED BY <1>1, <1>4, <1>7 DEF run, w, n

\* An append of both.
LEMMA AppendStep ==
  ASSUME StoreOK, ColumnsHold, NEW a \in Appends, AppendBoth(a)
  PROVE  StoreOK'
<1> DEFINE s == a.stream
           run == AsWritten(a.run)
<1>1. /\ s \in Streams /\ a.run \in Seq(Event) /\ run \in Seq(Event)
      /\ Len(run) = Len(a.run) /\ \A i \in 1..Len(run) : a.run[i].kind = run[i].kind
  BY WrittenIs
<1>2. /\ db.autoinc + Len(run) <= MaxEvents
      /\ db' = AppendRun(db, s, run) /\ history' = history \cup RunRows(db, s, run)
      /\ mem' = [mem EXCEPT ![s] = MemAppendMany(mem[s], a.run)]
  <2>1. a = [stream |-> a.stream, run |-> a.run]
    BY WritersAssumption DEF AppendCall
  <2>2. [a EXCEPT !.run = run] = [stream |-> s, run |-> run]
    BY <2>1
  <2>3. Write([stream |-> s, run |-> run])
    BY <2>2 DEF AppendBoth, AsWritten
  <2> HIDE DEF s, run
  <2> QED BY <2>3 DEF Write, AppendBoth, s
<1>3. /\ Numbered(db, history) /\ Numbers(db) /\ DOMAIN mem = Streams
      /\ \A t \in Streams : Mirrors(db, history, t, mem[t])
  BY DEF StoreOK
<1> HIDE DEF s, run
<1>4. Numbered(AppendRun(db, s, run), history \cup RunRows(db, s, run))
  <2>1. RunLands(db, history, run, AppendRun(db, s, run), RunRows(db, s, run))
    BY <1>1, <1>3, RunWritten
  <2> QED BY <2>1 DEF RunLands
<1>5. Numbers(AppendRun(db, s, run))
  BY <1>1, <1>2, <1>3, NumbersAppend
<1>6. ASSUME NEW t \in Streams
      PROVE  Mirrors(AppendRun(db, s, run), history \cup RunRows(db, s, run), t, mem'[t])
  <2>1. CASE t = s
    <3>1. mem'[s] = MemAppendMany(mem[s], a.run)
      BY <1>1, <1>2, <1>3
    <3>2. Mirrors(db, history, s, mem[s])
      BY <1>1, <1>3
    <3>3. Mirrors(AppendRun(db, s, run), history \cup RunRows(db, s, run), s,
                  MemAppendMany(mem[s], a.run))
      BY <1>1, <1>3, <3>2, BothAppend
    <3> QED BY <2>1, <3>1, <3>3
  <2>2. CASE t # s
    <3>1. mem'[t] = mem[t]
      BY <1>2, <1>3, <2>2
    <3>2. Mirrors(db, history, t, mem[t])
      BY <1>3
    <3> QED BY <1>1, <1>3, <2>2, <3>1, <3>2, OtherAppend
  <2> QED BY <2>1, <2>2
<1>7. DOMAIN mem' = Streams
  BY <1>2, <1>3
<1> QED BY <1>2, <1>4, <1>5, <1>6, <1>7 DEF StoreOK

\* What decides an append_if.
Decides(q, stored) ==
  /\ Answer(stored).ok
  /\ \A i \in DOMAIN stored : Answer(stored).events[i].kind # q.event.kind

\* A vector of an untouched stream is as long as the positions given allow.
LEMMA VectorFits ==
  ASSUME StoreOK, MaxEvents <= MaxStored, NEW s \in Streams, Untouched(db, history, s)
  PROVE  Len(mem[s]) <= MaxStored
<1>1. Len(mem[s]) = db.next[s] - 1 /\ db.next[s] - 1 <= db.autoinc /\ db.autoinc <= MaxEvents
  BY DEF StoreOK, Mirrors, Numbers
<1>2. db.next[s] \in Nat /\ db.autoinc \in Nat /\ MaxEvents \in Nat /\ MaxStored \in Nat
  BY WritersAssumption, StoreAssumption DEF StoreOK, Numbered, Tables
<1> QED BY <1>1, <1>2

\* A conditional append to both: of an untouched stream both decide alike.
LEMMA DecideStep ==
  ASSUME StoreOK, MaxEvents <= MaxStored, NEW q \in Decisions, DecideBoth(q)
  PROVE  StoreOK'
<1> DEFINE s == q.stream
           ev == q.event
           run == <<ev>>
           onFile == Decides(q, SelectStream(db, s, q.kinds, 0, 2 * MaxStored + 1))
           inMemory == Decides(q, Project(mem[s], q.kinds, 0, 2 * MaxStored + 1))
<1>1. s \in Streams /\ q.kinds \in SUBSET Kinds /\ ev \in Event
  BY StoreAssumption
<1>2. /\ Numbered(db, history) /\ Numbers(db) /\ DOMAIN mem = Streams
      /\ \A t \in Streams : Mirrors(db, history, t, mem[t])
  BY DEF StoreOK
<1>3. /\ onFile \/ inMemory
      /\ onFile => Write([stream |-> s, run |-> run])
      /\ ~onFile => UNCHANGED logVars
      /\ mem' = [mem EXCEPT ![s] = IF inMemory THEN MemAppend(mem[s], ev) ELSE mem[s]]
  BY DEF DecideBoth, Decides
<1>4. ASSUME Untouched(db, history, s) PROVE onFile = inMemory
  <2>1. MaxStored \in Nat /\ 0 \in Nat /\ 0 <= MaxStored /\ 2 * MaxStored + 1 \in U64
    BY StoreAssumption DEF U64
  <2>2. Len(mem[s]) <= MaxStored
    BY <1>1, <1>4, VectorFits
  <2>3. Mirrors(db, history, s, mem[s])
    BY <1>1, <1>2
  <2>4. SelectStream(db, s, q.kinds, 0, 2 * MaxStored + 1)
          = Project(mem[s], q.kinds, 0, 2 * MaxStored + 1)
    <3> HIDE DEF s
    <3> QED BY <1>1, <1>2, <1>4, <2>1, <2>2, <2>3, ReadsAlike
  <2> QED BY <2>4
<1>5. run \in Seq(Event) /\ Len(run) = 1 /\ \A i \in 1..Len(run) : run[i].kind = run[i].kind
  BY <1>1
<1> HIDE DEF onFile, inMemory
<1>6. onFile => /\ db.autoinc + Len(run) <= MaxEvents
                /\ db' = AppendRun(db, s, run) /\ history' = history \cup RunRows(db, s, run)
  BY <1>3 DEF Write
<1>7. ~onFile => db' = db /\ history' = history
  BY <1>3 DEF logVars
<1>8. mem'[s] = IF inMemory THEN MemAppend(mem[s], ev) ELSE mem[s]
  BY <1>1, <1>2, <1>3
<1>9. MemAppendMany(mem[s], run) = MemAppend(mem[s], ev)
  <2>1. mem[s] \in Seq(MemEvent)
    BY <1>1, <1>2 DEF Mirrors
  <2>2. DOMAIN run = {1} /\ run[1] = ev
    BY <1>1
  <2>3. [i \in DOMAIN run |-> [seq |-> Len(mem[s]) + i, kind |-> run[i].kind]]
          = <<[seq |-> Len(mem[s]) + 1, kind |-> ev.kind]>>
    BY <2>2
  <2> HIDE DEF run, ev, s
  <2>4. \A e : mem[s] \o <<e>> = Append(mem[s], e)
    BY <2>1
  <2> QED BY <2>3, <2>4 DEF MemAppendMany, MemAppend, MemNextSeq
<1>10. DOMAIN mem' = Streams
  BY <1>2, <1>3
<1> HIDE DEF s, run, ev
<1>11. CASE onFile
  <2>1. Numbered(AppendRun(db, s, run), history \cup RunRows(db, s, run))
    <3>1. RunLands(db, history, run, AppendRun(db, s, run), RunRows(db, s, run))
      BY <1>1, <1>2, <1>5, RunWritten
    <3> QED BY <3>1 DEF RunLands
  <2>2. Numbers(AppendRun(db, s, run))
    BY <1>1, <1>2, <1>5, <1>6, <1>11, NumbersAppend
  <2>3. ASSUME NEW t \in Streams
        PROVE  Mirrors(AppendRun(db, s, run), history \cup RunRows(db, s, run), t, mem'[t])
    <3>0. Mirrors(db, history, t, mem[t])
      BY <1>2
    <3>1. CASE t # s
      <4>1. mem'[t] = mem[t]
        BY <1>2, <1>3, <3>1
      <4> QED BY <1>1, <1>2, <1>5, <3>0, <3>1, <4>1, OtherAppend
    <3>2. CASE t = s /\ Untouched(db, history, s)
      <4>1. mem'[s] = MemAppendMany(mem[s], run)
        BY <1>4, <1>8, <1>9, <1>11, <3>2
      <4>2. Mirrors(db, history, s, mem[s])
        BY <3>0, <3>2
      <4>3. Mirrors(AppendRun(db, s, run), history \cup RunRows(db, s, run), s,
                    MemAppendMany(mem[s], run))
        BY <1>1, <1>2, <1>5, <4>2, BothAppend
      <4> QED BY <3>2, <4>1, <4>3
    <3>3. CASE t = s /\ ~Untouched(db, history, s)
      <4> DEFINE e == AppendRun(db, s, run)
                 h == history \cup RunRows(db, s, run)
      <4>1. Mirrors(e, h, s, mem[s])
        BY <1>1, <1>2, <1>5, <3>0, <3>3, OtherAppend
      <4>2. ~Untouched(e, h, s)
        BY <1>1, <1>2, <1>5, <3>3, StaysTouched
      <4> HIDE DEF e, h
      <4>3. Mirrors(e, h, s, MemAppend(mem[s], ev))
        BY <1>1, <4>1, <4>2, OnlyMem
      <4>4. Mirrors(e, h, s, mem'[s])
        BY <1>8, <4>1, <4>3
      <4> QED BY <3>3, <4>4 DEF e, h
    <3> QED BY <3>1, <3>2, <3>3
  <2> QED BY <1>6, <1>10, <1>11, <2>1, <2>2, <2>3 DEF StoreOK
<1>12. CASE ~onFile
  <2>1. inMemory /\ ~Untouched(db, history, s)
    BY <1>3, <1>4, <1>12
  <2>2. ASSUME NEW t \in Streams PROVE Mirrors(db, history, t, mem'[t])
    <3>0. Mirrors(db, history, t, mem[t])
      BY <1>2
    <3>1. CASE t # s
      <4>1. mem'[t] = mem[t]
        BY <1>2, <1>3, <3>1
      <4> QED BY <3>0, <4>1
    <3>2. CASE t = s
      <4>1. Mirrors(db, history, s, MemAppend(mem[s], ev))
        BY <1>1, <2>1, <3>0, <3>2, OnlyMem
      <4> QED BY <1>8, <2>1, <3>2, <4>1
    <3> QED BY <3>1, <3>2
  <2> QED BY <1>2, <1>7, <1>10, <1>12, <2>2 DEF StoreOK
<1> QED BY <1>11, <1>12

\* A step that appends and removes nothing.
Steady(d, e) == e \in Tables /\ e.events = d.events /\ e.autoinc = d.autoinc /\ e.next = d.next

\* It leaves both as they are.
LEMMA SteadyStep ==
  ASSUME StoreOK, Steady(db, db'), history' = history, mem' = mem
  PROVE  StoreOK'
<1> DEFINE e == db'
<1>1. /\ Numbered(db, history) /\ Numbers(db) /\ DOMAIN mem = Streams
      /\ \A t \in Streams : Mirrors(db, history, t, mem[t])
  BY DEF StoreOK
<1>2. e \in Tables /\ e.events = db.events /\ e.autoinc = db.autoinc /\ e.next = db.next
  BY DEF Steady
<1> HIDE DEF e
<1>3. Numbered(e, history) /\ Numbers(e)
  BY <1>1, <1>2 DEF Numbered, Numbers
<1>4. \A t \in Streams : Mirrors(e, history, t, mem[t])
  BY <1>1, <1>2 DEF Mirrors, Untouched
<1> QED BY <1>1, <1>3, <1>4 DEF StoreOK, e

\* Retention of the file alone.
LEMMA TrimStep ==
  ASSUME StoreOK, NEW r \in Removals, TrimStored(r)
  PROVE  StoreOK'
<1> DEFINE e == RemoveMatching(db, r.plan)
<1>1. /\ Numbered(db, history) /\ Numbers(db) /\ DOMAIN mem = Streams
      /\ \A t \in Streams : Mirrors(db, history, t, mem[t])
  BY DEF StoreOK
<1>2. db' = e /\ history' = history /\ mem' = mem
  BY DEF TrimStored, Trim
<1>3. Numbered(e, history) /\ e.events = db.events \ Matching(db, r.plan) /\ e.autoinc = db.autoinc
  BY <1>1, NumberedRemove
<1>4. e.next = db.next
  BY <1>1 DEF RemoveMatching, Numbered, Tables
<1> HIDE DEF e
<1>5. Numbers(e)
  BY <1>1, <1>3, <1>4 DEF Numbers
<1>6. ASSUME NEW t \in Streams PROVE Mirrors(e, history, t, mem[t])
  <2>1. Untouched(e, history, t) => Untouched(db, history, t)
    BY <1>3 DEF Untouched
  <2> QED BY <1>1, <1>4, <2>1 DEF Mirrors
<1> QED BY <1>1, <1>2, <1>3, <1>5, <1>6 DEF StoreOK

\* A checkpoint is saved, a receipt taken or confirmed.
LEMMA OtherTables ==
  ASSUME db \in Tables,
         \/ \E c \in Saves : Save(c)
         \/ \E p \in Pages : TakePage(p)
         \/ \E id \in DOMAIN db.receipts : Land(id)
  PROVE  Steady(db, db') /\ history' = history /\ mem' = mem
<1>1. db \in Tables
  OBVIOUS
<1>2. ASSUME NEW c \in Saves, Save(c) PROVE Steady(db, db') /\ history' = history /\ mem' = mem
  <2>1. c.consumer \in Consumers /\ c.at \in Nat
    BY CatalogAssumption
  <2>2. db' = [db EXCEPT !.ckpt = [db.ckpt EXCEPT ![c.consumer] = c.at]]
    BY <1>1, <1>2 DEF Save, SaveCheckpoint, Tables
  <2>3. [db.ckpt EXCEPT ![c.consumer] = c.at] \in [Consumers -> Nat \cup {NoRow}]
    BY <1>1, <2>1 DEF Tables
  <2> QED BY <1>1, <1>2, <2>2, <2>3 DEF Tables, Save, Steady
<1>3. ASSUME NEW p \in Pages, TakePage(p) PROVE Steady(db, db') /\ history' = history /\ mem' = mem
  <2> DEFINE r == [from |-> p.from, thr |-> p.thr, landed |-> FALSE, whole |-> p.whole]
  <2>1. r \in Receipt
    BY CatalogAssumption DEF Receipt
  <2>2. db' = [db EXCEPT !.receipts = Append(db.receipts, r)]
    BY <1>1, <1>3 DEF TakePage, RecordReceipt, Tables
  <2> HIDE DEF r
  <2>3. Append(db.receipts, r) \in Seq(Receipt)
    BY <1>1, <2>1 DEF Tables
  <2> QED BY <1>1, <1>3, <2>2, <2>3 DEF Tables, TakePage, Steady
<1>4. ASSUME NEW id \in DOMAIN db.receipts, Land(id)
      PROVE  Steady(db, db') /\ history' = history /\ mem' = mem
  <2> DEFINE R == db.receipts
             r == [R[id] EXCEPT !.landed = TRUE]
             Q == [R EXCEPT ![id] = r]
  <2>1. R \in Seq(Receipt)
    BY <1>1 DEF Tables
  <2>2. db' = [db EXCEPT !.receipts = Q]
    BY <1>1, <1>4 DEF Land, ConfirmReceipt, Tables
  <2>3. R[id] \in Receipt
    BY <2>1
  <2>4. r \in Receipt
    BY <2>3 DEF Receipt
  <2> HIDE DEF R, r
  <2>5. Q \in Seq(Receipt)
    <3>1. Len(R) \in Nat /\ R \in [1..Len(R) -> Receipt]
      BY <2>1
    <3>2. Q \in [1..Len(R) -> Receipt]
      BY <2>4, <3>1
    <3> HIDE DEF Q
    <3> QED BY <3>1, <3>2
  <2> HIDE DEF Q
  <2> QED BY <1>1, <1>4, <2>2, <2>5 DEF Tables, Land, Steady
<1> QED BY <1>2, <1>3, <1>4

\* Init, and every step.
LEMMA StoreInitOK == CatalogInit => StoreOK
<1> SUFFICES ASSUME CatalogInit PROVE StoreOK
  OBVIOUS
<1>1. db = EmptyTables /\ history = {} /\ mem = [s \in Streams |-> <<>>]
  BY DEF CatalogInit, StoreInit, LogInit
<1>2. /\ EmptyTables.events = {} /\ EmptyTables.autoinc = 0
      /\ EmptyTables.next = [s \in Streams |-> 1] /\ EmptyTables \in Tables
  BY DEF EmptyTables, Tables, NoRow
<1>3. Dense({}, 0, [s \in Streams |-> 1])
  BY DEF Dense
<1>4. Numbered(db, history)
  BY <1>1, <1>2, <1>3, FS_EmptySet DEF Numbered
<1>5. Numbers(db)
  BY <1>1, <1>2, WritersAssumption DEF Numbers
<1>6. \A s \in Streams : Mirrors(db, history, s, <<>>)
  BY <1>1, <1>2 DEF Mirrors
<1> QED BY <1>1, <1>4, <1>5, <1>6 DEF StoreOK

\* Every step of the catalog keeps both stores.
LEMMA StoreStepOK ==
  ASSUME StoreOK, ColumnsHold, MaxEvents <= MaxStored, [CatalogNext]_catalogVars
  PROVE  StoreOK'
<1>1. CASE StoreStep
  BY <1>1, AppendStep, DecideStep, TrimStep DEF StoreStep
<1>2. CASE \/ \E c \in Saves : Save(c)
           \/ \E p \in Pages : TakePage(p)
           \/ \E id \in DOMAIN db.receipts : Land(id)
  <2>1. db \in Tables
    BY DEF StoreOK, Numbered
  <2> QED BY <1>2, <2>1, OtherTables, SteadyStep
<1>3. CASE UNCHANGED storeVars
  <2>1. db' = db /\ history' = history /\ mem' = mem
    BY <1>3 DEF storeVars
  <2>2. Steady(db, db')
    BY <2>1 DEF Steady, StoreOK, Numbered
  <2> QED BY <2>1, <2>2, SteadyStep
<1> QED BY <1>1, <1>2, <1>3 DEF CatalogNext, WriteStep, List, NextPage, catalogVars

\* Both answer alike as long as they keep up.
LEMMA StoreAgrees ==
  ASSUME StoreOK, MaxEvents <= MaxStored, \A q \in Reads : q.from <= MaxStored
  PROVE  MemAgrees
<1> SUFFICES ASSUME NEW s \in Streams, StreamRows(db, s, Kinds) = {r \in history : r.stream = s}
             PROVE  /\ \A q \in Reads :
                         /\ Answer(SelectStream(db, s, q.kinds, q.from, q.limit))
                              = Answer(Project(mem[s], q.kinds, q.from, q.limit))
                         /\ Answer(ReadLast(db, s, q.limit)) = Answer(MemReadLast(mem[s], q.limit))
                    /\ HeadSeq(db, s) = MemHead(mem[s]) /\ Length(db, s) = Len(mem[s])
                    /\ NextSeq(db, s) = MemNextSeq(mem[s])
  BY DEF MemAgrees
<1>1. Numbered(db, history) /\ Mirrors(db, history, s, mem[s])
  BY DEF StoreOK
<1>2. Untouched(db, history, s)
  BY DEF StreamRows, Untouched
<1>3. Len(mem[s]) <= MaxStored
  BY <1>2, VectorFits
<1>4. ASSUME NEW q \in Reads
      PROVE  /\ SelectStream(db, s, q.kinds, q.from, q.limit)
                  = Project(mem[s], q.kinds, q.from, q.limit)
             /\ ReadLast(db, s, q.limit) = MemReadLast(mem[s], q.limit)
  <2>1. /\ q.kinds \in SUBSET Kinds /\ q.from \in U64 /\ q.limit \in U64
        /\ q.from <= MaxStored
    BY StoreAssumption
  <2>2. q.from \in Nat
    BY <2>1 DEF U64
  <2> QED BY <1>1, <1>2, <1>3, <2>1, <2>2, ReadsAlike, LastsAlike
<1>5. HeadSeq(db, s) = MemHead(mem[s]) /\ Length(db, s) = Len(mem[s])
      /\ NextSeq(db, s) = MemNextSeq(mem[s])
  BY <1>1, <1>2, EndsAlike
<1> QED BY <1>4, <1>5

\* For every table of streams, kinds and calls: a stream retention has not
\* touched answers every read on the file as the store in memory does, if a
\* column holds every time and number there is: `epoch_ms` and `position` are
\* i64, AUTOINCREMENT stops at i64::MAX, and a read from above it is the one
\* both stores answer differently.
THEOREM StoresAgree ==
  ASSUME ColumnsHold, MaxEvents <= MaxStored, \A q \in Reads : q.from <= MaxStored
  PROVE  CatalogSpec => []MemAgrees
<1>1. CatalogInit => StoreOK
  BY StoreInitOK
<1>2. StoreOK /\ [CatalogNext]_catalogVars => StoreOK'
  BY StoreStepOK
<1>3. StoreOK => MemAgrees
  BY StoreAgrees
<1> QED BY <1>1, <1>2, <1>3, PTL DEF CatalogSpec
-----------------------------------------------------------------------------
(* The order of names.                                                     *)

\* Two names agree up to their n-th character, where the first ends or is less.
Differs(k, l, n) ==
  /\ n <= Len(k) /\ n < Len(l) /\ \A i \in 1..n : k[i] = l[i]
  /\ n = Len(k) \/ k[n + 1] < l[n + 1]

\* What it is to start alike.
LEMMA SameStart ==
  ASSUME NEW k \in Seq(Nat), NEW l \in Seq(Nat), NEW n \in Nat, n <= Len(k), n <= Len(l)
  PROVE  SubSeq(k, 1, n) = SubSeq(l, 1, n) <=> \A i \in 1..n : k[i] = l[i]
<1> DEFINE p == SubSeq(k, 1, n)
           q == SubSeq(l, 1, n)
<1>1. p = [i \in 1..n |-> k[i]] /\ q = [i \in 1..n |-> l[i]]
  OBVIOUS
<1>2. \A i \in 1..n : p[i] = k[i] /\ q[i] = l[i]
  BY <1>1
<1> HIDE DEF p, q
<1>3. p = q => \A i \in 1..n : k[i] = l[i]
  BY <1>2
<1>4. (\A i \in 1..n : k[i] = l[i]) => p = q
  BY <1>1
<1> QED BY <1>3, <1>4 DEF p, q

\* The order is by the first difference.
LEMMA BelowIs ==
  ASSUME NEW k \in Seq(Nat), NEW l \in Seq(Nat)
  PROVE  Below(k, l) <=> \E n \in Nat : Differs(k, l, n)
<1>1. Len(k) \in Nat /\ Len(l) \in Nat
  OBVIOUS
<1>2. ASSUME Below(k, l) PROVE \E n \in Nat : Differs(k, l, n)
  <2>1. PICK n \in 0..Len(k) : /\ n < Len(l) /\ SubSeq(k, 1, n) = SubSeq(l, 1, n)
                               /\ n = Len(k) \/ k[n + 1] < l[n + 1]
    BY <1>2 DEF Below
  <2>2. n \in Nat /\ n <= Len(k) /\ n <= Len(l)
    BY <1>1, <2>1
  <2>3. \A i \in 1..n : k[i] = l[i]
    BY <2>1, <2>2, SameStart
  <2> QED BY <2>1, <2>2, <2>3 DEF Differs
<1>3. ASSUME NEW n \in Nat, Differs(k, l, n) PROVE Below(k, l)
  <2>1. /\ n \in 0..Len(k) /\ n <= Len(k) /\ n <= Len(l) /\ n < Len(l)
        /\ n = Len(k) \/ k[n + 1] < l[n + 1]
        /\ \A i \in 1..n : k[i] = l[i]
    BY <1>1, <1>3 DEF Differs
  <2>2. SubSeq(k, 1, n) = SubSeq(l, 1, n)
    BY <2>1, SameStart
  <2> QED BY <2>1, <2>2 DEF Below
<1> QED BY <1>2, <1>3

\* It is strict.
LEMMA BelowIsStrict ==
  ASSUME NEW k \in Seq(Nat), NEW l \in Seq(Nat), Below(k, l)
  PROVE  ~Below(l, k) /\ k # l
<1>1. PICK n \in Nat : Differs(k, l, n)
  BY BelowIs
<1>2. ASSUME NEW m \in Nat, Differs(l, k, m) PROVE FALSE
  <2>1. /\ n <= Len(k) /\ n < Len(l) /\ \A i \in 1..n : k[i] = l[i]
        /\ n = Len(k) \/ k[n + 1] < l[n + 1]
        /\ m <= Len(l) /\ m < Len(k) /\ \A i \in 1..m : l[i] = k[i]
        /\ m = Len(l) \/ l[m + 1] < k[m + 1]
        /\ Len(k) \in Nat /\ Len(l) \in Nat
        /\ \A i \in 1..Len(k) : k[i] \in Nat
        /\ \A i \in 1..Len(l) : l[i] \in Nat
    BY <1>1, <1>2 DEF Differs
  <2>2. CASE n < m
    <3>1. n + 1 \in 1..m /\ n + 1 \in 1..Len(k) /\ n # Len(k)
      BY <2>1, <2>2
    <3>2. k[n + 1] = l[n + 1] /\ k[n + 1] < l[n + 1] /\ k[n + 1] \in Nat
      BY <2>1, <3>1
    <3> QED BY <3>2
  <2>3. CASE m < n
    <3>1. m + 1 \in 1..n /\ m + 1 \in 1..Len(l) /\ m # Len(l)
      BY <2>1, <2>3
    <3>2. k[m + 1] = l[m + 1] /\ l[m + 1] < k[m + 1] /\ l[m + 1] \in Nat
      BY <2>1, <3>1
    <3> QED BY <3>2
  <2>4. CASE n = m
    <3>1. n + 1 \in 1..Len(k) /\ n + 1 \in 1..Len(l) /\ n # Len(k) /\ m # Len(l)
      BY <2>1, <2>4
    <3>2. k[n + 1] < l[n + 1] /\ l[n + 1] < k[n + 1] /\ k[n + 1] \in Nat /\ l[n + 1] \in Nat
      BY <2>1, <2>4, <3>1
    <3> QED BY <3>2
  <2> QED BY <2>2, <2>3, <2>4
<1>3. ~Below(l, k)
  BY <1>2, BelowIs
<1> QED BY <1>3

\* It is transitive.
LEMMA BelowGoesOn ==
  ASSUME NEW k \in Seq(Nat), NEW l \in Seq(Nat), NEW o \in Seq(Nat), Below(k, l), Below(l, o)
  PROVE  Below(k, o)
<1>1. PICK n \in Nat : Differs(k, l, n)
  BY BelowIs
<1>2. PICK m \in Nat : Differs(l, o, m)
  BY BelowIs
<1>3. /\ n <= Len(k) /\ n < Len(l) /\ \A i \in 1..n : k[i] = l[i]
      /\ n = Len(k) \/ k[n + 1] < l[n + 1]
      /\ m <= Len(l) /\ m < Len(o) /\ \A i \in 1..m : l[i] = o[i]
      /\ m = Len(l) \/ l[m + 1] < o[m + 1]
      /\ Len(k) \in Nat /\ Len(l) \in Nat /\ Len(o) \in Nat
      /\ \A i \in 1..Len(k) : k[i] \in Nat
      /\ \A i \in 1..Len(l) : l[i] \in Nat
      /\ \A i \in 1..Len(o) : o[i] \in Nat
  <2>1. /\ n <= Len(k) /\ n < Len(l) /\ \A i \in 1..n : k[i] = l[i]
        /\ n = Len(k) \/ k[n + 1] < l[n + 1]
    BY <1>1 DEF Differs
  <2>2. /\ m <= Len(l) /\ m < Len(o) /\ \A i \in 1..m : l[i] = o[i]
        /\ m = Len(l) \/ l[m + 1] < o[m + 1]
    BY <1>2 DEF Differs
  <2>3. Len(k) \in Nat /\ Len(l) \in Nat /\ Len(o) \in Nat
    OBVIOUS
  <2>4. /\ \A i \in 1..Len(k) : k[i] \in Nat
        /\ \A i \in 1..Len(l) : l[i] \in Nat
        /\ \A i \in 1..Len(o) : o[i] \in Nat
    OBVIOUS
  <2> QED BY <2>1, <2>2, <2>3, <2>4
<1>4. CASE n < m
  <2>1. n + 1 \in 1..m /\ \A i \in 1..n : i \in 1..m
    BY <1>4
  <2>2. n < Len(o)
    <3> DEFINE z == Len(o)
    <3>1. m < z /\ z \in Nat
      BY <1>3
    <3> HIDE DEF z
    <3>2. n < z
      BY <1>4, <3>1
    <3> QED BY <3>2 DEF z
  <2>3. (\A i \in 1..n : k[i] = o[i]) /\ l[n + 1] = o[n + 1]
    BY <1>3, <2>1
  <2>4. Differs(k, o, n)
    BY <1>3, <2>2, <2>3 DEF Differs
  <2> QED BY <2>4, BelowIs
<1>5. CASE m < n
  <2>1. m + 1 \in 1..n /\ (\A i \in 1..m : i \in 1..n) /\ m # Len(l) /\ m <= Len(k)
    <3> DEFINE x == Len(k)
               y == Len(l)
    <3>1. n <= x /\ n < y /\ x \in Nat /\ y \in Nat
      BY <1>3
    <3> HIDE DEF x, y
    <3>2. m + 1 \in 1..n /\ (\A i \in 1..m : i \in 1..n) /\ m # y /\ m <= x
      BY <1>5, <3>1
    <3> QED BY <3>2 DEF x, y
  <2>2. (\A i \in 1..m : k[i] = o[i]) /\ k[m + 1] = l[m + 1] /\ l[m + 1] < o[m + 1]
    BY <1>3, <2>1
  <2>3. Differs(k, o, m)
    BY <1>3, <2>1, <2>2 DEF Differs
  <2> QED BY <2>3, BelowIs
<1>6. CASE n = m
  <2>1. m # Len(l) /\ n < Len(o) /\ n + 1 \in 1..Len(l) /\ n + 1 \in 1..Len(o)
        /\ (n # Len(k) => n + 1 \in 1..Len(k))
    <3> DEFINE x == Len(k)
               y == Len(l)
               z == Len(o)
    <3>1. n <= x /\ n < y /\ m < z /\ x \in Nat /\ y \in Nat /\ z \in Nat
      BY <1>3
    <3> HIDE DEF x, y, z
    <3>2. /\ m # y /\ n < z /\ n + 1 \in 1..y /\ n + 1 \in 1..z
          /\ n # x => n + 1 \in 1..x
      BY <1>6, <3>1
    <3> QED BY <3>2 DEF x, y, z
  <2>2. \A i \in 1..n : k[i] = o[i]
    BY <1>3, <1>6
  <2>3. n = Len(k) \/ k[n + 1] < o[n + 1]
    <3>1. SUFFICES ASSUME n # Len(k) PROVE k[n + 1] < o[n + 1]
      OBVIOUS
    <3>2. k[n + 1] < l[n + 1] /\ l[n + 1] < o[n + 1]
      BY <1>3, <1>6, <2>1, <3>1
    <3>3. k[n + 1] \in Nat /\ l[n + 1] \in Nat /\ o[n + 1] \in Nat
      BY <1>3, <2>1, <3>1
    <3> QED BY <3>2, <3>3
  <2>4. Differs(k, o, n)
    BY <1>3, <2>1, <2>2, <2>3 DEF Differs
  <2> QED BY <2>4, BelowIs
<1> QED BY <1>4, <1>5, <1>6

\* It is total.
LEMMA BelowIsTotal ==
  ASSUME NEW k \in Seq(Nat), NEW l \in Seq(Nat)
  PROVE  k = l \/ Below(k, l) \/ Below(l, k)
<1> DEFINE D == {n \in Nat : n = Len(k) \/ n = Len(l) \/ k[n + 1] # l[n + 1]}
<1>1. /\ Len(k) \in Nat /\ Len(l) \in Nat /\ DOMAIN k = 1..Len(k) /\ DOMAIN l = 1..Len(l)
      /\ \A i \in 1..Len(k) : k[i] \in Nat
      /\ \A i \in 1..Len(l) : l[i] \in Nat
  OBVIOUS
<1> DEFINE stops(n) == n = Len(k) \/ n = Len(l) \/ k[n + 1] # l[n + 1]
<1>2. PICK n \in Nat : stops(n) /\ \A j \in Nat : j < n => ~stops(j)
  <2>1. D \in SUBSET Nat /\ D # {}
    BY <1>1
  <2>2. \A n \in Nat : n \in D <=> stops(n)
    OBVIOUS
  <2> HIDE DEF D, stops
  <2>3. PICK n \in D : \A j \in D : ~(j < n)
    BY <2>1, LeastOf
  <2> QED BY <2>1, <2>2, <2>3
<1> HIDE DEF D
<1>3. n \in Nat /\ n <= Len(k) /\ n <= Len(l)
  <2>1. stops(Len(k)) /\ stops(Len(l))
    OBVIOUS
  <2> HIDE DEF stops
  <2>2. ~(Len(k) < n) /\ ~(Len(l) < n)
    BY <1>1, <1>2, <2>1
  <2> QED BY <1>1, <2>2
<1>4. ASSUME NEW i \in 1..n PROVE k[i] = l[i]
  <2>1. i - 1 \in Nat /\ i - 1 < n /\ (i - 1) + 1 = i
    BY <1>3
  <2>2. ~stops(i - 1)
    BY <1>2, <2>1
  <2> QED BY <2>1, <2>2
<1> DEFINE a == Len(k)
           b == Len(l)
<1>0. a \in Nat /\ b \in Nat /\ n <= a /\ n <= b
  BY <1>1, <1>3
<1>5. CASE n = Len(k) /\ n = Len(l)
  <2>1. k = l
    BY <1>1, <1>4, <1>5
  <2> QED BY <2>1
<1>6. CASE n = Len(k) /\ n # Len(l)
  <2>1. n < b /\ n = a
    BY <1>0, <1>6
  <2>2. Differs(k, l, n)
    BY <1>3, <1>4, <2>1 DEF Differs
  <2> QED BY <1>3, <2>2, BelowIs
<1>7. CASE n # Len(k) /\ n = Len(l)
  <2>1. n < a /\ n = b
    BY <1>0, <1>7
  <2>2. Differs(l, k, n)
    BY <1>3, <1>4, <2>1 DEF Differs
  <2> QED BY <1>3, <2>2, BelowIs
<1>8. CASE n # Len(k) /\ n # Len(l)
  <2>1. n < a /\ n < b
    BY <1>0, <1>8
  <2>2. n + 1 \in 1..a /\ n + 1 \in 1..b
    <3> HIDE DEF a, b
    <3> QED BY <1>0, <2>1
  <2>3. k[n + 1] # l[n + 1] /\ k[n + 1] \in Nat /\ l[n + 1] \in Nat
    BY <1>1, <1>2, <1>8, <2>2
  <2>4. k[n + 1] < l[n + 1] \/ l[n + 1] < k[n + 1]
    BY <2>3
  <2>5. Differs(k, l, n) \/ Differs(l, k, n)
    BY <1>3, <1>4, <2>1, <2>4 DEF Differs
  <2> QED BY <1>3, <2>5, BelowIs
<1> QED BY <1>5, <1>6, <1>7, <1>8

-----------------------------------------------------------------------------
(* The range of a prefix.                                                  *)

\* A name is one of numbers.
LEMMA ScalarsAreNumbers ==
  /\ Scalars \subseteq Nat /\ Name \subseteq Seq(Nat)
  /\ \A x \in Scalars : x <= LastScalar
<1>1. Scalars \subseteq Nat /\ \A x \in Scalars : x <= LastScalar
  BY CatalogAssumption DEF Scalars
<1>2. ASSUME NEW name \in Name PROVE name \in Seq(Nat)
  <2>1. Len(name) \in Nat /\ name \in [1..Len(name) -> Scalars]
    BY DEF Name
  <2>2. name \in [1..Len(name) -> Nat]
    BY <1>1, <2>1
  <2> QED BY <2>1, <2>2
<1> QED BY <1>1, <1>2

\* The next character is the least above this one.
LEMMA NextIsNext ==
  ASSUME NEW x \in Scalars, x # LastScalar
  PROVE  /\ NextScalar(x) \in Scalars /\ NextScalar(x) \in Nat /\ x < NextScalar(x)
         /\ \A y \in Scalars : x < y => NextScalar(x) <= y
<1>1. /\ BeforeGap \in Nat /\ AfterGap \in Nat /\ LastScalar \in Nat
      /\ BeforeGap < AfterGap /\ AfterGap <= LastScalar
  BY CatalogAssumption
<1>2. CASE x = BeforeGap
  BY <1>1, <1>2 DEF Scalars, NextScalar
<1>3. CASE x # BeforeGap
  BY <1>1, <1>3 DEF Scalars, NextScalar
<1> QED BY <1>2, <1>3

\* A prefix, by its characters.
LEMMA PrefixIs ==
  ASSUME NEW p \in Seq(Nat), NEW name \in Seq(Nat)
  PROVE  IsPrefix(p, name) <=> Len(p) <= Len(name) /\ \A i \in 1..Len(p) : p[i] = name[i]
<1>1. Len(p) \in Nat /\ Len(name) \in Nat
  OBVIOUS
<1>2. ASSUME Len(p) <= Len(name)
      PROVE  SubSeq(p, 1, Len(p)) = SubSeq(name, 1, Len(p)) <=> \A i \in 1..Len(p) : p[i] = name[i]
  BY <1>1, <1>2, SameStart
<1> QED BY <1>2 DEF IsPrefix

\* The bound of a prefix, which ends in its i-th character and something that is last.
BoundAt(prefix, i) == Append(SubSeq(prefix, 1, i - 1), NextScalar(prefix[i]))

\* b has the first i characters of a prefix, the last of them stepped.
Stepped(prefix, i, b) ==
  /\ b \in Seq(Nat) /\ Len(b) = i /\ b[i] = NextScalar(prefix[i])
  /\ \A j \in 1..(i - 1) : b[j] = prefix[j]

\* What it is made of.
LEMMA BoundIs ==
  ASSUME NEW prefix \in Name, NEW i \in DOMAIN prefix, prefix[i] # LastScalar
  PROVE  Stepped(prefix, i, BoundAt(prefix, i))
<1> DEFINE x == NextScalar(prefix[i])
           p == SubSeq(prefix, 1, i - 1)
           b == Append(p, x)
<1>1. prefix \in Seq(Nat) /\ Len(prefix) \in Nat /\ i \in 1..Len(prefix) /\ prefix[i] \in Scalars
  BY ScalarsAreNumbers DEF Name
<1>2. x \in Nat
  BY <1>1, NextIsNext
<1>3. p \in Seq(Nat) /\ Len(p) = i - 1 /\ \A j \in 1..(i - 1) : p[j] = prefix[j]
  BY <1>1
<1> HIDE DEF x, p
<1>4. /\ b \in Seq(Nat) /\ Len(b) = (i - 1) + 1 /\ b[(i - 1) + 1] = x
      /\ \A j \in 1..(i - 1) : b[j] = p[j]
  BY <1>2, <1>3
<1>5. (i - 1) + 1 = i
  BY <1>1
<1> HIDE DEF b
<1>6. b \in Seq(Nat) /\ Len(b) = i /\ b[i] = x /\ \A j \in 1..(i - 1) : b[j] = prefix[j]
  BY <1>3, <1>4, <1>5
<1>7. b = BoundAt(prefix, i)
  BY DEF b, p, x, BoundAt
<1>8. Stepped(prefix, i, b)
  BY <1>6 DEF x, Stepped
<1> QED BY <1>7, <1>8

\* The names in the range of a prefix are those that begin with it.
LEMMA RangeIsPrefix ==
  ASSUME NEW name \in Name, NEW prefix \in Name
  PROVE  InRange(name, prefix) <=> IsPrefix(prefix, name)
<1> DEFINE lasting(i) == /\ i \in DOMAIN prefix /\ prefix[i] # LastScalar
                         /\ \A n \in (i + 1)..Len(prefix) : prefix[n] = LastScalar
<1>1. /\ name \in Seq(Nat) /\ prefix \in Seq(Nat) /\ Len(name) \in Nat /\ Len(prefix) \in Nat
      /\ DOMAIN prefix = 1..Len(prefix)
      /\ \A i \in 1..Len(name) : name[i] \in Scalars /\ name[i] \in Nat /\ name[i] <= LastScalar
      /\ \A i \in 1..Len(prefix) : prefix[i] \in Scalars /\ prefix[i] \in Nat
  BY ScalarsAreNumbers DEF Name
<1>2. \A b : b \in StreamPrefixBound(prefix) <=> \E i : lasting(i) /\ b = BoundAt(prefix, i)
  BY DEF StreamPrefixBound, BoundAt
<1> HIDE DEF lasting
<1>3. \A i : lasting(i) => /\ i \in 1..Len(prefix) /\ prefix[i] # LastScalar
                           /\ \A n \in (i + 1)..Len(prefix) : prefix[n] = LastScalar
  BY <1>1 DEF lasting
<1>4. ASSUME IsPrefix(prefix, name) PROVE InRange(name, prefix)
  <2>1. Len(prefix) <= Len(name) /\ \A i \in 1..Len(prefix) : prefix[i] = name[i]
    BY <1>1, <1>4, PrefixIs
  <2>2. ~Below(name, prefix)
    <3> SUFFICES ASSUME NEW n \in Nat, Differs(name, prefix, n) PROVE FALSE
      BY <1>1, BelowIs
    <3>1. n < Len(prefix) /\ (n = Len(name) \/ name[n + 1] < prefix[n + 1])
      BY DEF Differs
    <3>2. n + 1 \in 1..Len(prefix) /\ n # Len(name)
      BY <1>1, <2>1, <3>1
    <3>3. name[n + 1] = prefix[n + 1] /\ prefix[n + 1] \in Nat /\ name[n + 1] < prefix[n + 1]
      BY <1>1, <2>1, <3>1, <3>2
    <3> QED BY <3>3
  <2>3. ASSUME NEW b \in StreamPrefixBound(prefix) PROVE Below(name, b)
    <3>1. PICK i : lasting(i) /\ b = BoundAt(prefix, i)
      BY <1>2
    <3>2. i \in 1..Len(prefix) /\ prefix[i] # LastScalar /\ prefix[i] \in Scalars
      BY <1>1, <1>3, <3>1
    <3>3. /\ b \in Seq(Nat) /\ Len(b) = i /\ b[i] = NextScalar(prefix[i])
          /\ \A j \in 1..(i - 1) : b[j] = prefix[j]
      <4>1. i \in DOMAIN prefix
        BY <1>1, <3>2
      <4>2. Stepped(prefix, i, BoundAt(prefix, i))
        BY <3>2, <4>1, BoundIs
      <4> QED BY <3>1, <4>2 DEF Stepped
    <3>4. prefix[i] < NextScalar(prefix[i])
      BY <3>2, NextIsNext
    <3>5. i - 1 \in Nat /\ (i - 1) + 1 = i /\ i - 1 <= Len(name) /\ i - 1 < i
          /\ \A j \in 1..(i - 1) : j \in 1..Len(prefix)
      BY <1>1, <2>1, <3>2
    <3>6. name[i] < b[i] /\ \A j \in 1..(i - 1) : name[j] = b[j]
      BY <2>1, <3>2, <3>3, <3>4, <3>5
    <3>7. Differs(name, b, i - 1)
      BY <3>3, <3>5, <3>6 DEF Differs
    <3> QED BY <1>1, <3>3, <3>5, <3>7, BelowIs
  <2> QED BY <2>2, <2>3 DEF InRange
<1>5. ASSUME InRange(name, prefix), ~IsPrefix(prefix, name) PROVE FALSE
  <2>1. ~Below(name, prefix) /\ \A b \in StreamPrefixBound(prefix) : Below(name, b)
    BY <1>5 DEF InRange
  <2>2. name # prefix
    BY <1>1, <1>5, PrefixIs
  <2>3. PICK n \in Nat : Differs(prefix, name, n)
    BY <1>1, <2>1, <2>2, BelowIsTotal, BelowIs
  <2>4. /\ n <= Len(prefix) /\ n < Len(name) /\ \A i \in 1..n : prefix[i] = name[i]
        /\ n = Len(prefix) \/ prefix[n + 1] < name[n + 1]
    BY <2>3 DEF Differs
  <2>5. n # Len(prefix)
    <3> SUFFICES ASSUME n = Len(prefix) PROVE FALSE
      OBVIOUS
    <3>1. Len(prefix) <= Len(name)
      BY <1>1, <2>4
    <3> QED BY <1>1, <1>5, <2>4, <3>1, PrefixIs
  <2>6. /\ n + 1 \in 1..Len(prefix) /\ n + 1 \in 1..Len(name)
        /\ prefix[n + 1] < name[n + 1]
    <3> DEFINE a == Len(prefix)
               b == Len(name)
    <3>1. a \in Nat /\ b \in Nat /\ n <= a /\ n # a /\ n < b
      BY <1>1, <2>4, <2>5
    <3> HIDE DEF a, b
    <3>2. n + 1 \in 1..a /\ n + 1 \in 1..b
      BY <3>1
    <3> QED BY <2>4, <2>5, <3>2 DEF a, b
  <2>7. prefix[n + 1] # LastScalar
    <3>1. name[n + 1] <= LastScalar /\ name[n + 1] \in Nat /\ LastScalar \in Nat
      BY <1>1, <2>6, CatalogAssumption
    <3> QED BY <2>6, <3>1
  <2>8. PICK i \in 1..Len(prefix) : n + 1 <= i /\ lasting(i)
    <3> DEFINE X == {j \in 1..Len(prefix) : prefix[j] # LastScalar}
    <3>1. X \in SUBSET (0..Len(prefix)) /\ n + 1 \in X
      BY <1>1, <2>6, <2>7
    <3>2. MaxOrZero(X) \in X /\ \A j \in X : j <= MaxOrZero(X)
      <4> HIDE DEF X
      <4> QED BY <1>1, <3>1, MaxOrZeroBound
    <3> DEFINE i == MaxOrZero(X)
    <3>3. i \in 1..Len(prefix) /\ prefix[i] # LastScalar /\ n + 1 <= i
      BY <3>1, <3>2
    <3> HIDE DEF i
    <3>4. ASSUME NEW j \in (i + 1)..Len(prefix) PROVE prefix[j] = LastScalar
      <4>1. j \in 1..Len(prefix) /\ ~(j <= i)
        BY <1>1, <3>3
      <4> QED BY <3>2, <4>1 DEF i
    <3>5. lasting(i)
      BY <1>1, <3>3, <3>4 DEF lasting
    <3> QED BY <3>3, <3>5
  <2> DEFINE b == BoundAt(prefix, i)
  <2>9. Below(name, b)
    BY <1>2, <2>1, <2>8
  <2>10. /\ b \in Seq(Nat) /\ Len(b) = i /\ b[i] = NextScalar(prefix[i])
         /\ \A j \in 1..(i - 1) : b[j] = prefix[j]
    <3>1. i \in DOMAIN prefix /\ prefix[i] # LastScalar
      BY <1>1, <1>3, <2>8
    <3>2. Stepped(prefix, i, b)
      BY <3>1, BoundIs
    <3> HIDE DEF b
    <3> QED BY <3>2 DEF Stepped
  <2>11. PICK m \in Nat : Differs(name, b, m)
    BY <1>1, <2>9, <2>10, BelowIs
  <2> HIDE DEF b
  <2>12. ~Below(b, name)
    BY <1>1, <2>9, <2>10, BelowIsStrict
  <2>13. CASE n + 1 < i
    <3>1. n + 1 \in 1..(i - 1) /\ n <= i /\ \A j \in 1..n : j \in 1..(i - 1)
      BY <2>8, <2>13
    <3>2. b[n + 1] < name[n + 1] /\ \A j \in 1..n : b[j] = name[j]
      BY <2>4, <2>6, <2>10, <3>1
    <3>3. Differs(b, name, n)
      BY <2>4, <2>10, <3>1, <3>2 DEF Differs
    <3> QED BY <1>1, <2>10, <2>12, <3>3, BelowIs
  <2>14. CASE n + 1 = i
    <3>1. /\ NextScalar(prefix[i]) <= name[i] /\ NextScalar(prefix[i]) \in Nat /\ name[i] \in Nat
      BY <1>1, <2>6, <2>7, <2>14, NextIsNext
    <3>2. \A j \in 1..n : b[j] = name[j]
      BY <2>4, <2>10, <2>14
    <3>3. ~(b[i] < name[i])
      <4> SUFFICES ASSUME b[i] < name[i] PROVE FALSE
        OBVIOUS
      <4>1. Differs(b, name, n)
        BY <2>4, <2>10, <2>14, <3>2 DEF Differs
      <4> QED BY <1>1, <2>10, <2>12, <4>1, BelowIs
    <3>4. b[i] = name[i]
      BY <2>10, <3>1, <3>3
    <3>5. \A j \in 1..i : b[j] = name[j]
      <4>1. \A j \in 1..i : j \in 1..n \/ j = i
        BY <2>14
      <4> QED BY <3>2, <3>4, <4>1
    <3>6. m < i /\ (m = Len(name) \/ name[m + 1] < b[m + 1])
      BY <2>10, <2>11 DEF Differs
    <3>7. m + 1 \in 1..i /\ m + 1 \in 1..Len(name) /\ m # Len(name)
      BY <1>1, <2>6, <2>14, <3>6
    <3>8. name[m + 1] = b[m + 1] /\ name[m + 1] \in Nat /\ name[m + 1] < b[m + 1]
      BY <1>1, <3>5, <3>6, <3>7
    <3> QED BY <3>8
  <2>15. i \in Nat
    BY <2>8
  <2> QED BY <2>8, <2>13, <2>14, <2>15
<1> QED BY <1>4, <1>5
-----------------------------------------------------------------------------
(* The rows of a listing, and a page of them.                              *)

\* What a listing tells.
Told == [key : Seq(Nat), val : Nat \cup Receipt]

\* Finitely many streams were written, and finitely many consumers saved.
Several(d) ==
  /\ IsFiniteSet({s \in Streams : d.next[s] # 1})
  /\ IsFiniteSet({c \in Consumers : d.ckpt[c] # NoRow})

\* Rows that can be listed: finitely many, each with a key of its own.
Listable(S) ==
  /\ IsFiniteSet(S) /\ S \subseteq Told
  /\ \A r, q \in S : r.key = q.key => r = q

\* What finitely many things are mapped to is finite.
LEMMA ImageIsFinite ==
  ASSUME NEW X, IsFiniteSet(X), NEW f, DOMAIN f = X
  PROVE  IsFiniteSet({f[x] : x \in X})
<1> DEFINE T == {f[x] : x \in X}
           g == [x \in X |-> f[x]]
<1>1. g \in Surjection(X, T)
  BY DEF Surjection
<1> HIDE DEF T, g
<1>2. IsFiniteSet(T)
  BY <1>1, FS_Surjection
<1> QED BY <1>2 DEF T

\* Finitely many names or ids with a value each can be listed.
LEMMA ListableBy ==
  ASSUME NEW X, IsFiniteSet(X), NEW key, NEW val, DOMAIN key = X, DOMAIN val = X,
         \A x \in X : key[x] \in Seq(Nat) /\ val[x] \in Nat \cup Receipt,
         \A x, y \in X : key[x] = key[y] => x = y,
         NEW S, S = {[key |-> key[x], val |-> val[x]] : x \in X}
  PROVE  Listable(S)
<1> DEFINE f == [x \in X |-> [key |-> key[x], val |-> val[x]]]
<1>1. S = {f[x] : x \in X} /\ DOMAIN f = X
  OBVIOUS
<1>2. \A x \in X : f[x].key = key[x] /\ f[x] \in Told
  BY DEF Told
<1> HIDE DEF f
<1>3. IsFiniteSet(S)
  <2>1. DOMAIN f = X
    BY <1>1
  <2>2. IsFiniteSet({f[x] : x \in X})
    BY <2>1, ImageIsFinite
  <2> QED BY <1>1, <2>2
<1>4. \A r, q \in S : r.key = q.key => r = q
  BY <1>1, <1>2
<1> QED BY <1>1, <1>2, <1>3, <1>4 DEF Listable

\* Every listing is of rows that can be listed.
LEMMA RowsAreListable ==
  ASSUME NEW d, NEW h, Numbered(d, h), Several(d), NEW of \in Tabled
  PROVE  Listable(Rows(d)[of])
<1>1. /\ d \in Tables /\ IsFiniteSet(d.events) /\ d.events \subseteq Row
      /\ d.next \in [Streams -> Nat \ {0}] /\ d.ckpt \in [Consumers -> Nat \cup {NoRow}]
      /\ d.ledger \in Seq(Nat) /\ d.receipts \in Seq(Receipt)
  BY DEF Numbered, Tables
<1>2. \A name \in Streams \cup Kinds \cup Consumers : name \in Seq(Nat)
  BY ScalarsAreNumbers, CatalogAssumption
<1>3. CASE of = "streams"
  <2> DEFINE X == {q \in Streams : d.next[q] # 1}
             key == [s \in X |-> s]
             val == [s \in X |-> d.next[s] - 1]
             S == {[key |-> s, val |-> NextSeq(d, s) - 1] : s \in X}
  <2>1. Rows(d)[of] = S
    BY <1>3 DEF Rows
  <2>2. S = {[key |-> key[x], val |-> val[x]] : x \in X}
    BY DEF NextSeq
  <2>3. \A x \in X : x \in Streams /\ d.next[x] - 1 \in Nat
    BY <1>1
  <2>4. IsFiniteSet(X)
    BY DEF Several
  <2> HIDE DEF X, S
  <2>5. \A x \in X : key[x] \in Seq(Nat) /\ val[x] \in Nat \cup Receipt
    BY <1>2, <2>3
  <2>6. DOMAIN key = X /\ DOMAIN val = X /\ \A x, y \in X : key[x] = key[y] => x = y
    OBVIOUS
  <2> HIDE DEF key, val
  <2>7. Listable(S)
    BY <2>2, <2>4, <2>5, <2>6, ListableBy
  <2> QED BY <2>1, <2>7
<1>4. CASE of = "kinds"
  <2> DEFINE kind == [r \in d.events |-> r.kind]
             X == {kind[r] : r \in d.events}
             key == [k \in X |-> k]
             val == [k \in X |-> 0]
             S == {[key |-> k, val |-> 0] : k \in {r.kind : r \in d.events}}
  <2>1. Rows(d)[of] = S
    BY <1>4 DEF Rows
  <2>2. S = {[key |-> key[x], val |-> val[x]] : x \in X}
    <3>1. {r.kind : r \in d.events} = X
      OBVIOUS
    <3> HIDE DEF X
    <3> QED BY <3>1
  <2>3. \A x \in X : x \in Kinds
    BY <1>1 DEF Row
  <2>4. IsFiniteSet(X)
    <3>1. DOMAIN kind = d.events
      OBVIOUS
    <3> HIDE DEF kind
    <3> QED BY <1>1, <3>1, ImageIsFinite
  <2> HIDE DEF X, S
  <2>5. \A x \in X : key[x] \in Seq(Nat) /\ val[x] \in Nat \cup Receipt
    BY <1>2, <2>3
  <2>6. DOMAIN key = X /\ DOMAIN val = X /\ \A x, y \in X : key[x] = key[y] => x = y
    OBVIOUS
  <2> HIDE DEF key, val
  <2>7. Listable(S)
    BY <2>2, <2>4, <2>5, <2>6, ListableBy
  <2> QED BY <2>1, <2>7
<1>5. CASE of = "checkpoints"
  <2> DEFINE X == {q \in Consumers : d.ckpt[q] # NoRow}
             key == [c \in X |-> c]
             val == [c \in X |-> d.ckpt[c]]
             S == {[key |-> c, val |-> d.ckpt[c]] : c \in X}
  <2>1. Rows(d)[of] = S
    BY <1>5 DEF Rows
  <2>2. S = {[key |-> key[x], val |-> val[x]] : x \in X}
    OBVIOUS
  <2>3. \A x \in X : x \in Consumers /\ d.ckpt[x] \in Nat
    BY <1>1
  <2>4. IsFiniteSet(X)
    BY DEF Several
  <2> HIDE DEF X, S
  <2>5. \A x \in X : key[x] \in Seq(Nat) /\ val[x] \in Nat \cup Receipt
    BY <1>2, <2>3
  <2>6. DOMAIN key = X /\ DOMAIN val = X /\ \A x, y \in X : key[x] = key[y] => x = y
    OBVIOUS
  <2> HIDE DEF key, val
  <2>7. Listable(S)
    BY <2>2, <2>4, <2>5, <2>6, ListableBy
  <2> QED BY <2>1, <2>7
<1>6. ASSUME NEW seq, seq \in Seq(Nat) \/ seq \in Seq(Receipt), NEW S,
             S = {[key |-> <<i>>, val |-> seq[i]] : i \in DOMAIN seq}
      PROVE  Listable(S)
  <2> DEFINE X == DOMAIN seq
             key == [i \in X |-> <<i>>]
             val == [i \in X |-> seq[i]]
  <2>1. X = 1..Len(seq) /\ Len(seq) \in Nat /\ \A i \in X : seq[i] \in Nat \cup Receipt
    BY <1>6
  <2>2. IsFiniteSet(X)
    BY <2>1, FS_Interval
  <2>3. S = {[key |-> key[i], val |-> val[i]] : i \in X}
    BY <1>6
  <2>4. \A i \in X : i \in Nat
    BY <2>1
  <2> HIDE DEF X
  <2>5. \A x \in X : key[x] \in Seq(Nat) /\ val[x] \in Nat \cup Receipt
    BY <2>1, <2>4
  <2>6. DOMAIN key = X /\ DOMAIN val = X /\ \A x, y \in X : key[x] = key[y] => x = y
    OBVIOUS
  <2> HIDE DEF key, val
  <2> QED BY <2>2, <2>3, <2>5, <2>6, ListableBy
<1>7. CASE of = "ledger"
  BY <1>1, <1>6, <1>7 DEF Rows
<1>8. CASE of = "receipts"
  BY <1>1, <1>6, <1>8 DEF Rows
<1> QED BY <1>3, <1>4, <1>5, <1>7, <1>8 DEF Tabled

\* All of some rows, in the order of their keys.
InKeyOrder(s, S) ==
  /\ s \in Seq(S) /\ Len(s) \in Nat /\ DOMAIN s = 1..Len(s)
  /\ \A i, j \in DOMAIN s : i < j => Below(s[i].key, s[j].key)

\* ORDER BY key.
LEMMA ByKeyIs ==
  ASSUME NEW S, Listable(S)
  PROVE  InKeyOrder(ByKey(S), S) /\ \A r \in S : \E i \in DOMAIN ByKey(S) : ByKey(S)[i] = r
<1> DEFINE upTo == [r \in S |-> {q \in S : q = r \/ Below(q.key, r.key)}]
           s == OrderBy(S, upTo)
<1>1. \A r \in S : r.key \in Seq(Nat)
  BY DEF Listable, Told
<1>2. \A r \in S : \A q : q \in upTo[r] <=> q \in S /\ (q = r \/ Below(q.key, r.key))
  OBVIOUS
<1>3. ByKey(S) = s
  BY DEF ByKey
<1> HIDE DEF upTo
<1>4. Ordering(S, upTo)
  <2>1. \A x, y \in S : x \in upTo[y] \/ y \in upTo[x]
    <3> SUFFICES ASSUME NEW x \in S, NEW y \in S PROVE x \in upTo[y] \/ y \in upTo[x]
      OBVIOUS
    <3>1. x.key = y.key \/ Below(x.key, y.key) \/ Below(y.key, x.key)
      BY <1>1, BelowIsTotal
    <3> QED BY <1>2, <3>1 DEF Listable
  <2>2. ASSUME NEW x \in S, NEW y \in S, x \in upTo[y], NEW z \in upTo[x] PROVE z \in upTo[y]
    <3>1. z \in S /\ (z = x \/ Below(z.key, x.key)) /\ (x = y \/ Below(x.key, y.key))
      BY <1>2, <2>2
    <3>2. Below(z.key, x.key) /\ Below(x.key, y.key) => Below(z.key, y.key)
      BY <1>1, <3>1, BelowGoesOn
    <3> QED BY <1>2, <3>1, <3>2
  <2>3. ASSUME NEW x \in S, NEW y \in S, x \in upTo[y], y \in upTo[x] PROVE x = y
    <3>1. (x = y \/ Below(x.key, y.key)) /\ (y = x \/ Below(y.key, x.key))
      BY <1>2, <2>3
    <3> QED BY <1>1, <3>1, BelowIsStrict
  <2> QED BY <1>2, <2>1, <2>2, <2>3 DEF Ordering
<1>5. InOrderOf(s, S, upTo)
  BY <1>4, Ordered DEF Listable
<1> HIDE DEF s
<1>6. /\ s \in Seq(S) /\ (\A i \in DOMAIN s : s[i] \in S)
      /\ \A i, j \in DOMAIN s : i < j => s[i] \in upTo[s[j]] /\ s[i] # s[j]
      /\ \A r \in S : \E i \in DOMAIN s : s[i] = r
  BY <1>5 DEF InOrderOf
<1>7. Len(s) \in Nat /\ DOMAIN s = 1..Len(s)
  BY <1>6
<1>8. \A i, j \in DOMAIN s : i < j => Below(s[i].key, s[j].key)
  BY <1>2, <1>6
<1> QED BY <1>3, <1>6, <1>7, <1>8 DEF InKeyOrder

\* What is left to list.
Ahead(d, l, found) ==
  {r \in Rows(d)[l.of] : Selects(l, r.key) /\ (found # <<>> => Below(Last(found).key, r.key))}

\* A page is in order, and what is ahead is on it or after it.
PageFrom(page, S, n) ==
  /\ InKeyOrder(page, S)
  /\ \A r \in S : \/ \E i \in DOMAIN page : page[i] = r
                  \/ /\ Len(page) >= n /\ page # <<>>
                     /\ Below(page[Len(page)].key, r.key)

\* The start of what is in order.
LEMMA StartOfOrder ==
  ASSUME NEW s, NEW S, InKeyOrder(s, S), \A r \in S : \E i \in DOMAIN s : s[i] = r,
         NEW k \in 1..Len(s)
  PROVE  PageFrom(SubSeq(s, 1, k), S, k)
<1> DEFINE p == SubSeq(s, 1, k)
<1>1. /\ s \in Seq(S) /\ Len(s) \in Nat /\ DOMAIN s = 1..Len(s) /\ k \in Nat
      /\ \A i, j \in DOMAIN s : i < j => Below(s[i].key, s[j].key)
  BY DEF InKeyOrder
<1>2. /\ p \in Seq(S) /\ Len(p) = k /\ DOMAIN p = 1..k
      /\ \A i \in 1..k : p[i] = s[i]
  BY <1>1
<1> HIDE DEF p
<1>3. \A i \in 1..k : i \in 1..Len(s)
  BY <1>1
<1>4. InKeyOrder(p, S)
  BY <1>1, <1>2, <1>3 DEF InKeyOrder
<1>5. ASSUME NEW r \in S, ~\E i \in DOMAIN p : p[i] = r PROVE Below(p[k].key, r.key)
  <2>1. PICK i \in 1..Len(s) : s[i] = r
    BY <1>1
  <2>2. i \notin 1..k
    <3> SUFFICES ASSUME i \in 1..k PROVE FALSE
      OBVIOUS
    <3>1. i \in DOMAIN p /\ p[i] = r
      BY <1>2, <2>1
    <3> QED BY <1>5, <3>1
  <2>3. i \in Nat \ {0}
    <3> DEFINE n == Len(s)
    <3>1. n \in Nat /\ i \in 1..n
      BY <1>1, <2>1
    <3> HIDE DEF n
    <3> QED BY <3>1
  <2>4. k < i
    BY <1>1, <2>2, <2>3
  <2>5. k \in DOMAIN s /\ i \in DOMAIN s
    BY <1>1, <2>1
  <2>6. k \in 1..k
    <3>1. k \in Nat \ {0}
      OBVIOUS
    <3> QED BY <3>1
  <2>7. p[k] = s[k]
    BY <1>2, <2>6
  <2> QED BY <1>1, <2>1, <2>4, <2>5, <2>7
<1>6. p # <<>>
  BY <1>1, <1>2
<1>7. PageFrom(p, S, k)
  BY <1>1, <1>2, <1>4, <1>5, <1>6 DEF PageFrom
<1> QED BY <1>7 DEF p

\* Whatever the limit, a SELECT gives such a page.
LEMMA PageIsFrom ==
  ASSUME NEW d, NEW h, Numbered(d, h), Several(d), NEW l \in Listings, NEW found
  PROVE  PageFrom(Page(d, l, found), Ahead(d, l, found), l.limit)
<1> DEFINE S == Ahead(d, l, found)
           s == ByKey(S)
           n == l.limit
<1>1. n \in Nat \ {0} /\ l.of \in Tabled /\ MaxStored \in Nat
  BY CatalogAssumption, StoreAssumption
<1>2. Listable(S)
  <2>1. Listable(Rows(d)[l.of])
    BY <1>1, RowsAreListable
  <2>2. S \in SUBSET Rows(d)[l.of]
    BY DEF Ahead
  <2> HIDE DEF S
  <2> QED BY <2>1, <2>2, FS_Subset DEF Listable
<1>3. Page(d, l, found) = Take(s, ClampLimit(n))
  BY DEF Page, Ahead
<1> HIDE DEF S, n
<1>4. InKeyOrder(s, S) /\ \A r \in S : \E i \in DOMAIN s : s[i] = r
  BY <1>2, ByKeyIs
<1> HIDE DEF s
<1>5. PageFrom(s, S, n)
  BY <1>4 DEF PageFrom
<1>6. s \in Seq(S) /\ Len(s) \in Nat
  BY <1>4 DEF InKeyOrder
<1>7. CASE n <= MaxStored /\ n < Len(s)
  <2>1. n \in 1..Len(s)
    BY <1>1, <1>6, <1>7
  <2>2. Take(s, ClampLimit(n)) = SubSeq(s, 1, n)
    BY <1>1, <1>7 DEF Take, ClampLimit
  <2>3. PageFrom(SubSeq(s, 1, n), S, n)
    BY <1>4, <2>1, StartOfOrder
  <2> QED BY <1>3, <2>2, <2>3 DEF S, n
<1>8. CASE n <= MaxStored /\ ~(n < Len(s))
  <2>1. Take(s, ClampLimit(n)) = SubSeq(s, 1, Len(s))
    BY <1>1, <1>8 DEF Take, ClampLimit
  <2>2. SubSeq(s, 1, Len(s)) = s
    BY <1>6
  <2> QED BY <1>3, <1>5, <2>1, <2>2 DEF S, n
<1>9. CASE ~(n <= MaxStored)
  <2>1. Take(s, ClampLimit(n)) = s
    BY <1>1, <1>9 DEF Take, ClampLimit
  <2> QED BY <1>3, <1>5, <2>1 DEF S, n
<1> QED BY <1>7, <1>8, <1>9
-----------------------------------------------------------------------------
(* What the log is while somebody lists it.                                *)

\* A receipt, and the same one later.
Later(r, q) == q.from = r.from /\ q.thr = r.thr /\ q.whole = r.whole /\ (r.landed => q.landed)

\* Tables d that b became, where h is all there ever was: rows go and come above
\* the positions given, and what else is listed stays.
Grown(b, d, h) ==
  /\ b \in Tables /\ b.autoinc <= d.autoinc
  /\ \A r \in b.events : r.pos <= b.autoinc
  /\ d.events \subseteq b.events \cup {q \in h : q.pos > b.autoinc}
  /\ \A s \in Streams : b.next[s] <= d.next[s]
  /\ \A c \in Consumers : b.ckpt[c] # NoRow => d.ckpt[c] # NoRow
  /\ \A i \in DOMAIN b.ledger : i \in DOMAIN d.ledger /\ d.ledger[i] = b.ledger[i]
  /\ \A i \in DOMAIN b.receipts :
       i \in DOMAIN d.receipts /\ Later(b.receipts[i], d.receipts[i])

Writable(d, h) == Numbered(d, h) /\ Several(d)

\* What the parts of tables are.
LEMMA PartsAre ==
  ASSUME NEW d \in Tables
  PROVE  /\ d.autoinc \in Nat /\ d.next \in [Streams -> Nat \ {0}] /\ d.events \in SUBSET Row
         /\ d.ckpt \in [Consumers -> Nat \cup {NoRow}]
         /\ d.ledger \in Seq(Nat) /\ d.receipts \in Seq(Receipt)
BY DEF Tables

\* What is unchanged is grown.
LEMMA GrownAtOnce ==
  ASSUME NEW d, NEW h, Numbered(d, h)
  PROVE  Grown(d, d, h)
<1>1. /\ d \in Tables /\ \A r \in d.events : r.pos <= d.autoinc
  BY DEF Numbered, Dense
<1>2. d.autoinc \in Nat /\ d.next \in [Streams -> Nat \ {0}]
  BY <1>1, PartsAre
<1>3. d.autoinc <= d.autoinc /\ \A s \in Streams : d.next[s] <= d.next[s]
  BY <1>2
<1>4. \A i \in DOMAIN d.receipts : Later(d.receipts[i], d.receipts[i])
  BY DEF Later
<1> QED BY <1>1, <1>3, <1>4 DEF Grown

\* What is grown goes on growing.
LEMMA GrownFurther ==
  ASSUME NEW b, NEW d, NEW h, NEW e, NEW g, Grown(b, d, h), Grown(d, e, g),
         h \subseteq g, g \subseteq Row, e \in Tables
  PROVE  Grown(b, e, g)
<1>1. /\ b \in Tables /\ d \in Tables /\ b.autoinc <= d.autoinc /\ d.autoinc <= e.autoinc
      /\ b.autoinc \in Nat /\ d.autoinc \in Nat /\ e.autoinc \in Nat
  BY PartsAre DEF Grown
<1>2. b.autoinc <= e.autoinc
  BY <1>1
<1>3. e.events \subseteq b.events \cup {q \in g : q.pos > b.autoinc}
  <2> SUFFICES ASSUME NEW r \in e.events, r \notin b.events PROVE r \in g /\ r.pos > b.autoinc
    OBVIOUS
  <2>1. CASE r \in d.events
    BY <2>1 DEF Grown
  <2>2. CASE r \notin d.events
    <3>1. r \in g /\ r.pos > d.autoinc
      BY <2>2 DEF Grown
    <3>2. r.pos \in Nat
      BY <3>1 DEF Row
    <3> QED BY <1>1, <3>1, <3>2
  <2> QED BY <2>1, <2>2
<1>4. \A s \in Streams : b.next[s] <= e.next[s]
  <2> SUFFICES ASSUME NEW s \in Streams PROVE b.next[s] <= e.next[s]
    OBVIOUS
  <2>1. b.next[s] \in Nat /\ d.next[s] \in Nat /\ e.next[s] \in Nat
    BY <1>1, PartsAre
  <2>2. b.next[s] <= d.next[s] /\ d.next[s] <= e.next[s]
    BY DEF Grown
  <2> QED BY <2>1, <2>2
<1>5. /\ \A c \in Consumers : b.ckpt[c] # NoRow => e.ckpt[c] # NoRow
      /\ \A i \in DOMAIN b.ledger : i \in DOMAIN e.ledger /\ e.ledger[i] = b.ledger[i]
  BY DEF Grown
<1>6. ASSUME NEW i \in DOMAIN b.receipts
      PROVE  i \in DOMAIN e.receipts /\ Later(b.receipts[i], e.receipts[i])
  <2>1. i \in DOMAIN d.receipts /\ Later(b.receipts[i], d.receipts[i])
    BY DEF Grown
  <2>2. i \in DOMAIN e.receipts /\ Later(d.receipts[i], e.receipts[i])
    BY <2>1 DEF Grown
  <2> QED BY <2>1, <2>2 DEF Later
<1>7. \A r \in b.events : r.pos <= b.autoinc
  BY DEF Grown
<1> QED BY <1>1, <1>2, <1>3, <1>4, <1>5, <1>6, <1>7 DEF Grown

\* An append makes it grow.
LEMMA AppendGrows ==
  ASSUME NEW d, NEW h, Writable(d, h), NEW s \in Streams, NEW run \in Seq(Event)
  PROVE  /\ Writable(AppendRun(d, s, run), h \cup RunRows(d, s, run))
         /\ Grown(d, AppendRun(d, s, run), h \cup RunRows(d, s, run))
<1> DEFINE e == AppendRun(d, s, run)
           rows == RunRows(d, s, run)
<1>1. Numbered(d, h) /\ d \in Tables /\ Several(d)
  BY DEF Writable, Numbered
<1>2. /\ Numbered(e, h \cup rows) /\ e.events = d.events \cup rows
      /\ Len(run) \in Nat /\ e.autoinc >= d.autoinc
      /\ \A row \in rows : row.pos > d.autoinc
      /\ e.ckpt = d.ckpt /\ e.ledger = d.ledger /\ e.receipts = d.receipts
  <2>1. RunLands(d, h, run, e, rows)
    BY <1>1, RunWritten
  <2> HIDE DEF e, rows
  <2> QED BY <2>1 DEF RunLands
<1>3. e.next = [d.next EXCEPT ![s] = d.next[s] + Len(run)]
  BY <1>1, EventsAreRun, AppendRunType
<1> HIDE DEF e, rows
<1>4. d.autoinc \in Nat /\ d.next \in [Streams -> Nat \ {0}]
  BY <1>1, PartsAre
<1>5. e.autoinc \in Nat
  BY <1>2, PartsAre DEF Numbered
<1>6. \A t \in Streams : /\ d.next[t] <= e.next[t]
                         /\ t # s => e.next[t] = d.next[t]
  <2> SUFFICES ASSUME NEW t \in Streams
               PROVE  d.next[t] <= e.next[t] /\ (t # s => e.next[t] = d.next[t])
    OBVIOUS
  <2>1. d.next[t] \in Nat /\ e.next[t] = IF t = s THEN d.next[t] + Len(run) ELSE d.next[t]
    BY <1>3, <1>4
  <2> QED BY <1>2, <2>1
<1>7. Several(e)
  <2> DEFINE X == {t \in Streams : d.next[t] # 1}
             Y == {t \in Streams : e.next[t] # 1}
  <2>1. Y \in SUBSET (X \cup {s})
    BY <1>6
  <2>2. IsFiniteSet(X)
    BY <1>1 DEF Several
  <2> HIDE DEF X
  <2>3. IsFiniteSet(X \cup {s})
    BY <2>2, FS_AddElement
  <2> HIDE DEF Y
  <2>4. IsFiniteSet(Y)
    BY <2>1, <2>3, FS_Subset
  <2> QED BY <1>1, <1>2, <2>4 DEF Several, Y
<1>8. \A r \in d.events : r.pos <= d.autoinc
  BY <1>1 DEF Numbered, Dense
<1>9. \A i \in DOMAIN d.receipts : Later(d.receipts[i], e.receipts[i])
  BY <1>2 DEF Later
<1>10. Grown(d, e, h \cup rows)
  BY <1>1, <1>2, <1>4, <1>5, <1>6, <1>8, <1>9 DEF Grown
<1> QED BY <1>2, <1>7, <1>10 DEF Writable, e, rows

\* So does a removal: the ledger does.
LEMMA RemoveGrows ==
  ASSUME NEW d, NEW h, Writable(d, h), NEW plan
  PROVE  Writable(RemoveMatching(d, plan), h) /\ Grown(d, RemoveMatching(d, plan), h)
<1> DEFINE e == RemoveMatching(d, plan)
           top == HighestMatching(d, plan)
<1>1. Numbered(d, h) /\ d \in Tables /\ Several(d)
  BY DEF Writable, Numbered
<1>2. /\ Numbered(e, h) /\ e.events = d.events \ Matching(d, plan)
      /\ e.receipts = d.receipts /\ e.autoinc = d.autoinc /\ e.ckpt = d.ckpt
      /\ e.ledger = Append(d.ledger, top)
  BY <1>1, NumberedRemove
<1>3. e.next = d.next
  BY <1>1 DEF RemoveMatching, Tables
<1>4. d.autoinc \in Nat /\ d.next \in [Streams -> Nat \ {0}] /\ d.ledger \in Seq(Nat)
  BY <1>1, PartsAre
<1> HIDE DEF e
<1>5. top \in Nat
  BY <1>1, HighestBounds
<1> HIDE DEF top
<1>6. \A i \in DOMAIN d.ledger : i \in DOMAIN e.ledger /\ e.ledger[i] = d.ledger[i]
  BY <1>2, <1>4, <1>5
<1>7. \A r \in d.events : r.pos <= d.autoinc
  BY <1>1 DEF Numbered, Dense
<1>8. \A i \in DOMAIN d.receipts : Later(d.receipts[i], e.receipts[i])
  BY <1>2 DEF Later
<1>9. d.autoinc <= e.autoinc /\ \A s \in Streams : d.next[s] <= e.next[s]
  BY <1>2, <1>3, <1>4
<1>10. Grown(d, e, h)
  BY <1>1, <1>2, <1>6, <1>7, <1>8, <1>9 DEF Grown
<1>11. Several(e)
  BY <1>1, <1>2, <1>3 DEF Several
<1> QED BY <1>2, <1>10, <1>11 DEF Writable, e

\* A checkpoint that is saved.
LEMMA SaveGrows ==
  ASSUME NEW d, NEW h, Writable(d, h), NEW c \in Consumers, NEW at \in Nat
  PROVE  Writable(SaveCheckpoint(d, c, at), h) /\ Grown(d, SaveCheckpoint(d, c, at), h)
<1> DEFINE e == SaveCheckpoint(d, c, at)
<1>1. Numbered(d, h) /\ d \in Tables /\ Several(d)
  BY DEF Writable, Numbered
<1>2. /\ e \in Tables /\ e.events = d.events /\ e.autoinc = d.autoinc /\ e.next = d.next
      /\ e.ledger = d.ledger /\ e.receipts = d.receipts
      /\ e.ckpt = [d.ckpt EXCEPT ![c] = at]
  <2> DEFINE ckpt == [d.ckpt EXCEPT ![c] = at]
  <2>1. e = [d EXCEPT !.ckpt = ckpt]
    BY <1>1 DEF SaveCheckpoint, Tables
  <2>2. ckpt \in [Consumers -> Nat \cup {NoRow}]
    BY <1>1, PartsAre
  <2> HIDE DEF e, ckpt
  <2>3. /\ e \in Tables /\ e.events = d.events /\ e.autoinc = d.autoinc /\ e.next = d.next
        /\ e.ledger = d.ledger /\ e.receipts = d.receipts /\ e.ckpt = ckpt
    BY <1>1, <2>1, <2>2 DEF Tables
  <2> QED BY <2>3 DEF ckpt
<1> HIDE DEF e
<1>3. \A q \in Consumers : e.ckpt[q] = IF q = c THEN at ELSE d.ckpt[q]
  BY <1>1, <1>2, PartsAre
<1>4. at # NoRow
  BY DEF NoRow
<1>5. Several(e)
  <2> DEFINE X == {q \in Consumers : d.ckpt[q] # NoRow}
             Y == {q \in Consumers : e.ckpt[q] # NoRow}
  <2>1. Y \in SUBSET (X \cup {c})
    BY <1>3
  <2>2. IsFiniteSet(X)
    BY <1>1 DEF Several
  <2> HIDE DEF X
  <2>3. IsFiniteSet(X \cup {c})
    BY <2>2, FS_AddElement
  <2> HIDE DEF Y
  <2>4. IsFiniteSet(Y)
    BY <2>1, <2>3, FS_Subset
  <2> QED BY <1>1, <1>2, <2>4 DEF Several, Y
<1>6. Grown(d, d, h)
  BY <1>1, GrownAtOnce
<1>7. Grown(d, e, h)
  BY <1>2, <1>3, <1>4, <1>6 DEF Grown
<1>8. Numbered(e, h)
  BY <1>1, <1>2 DEF Numbered
<1> QED BY <1>5, <1>7, <1>8 DEF Writable, e

\* Receipts that are more, or the same ones later.
LEMMA ReceiptsGrow ==
  ASSUME NEW d, NEW h, Writable(d, h), NEW rs \in Seq(Receipt),
         \A i \in DOMAIN d.receipts : i \in DOMAIN rs /\ Later(d.receipts[i], rs[i]),
         NEW e, e = [d EXCEPT !.receipts = rs]
  PROVE  Writable(e, h) /\ Grown(d, e, h)
<1>1. Numbered(d, h) /\ d \in Tables /\ Several(d)
  BY DEF Writable, Numbered
<1>2. /\ e \in Tables /\ e.events = d.events /\ e.autoinc = d.autoinc /\ e.next = d.next
      /\ e.ledger = d.ledger /\ e.ckpt = d.ckpt /\ e.receipts = rs
  BY <1>1 DEF Tables
<1>3. Grown(d, d, h)
  BY <1>1, GrownAtOnce
<1>4. Grown(d, e, h)
  BY <1>2, <1>3 DEF Grown
<1>5. Numbered(e, h) /\ Several(e)
  BY <1>1, <1>2 DEF Numbered, Several
<1> QED BY <1>4, <1>5 DEF Writable

\* Every write makes the log grow.
LEMMA WritesGrow ==
  ASSUME Writable(db, history), ColumnsHold, WriteStep
  PROVE  Writable(db', history') /\ Grown(db, db', history') /\ history \subseteq history'
<1>1. db \in Tables /\ Numbered(db, history) /\ db.receipts \in Seq(Receipt)
  BY PartsAre DEF Writable, Numbered
<1>2. ASSUME NEW s \in Streams, NEW run \in Seq(Event), Write([stream |-> s, run |-> run])
      PROVE  Writable(db', history') /\ Grown(db, db', history') /\ history \subseteq history'
  <2>1. db' = AppendRun(db, s, run) /\ history' = history \cup RunRows(db, s, run)
    BY <1>2 DEF Write
  <2> QED BY <2>1, AppendGrows
<1>3. ASSUME db' = db, history' = history
      PROVE  Writable(db', history') /\ Grown(db, db', history') /\ history \subseteq history'
  BY <1>1, <1>3, GrownAtOnce
<1>4. ASSUME NEW a \in Appends, AppendBoth(a)
      PROVE  Writable(db', history') /\ Grown(db, db', history') /\ history \subseteq history'
  <2> DEFINE run == AsWritten(a.run)
  <2>1. a.stream \in Streams /\ run \in Seq(Event)
    BY WrittenIs
  <2>2. a = [stream |-> a.stream, run |-> a.run]
    BY WritersAssumption DEF AppendCall
  <2>3. [a EXCEPT !.run = run] = [stream |-> a.stream, run |-> run]
    BY <2>2
  <2>4. Write([stream |-> a.stream, run |-> run])
    BY <1>4, <2>3 DEF AppendBoth, AsWritten
  <2> HIDE DEF run
  <2> QED BY <1>2, <2>1, <2>4
<1>5. ASSUME NEW q \in Decisions, DecideBoth(q)
      PROVE  Writable(db', history') /\ Grown(db, db', history') /\ history \subseteq history'
  <2>1. q.stream \in Streams /\ <<q.event>> \in Seq(Event)
    BY StoreAssumption
  <2>2. Write([stream |-> q.stream, run |-> <<q.event>>]) \/ UNCHANGED logVars
    BY <1>5 DEF DecideBoth
  <2> QED BY <1>2, <1>3, <2>1, <2>2 DEF logVars
<1>6. ASSUME NEW r \in Removals, TrimStored(r)
      PROVE  Writable(db', history') /\ Grown(db, db', history') /\ history \subseteq history'
  <2>1. db' = RemoveMatching(db, r.plan) /\ history' = history
    BY <1>6 DEF TrimStored, Trim
  <2> QED BY <2>1, RemoveGrows
<1>7. ASSUME NEW c \in Saves, Save(c)
      PROVE  Writable(db', history') /\ Grown(db, db', history') /\ history \subseteq history'
  <2>1. c.consumer \in Consumers /\ c.at \in Nat
    BY CatalogAssumption
  <2>2. db' = SaveCheckpoint(db, c.consumer, c.at) /\ history' = history
    BY <1>7 DEF Save
  <2> QED BY <2>1, <2>2, SaveGrows
<1>8. ASSUME NEW p \in Pages, TakePage(p)
      PROVE  Writable(db', history') /\ Grown(db, db', history') /\ history \subseteq history'
  <2> DEFINE r == [from |-> p.from, thr |-> p.thr, landed |-> FALSE, whole |-> p.whole]
             rs == Append(db.receipts, r)
  <2>1. r \in Receipt
    BY CatalogAssumption DEF Receipt
  <2>2. db' = [db EXCEPT !.receipts = rs] /\ history' = history
    BY <1>1, <1>8 DEF TakePage, RecordReceipt, Tables
  <2> HIDE DEF r
  <2>3. rs \in Seq(Receipt) /\ \A i \in DOMAIN db.receipts : i \in DOMAIN rs /\ rs[i] = db.receipts[i]
    BY <1>1, <2>1
  <2> HIDE DEF rs
  <2>4. \A i \in DOMAIN db.receipts : i \in DOMAIN rs /\ Later(db.receipts[i], rs[i])
    BY <2>3 DEF Later
  <2> QED BY <2>2, <2>3, <2>4, ReceiptsGrow
<1>9. ASSUME NEW id \in DOMAIN db.receipts, Land(id)
      PROVE  Writable(db', history') /\ Grown(db, db', history') /\ history \subseteq history'
  <2> DEFINE R == db.receipts
             r == [R[id] EXCEPT !.landed = TRUE]
             rs == [R EXCEPT ![id] = r]
  <2>1. db' = [db EXCEPT !.receipts = rs] /\ history' = history
    BY <1>1, <1>9 DEF Land, ConfirmReceipt, Tables
  <2>2. R[id] \in Receipt
    BY <1>1
  <2>3. r \in Receipt /\ r.from = R[id].from /\ r.thr = R[id].thr /\ r.whole = R[id].whole /\ r.landed
    BY <2>2 DEF Receipt
  <2>4. Len(R) \in Nat /\ R \in [1..Len(R) -> Receipt] /\ id \in 1..Len(R)
    BY <1>1
  <2> HIDE DEF R, r
  <2>5. /\ rs \in [1..Len(R) -> Receipt]
        /\ \A i \in 1..Len(R) : rs[i] = IF i = id THEN r ELSE R[i]
    BY <2>3, <2>4
  <2> HIDE DEF rs
  <2>6. rs \in Seq(Receipt)
    BY <2>4, <2>5
  <2>7. \A i \in DOMAIN R : i \in DOMAIN rs /\ Later(R[i], rs[i])
    BY <2>3, <2>4, <2>5 DEF Later
  <2> QED BY <2>1, <2>6, <2>7, ReceiptsGrow DEF R
<1> QED BY <1>4, <1>5, <1>6, <1>7, <1>8, <1>9 DEF WriteStep, StoreStep
-----------------------------------------------------------------------------
(* A listing, in terms of the tables b it began with and d there are now.  *)

KeysAt(l, d) == {r.key : r \in Rows(d)[l.of]}

StayedIn(l, b, d) ==
  IF l.of = "kinds" THEN {r.kind : r \in b.events \cap d.events} ELSE KeysAt(l, b)

SeenIn(l, b, d, h) ==
  IF l.of = "kinds" THEN {r.kind : r \in b.events \cup {q \in h : q.pos > b.autoinc}}
  ELSE KeysAt(l, d)

PassedBy(pc, f, key) == pc = "done" \/ (f # <<>> /\ ~Below(Last(f).key, key))

WantedBy(l, key) == l.of = "streams" => IsPrefix(l.prefix, key)

\* A row that was told: it was asked for, was there, and said what was true then.
RowOK(l, b, d, h, row) ==
  /\ WantedBy(l, row.key) /\ row.key \in SeenIn(l, b, d, h)
  /\ l.of = "streams" => /\ row.key \in Streams /\ row.val \in Nat
                         /\ b.next[row.key] - 1 <= row.val /\ row.val < d.next[row.key]
  /\ l.of = "ledger" =>
       \E i \in DOMAIN d.ledger : row.key = <<i>> /\ row.val = d.ledger[i]
  /\ l.of = "receipts" =>
       \E i \in DOMAIN d.receipts :
         /\ row.key = <<i>> /\ row.val \in Receipt /\ Later(row.val, d.receipts[i])
         /\ i \in DOMAIN b.receipts => Later(b.receipts[i], row.val)

\* The listing l that has come to f and stands at pc.
ListsTruly(pc, l, f, b, d, h) ==
  /\ l \in Listings /\ f \in Seq(Told) /\ Grown(b, d, h)
  /\ \A i, j \in DOMAIN f : i < j => Below(f[i].key, f[j].key)
  /\ \A key \in StayedIn(l, b, d) :
       WantedBy(l, key) /\ PassedBy(pc, f, key) => \E i \in DOMAIN f : f[i].key = key
  /\ \A i \in DOMAIN f : RowOK(l, b, d, h, f[i])

\* The prefix selects what begins with it.
LEMMA SelectedIsWanted ==
  ASSUME NEW l \in Listings, NEW key, l.of = "streams" => key \in Streams
  PROVE  Selects(l, key) <=> WantedBy(l, key)
<1>1. CASE l.of # "streams"
  BY <1>1 DEF Selects, WantedBy
<1>2. CASE l.of = "streams"
  <2>1. key \in Name /\ l.prefix \in Name /\ key \in Seq(Nat) /\ l.prefix \in Seq(Nat)
    BY <1>2, ScalarsAreNumbers, CatalogAssumption
  <2>2. l.prefix = <<>> => IsPrefix(l.prefix, key)
    <3> SUFFICES ASSUME l.prefix = <<>> PROVE IsPrefix(l.prefix, key)
      OBVIOUS
    <3>1. Len(l.prefix) = 0 /\ Len(key) \in Nat
      BY <2>1
    <3>2. Len(l.prefix) <= Len(key) /\ \A i \in 1..Len(l.prefix) : l.prefix[i] = key[i]
      BY <3>1
    <3> QED BY <2>1, <3>2, PrefixIs
  <2>3. InRange(key, l.prefix) <=> IsPrefix(l.prefix, key)
    BY <2>1, RangeIsPrefix
  <2> QED BY <1>2, <2>2, <2>3 DEF Selects, WantedBy
<1> QED BY <1>1, <1>2

\* A row that is selected is told truly.
LEMMA RowIsTrue ==
  ASSUME NEW b, NEW d, NEW h, Writable(d, h), Grown(b, d, h), NEW l \in Listings,
         NEW row \in Rows(d)[l.of], Selects(l, row.key)
  PROVE  RowOK(l, b, d, h, row)
<1>1. d \in Tables /\ b \in Tables /\ l.of \in Tabled
  BY CatalogAssumption DEF Writable, Numbered, Grown
<1>2. /\ d.next \in [Streams -> Nat \ {0}] /\ b.next \in [Streams -> Nat \ {0}]
      /\ d.ledger \in Seq(Nat) /\ d.receipts \in Seq(Receipt)
  BY <1>1, PartsAre
<1>3. row.key \in KeysAt(l, d)
  BY DEF KeysAt
<1>4. CASE l.of = "streams"
  <2>1. PICK s \in Streams : row = [key |-> s, val |-> NextSeq(d, s) - 1]
    BY <1>4 DEF Rows
  <2>2. d.next[s] \in Nat \ {0} /\ b.next[s] \in Nat \ {0} /\ b.next[s] <= d.next[s]
    BY <1>2 DEF Grown
  <2>3. row.key = s /\ row.val = d.next[s] - 1
    BY <2>1 DEF NextSeq
  <2>4. row.val \in Nat /\ b.next[s] - 1 <= row.val /\ row.val < d.next[s]
    BY <2>2, <2>3
  <2>5. WantedBy(l, row.key)
    BY <2>3, SelectedIsWanted
  <2> QED BY <1>3, <1>4, <2>3, <2>4, <2>5 DEF RowOK, SeenIn
<1>5. CASE l.of = "kinds"
  <2>1. PICK r \in d.events : row.key = r.kind
    BY <1>5 DEF Rows
  <2>2. r \in b.events \cup {q \in h : q.pos > b.autoinc}
    BY DEF Grown
  <2>3. row.key \in SeenIn(l, b, d, h)
    BY <1>5, <2>1, <2>2 DEF SeenIn
  <2> QED BY <1>5, <2>3 DEF RowOK, WantedBy
<1>6. CASE l.of = "checkpoints"
  BY <1>3, <1>6 DEF RowOK, WantedBy, SeenIn
<1>7. CASE l.of = "ledger"
  <2>1. PICK i \in DOMAIN d.ledger : row = [key |-> <<i>>, val |-> d.ledger[i]]
    BY <1>7 DEF Rows
  <2> QED BY <1>3, <1>7, <2>1 DEF RowOK, WantedBy, SeenIn
<1>8. CASE l.of = "receipts"
  <2>1. PICK i \in DOMAIN d.receipts : row = [key |-> <<i>>, val |-> d.receipts[i]]
    BY <1>8 DEF Rows
  <2>2. d.receipts[i] \in Receipt
    BY <1>2
  <2>3. i \in DOMAIN b.receipts => Later(b.receipts[i], d.receipts[i])
    BY DEF Grown
  <2>4. Later(d.receipts[i], d.receipts[i])
    BY DEF Later
  <2>5. row.key = <<i>> /\ row.val = d.receipts[i]
    BY <2>1
  <2> QED BY <1>3, <1>8, <2>2, <2>3, <2>4, <2>5 DEF RowOK, WantedBy, SeenIn
<1> QED BY <1>1, <1>4, <1>5, <1>6, <1>7, <1>8 DEF Tabled

\* No key leaves a listing but those of kinds.
LEMMA KeysStay ==
  ASSUME NEW d, NEW e, NEW g, Grown(d, e, g), e \in Tables, NEW l, l.of \in Tabled,
         l.of # "kinds"
  PROVE  KeysAt(l, d) \subseteq KeysAt(l, e)
<1>1. d \in Tables
  BY DEF Grown
<1>2. /\ d.next \in [Streams -> Nat \ {0}] /\ e.next \in [Streams -> Nat \ {0}]
      /\ d.ledger \in Seq(Nat) /\ d.receipts \in Seq(Receipt)
  BY <1>1, PartsAre
<1> SUFFICES ASSUME NEW r \in Rows(d)[l.of] PROVE \E q \in Rows(e)[l.of] : q.key = r.key
  BY DEF KeysAt
<1>3. CASE l.of = "streams"
  <2>1. PICK s \in Streams : d.next[s] # 1 /\ r.key = s
    BY <1>3 DEF Rows
  <2>2. e.next[s] # 1
    <3>1. d.next[s] \in Nat \ {0} /\ e.next[s] \in Nat \ {0} /\ d.next[s] <= e.next[s]
      BY <1>2 DEF Grown
    <3> QED BY <2>1, <3>1
  <2>3. [key |-> s, val |-> NextSeq(e, s) - 1] \in Rows(e)[l.of]
    BY <1>3, <2>2 DEF Rows
  <2> QED BY <2>1, <2>3
<1>4. CASE l.of = "checkpoints"
  <2>1. PICK c \in Consumers : d.ckpt[c] # NoRow /\ r.key = c
    BY <1>4 DEF Rows
  <2>2. e.ckpt[c] # NoRow
    BY <2>1 DEF Grown
  <2>3. [key |-> c, val |-> e.ckpt[c]] \in Rows(e)[l.of]
    BY <1>4, <2>2 DEF Rows
  <2> QED BY <2>1, <2>3
<1>5. CASE l.of = "ledger"
  <2>1. PICK i \in DOMAIN d.ledger : r.key = <<i>>
    BY <1>5 DEF Rows
  <2>2. i \in DOMAIN e.ledger
    BY DEF Grown
  <2>3. [key |-> <<i>>, val |-> e.ledger[i]] \in Rows(e)[l.of]
    BY <1>5, <2>2 DEF Rows
  <2> QED BY <2>1, <2>3
<1>6. CASE l.of = "receipts"
  <2>1. PICK i \in DOMAIN d.receipts : r.key = <<i>>
    BY <1>6 DEF Rows
  <2>2. i \in DOMAIN e.receipts
    BY DEF Grown
  <2>3. [key |-> <<i>>, val |-> e.receipts[i]] \in Rows(e)[l.of]
    BY <1>6, <2>2 DEF Rows
  <2> QED BY <2>1, <2>3
<1> QED BY <1>3, <1>4, <1>5, <1>6 DEF Tabled

\* What was told truly stays so.
LEMMA RowStaysTrue ==
  ASSUME NEW b, NEW d, NEW h, NEW e, NEW g, Grown(b, d, h), Grown(d, e, g), h \subseteq g,
         e \in Tables, NEW l \in Listings, NEW row, RowOK(l, b, d, h, row)
  PROVE  RowOK(l, b, e, g, row)
<1>1. l.of \in Tabled /\ d \in Tables
  BY CatalogAssumption DEF Grown
<1>2. d.next \in [Streams -> Nat \ {0}] /\ e.next \in [Streams -> Nat \ {0}]
  BY <1>1, PartsAre
<1>3. row.key \in SeenIn(l, b, e, g)
  <2>1. row.key \in SeenIn(l, b, d, h)
    BY DEF RowOK
  <2>2. CASE l.of = "kinds"
    BY <2>1, <2>2 DEF SeenIn
  <2>3. CASE l.of # "kinds"
    BY <1>1, <2>1, <2>3, KeysStay DEF SeenIn
  <2> QED BY <2>2, <2>3
<1>4. ASSUME l.of = "streams" PROVE row.val < e.next[row.key]
  <2>1. row.key \in Streams /\ row.val \in Nat /\ row.val < d.next[row.key]
    BY <1>4 DEF RowOK
  <2>2. d.next[row.key] \in Nat /\ e.next[row.key] \in Nat /\ d.next[row.key] <= e.next[row.key]
    BY <1>2, <2>1 DEF Grown
  <2> QED BY <2>1, <2>2
<1>5. ASSUME l.of = "ledger"
      PROVE  \E i \in DOMAIN e.ledger : row.key = <<i>> /\ row.val = e.ledger[i]
  <2>1. PICK i \in DOMAIN d.ledger : row.key = <<i>> /\ row.val = d.ledger[i]
    BY <1>5 DEF RowOK
  <2> QED BY <2>1 DEF Grown
<1>6. ASSUME l.of = "receipts"
      PROVE  \E i \in DOMAIN e.receipts :
               /\ row.key = <<i>> /\ row.val \in Receipt /\ Later(row.val, e.receipts[i])
               /\ i \in DOMAIN b.receipts => Later(b.receipts[i], row.val)
  <2>1. PICK i \in DOMAIN d.receipts :
          /\ row.key = <<i>> /\ row.val \in Receipt /\ Later(row.val, d.receipts[i])
          /\ i \in DOMAIN b.receipts => Later(b.receipts[i], row.val)
    BY <1>6 DEF RowOK
  <2>2. i \in DOMAIN e.receipts /\ Later(d.receipts[i], e.receipts[i])
    BY DEF Grown
  <2>3. Later(row.val, e.receipts[i])
    BY <2>1, <2>2 DEF Later
  <2> QED BY <2>1, <2>2, <2>3
<1> QED BY <1>3, <1>4, <1>5, <1>6 DEF RowOK

\* What stays later stays now.
LEMMA StayedShrinks ==
  ASSUME NEW b, NEW d, NEW h, NEW e, NEW g, Grown(b, d, h), Grown(d, e, g), e \in Tables,
         NEW l
  PROVE  StayedIn(l, b, e) \subseteq StayedIn(l, b, d)
<1>1. ASSUME NEW r \in b.events, r \in e.events PROVE r \in d.events
  <2>1. r.pos \in Nat /\ b.autoinc \in Nat /\ d.autoinc \in Nat
    BY PartsAre DEF Grown, Row
  <2>2. r.pos <= b.autoinc /\ b.autoinc <= d.autoinc
    BY DEF Grown
  <2>3. r \in d.events \/ r.pos > d.autoinc
    BY <1>1 DEF Grown
  <2> QED BY <2>1, <2>2, <2>3
<1> QED BY <1>1 DEF StayedIn

\* A key that stays has a row to select.
LEMMA StayedIsListed ==
  ASSUME NEW b, NEW d, NEW h, Writable(d, h), Grown(b, d, h), NEW l \in Listings,
         NEW key \in StayedIn(l, b, d), WantedBy(l, key)
  PROVE  \E row \in Rows(d)[l.of] : row.key = key /\ Selects(l, key)
<1>1. d \in Tables /\ l.of \in Tabled
  BY CatalogAssumption DEF Writable, Numbered
<1>2. \E row \in Rows(d)[l.of] : row.key = key
  <2>1. CASE l.of = "kinds"
    <3>1. PICK r \in d.events : r.kind = key
      BY <2>1 DEF StayedIn
    <3>2. Rows(d)[l.of] = {[key |-> k, val |-> 0] : k \in {q.kind : q \in d.events}}
      BY <2>1 DEF Rows
    <3>3. key \in {q.kind : q \in d.events}
      BY <3>1
    <3>4. [key |-> key, val |-> 0] \in Rows(d)[l.of]
      BY <3>2, <3>3
    <3> QED BY <3>4
  <2>2. CASE l.of # "kinds"
    <3>1. key \in KeysAt(l, b)
      BY <2>2 DEF StayedIn
    <3>2. key \in KeysAt(l, d)
      BY <1>1, <2>2, <3>1, KeysStay
    <3> QED BY <3>2 DEF KeysAt
  <2> QED BY <2>1, <2>2
<1>3. l.of = "streams" => key \in Streams
  BY <1>2 DEF Rows
<1> QED BY <1>2, <1>3, SelectedIsWanted

\* A listing begins.
LEMMA ListsFromNothing ==
  ASSUME NEW d, NEW h, Writable(d, h), NEW l \in Listings
  PROVE  ListsTruly("paging", l, <<>>, d, d, h)
<1>1. Grown(d, d, h)
  BY GrownAtOnce DEF Writable
<1>2. <<>> \in Seq(Told) /\ DOMAIN <<>> = {}
  OBVIOUS
<1> QED BY <1>1, <1>2 DEF ListsTruly, PassedBy

\* The log is written meanwhile.
LEMMA ListsOnWrite ==
  ASSUME NEW pc, NEW l, NEW f, NEW b, NEW d, NEW h, NEW e, NEW g,
         ListsTruly(pc, l, f, b, d, h), Writable(e, g), Grown(d, e, g), h \subseteq g
  PROVE  ListsTruly(pc, l, f, b, e, g)
<1>1. e \in Tables /\ g \subseteq Row /\ Grown(b, d, h) /\ l \in Listings
  BY DEF Writable, Numbered, ListsTruly
<1>2. Grown(b, e, g)
  BY <1>1, GrownFurther
<1>3. \A i \in DOMAIN f : RowOK(l, b, e, g, f[i])
  BY <1>1, RowStaysTrue DEF ListsTruly
<1>4. StayedIn(l, b, e) \subseteq StayedIn(l, b, d)
  BY <1>1, StayedShrinks
<1> QED BY <1>1, <1>2, <1>3, <1>4 DEF ListsTruly

\* A page is added.
LEMMA ListsAPage ==
  ASSUME NEW l, NEW f, NEW b, NEW d, NEW h, Writable(d, h), ListsTruly("paging", l, f, b, d, h),
         NEW page, page = Page(d, l, f),
         NEW pc, pc = IF Len(page) < l.limit THEN "done" ELSE "paging"
  PROVE  ListsTruly(pc, l, f \o page, b, d, h)
<1> DEFINE S == Ahead(d, l, f)
           g == f \o page
           n == Len(f)
           k == Len(page)
<1>1. /\ l \in Listings /\ f \in Seq(Told) /\ Grown(b, d, h)
      /\ \A i, j \in DOMAIN f : i < j => Below(f[i].key, f[j].key)
      /\ \A key \in StayedIn(l, b, d) :
           WantedBy(l, key) /\ PassedBy("paging", f, key) => \E i \in DOMAIN f : f[i].key = key
      /\ \A i \in DOMAIN f : RowOK(l, b, d, h, f[i])
      /\ l.of \in Tabled /\ l.limit \in Nat
  BY CatalogAssumption DEF ListsTruly
<1>2. PageFrom(page, S, l.limit)
  BY <1>1, PageIsFrom DEF Writable
<1>3. /\ page \in Seq(S) /\ k \in Nat /\ DOMAIN page = 1..k
      /\ \A i, j \in DOMAIN page : i < j => Below(page[i].key, page[j].key)
      /\ \A r \in S : \/ \E i \in DOMAIN page : page[i] = r
                      \/ k >= l.limit /\ page # <<>> /\ Below(page[k].key, r.key)
  BY <1>2 DEF PageFrom, InKeyOrder
<1>4. S \subseteq Told /\ \A r \in S : r \in Rows(d)[l.of] /\ Selects(l, r.key)
                                       /\ (f # <<>> => Below(f[n].key, r.key))
  <2>1. Rows(d)[l.of] \subseteq Told
    BY <1>1, RowsAreListable DEF Listable, Writable
  <2> QED BY <2>1 DEF Ahead, Last
<1>5. \A r \in Rows(d)[l.of] : Selects(l, r.key) /\ (f # <<>> => Below(f[n].key, r.key)) => r \in S
  BY DEF Ahead, Last
<1> HIDE DEF S
<1>6. page \in Seq(Told) /\ \A i \in 1..k : page[i] \in S
  <2>1. page \in [1..k -> S]
    BY <1>3
  <2>2. page \in [1..k -> Told]
    BY <1>4, <2>1
  <2> HIDE DEF k
  <2> QED BY <1>3, <2>1, <2>2
<1>7. n \in Nat /\ DOMAIN f = 1..n /\ \A i \in 1..n : f[i] \in Told
  BY <1>1
<1>8. g \in Seq(Told) /\ JoinOf(g, f, page)
  BY <1>1, <1>6, Joined
<1> HIDE DEF g
<1>9. /\ Len(g) = n + k /\ DOMAIN g = 1..(n + k)
      /\ \A i \in 1..n : g[i] = f[i]
      /\ \A i \in 1..k : g[n + i] = page[i]
  BY <1>8 DEF JoinOf
<1> DEFINE late(i) == i - n
<1>10. \A i \in 1..(n + k) : i \in 1..n \/ (late(i) \in 1..k /\ i = n + late(i) /\ i > n)
  <2> HIDE DEF n, k
  <2> QED BY <1>3, <1>7
<1>11. \A i \in 1..(n + k) : i \notin 1..n => g[i] = page[late(i)] /\ page[late(i)] \in S
  BY <1>6, <1>9, <1>10
<1>12. ASSUME NEW i \in DOMAIN g, NEW j \in DOMAIN g, i < j PROVE Below(g[i].key, g[j].key)
  <2>1. CASE j \in 1..n
    <3>1. i \in 1..n
      <4> HIDE DEF n, k
      <4> QED BY <1>3, <1>7, <1>9, <1>12, <2>1
    <3> QED BY <1>1, <1>7, <1>9, <1>12, <2>1, <3>1
  <2>2. CASE i \notin 1..n
    <3>1. j \notin 1..n /\ late(i) \in 1..k /\ late(j) \in 1..k /\ late(i) < late(j)
      <4> HIDE DEF n, k
      <4> QED BY <1>3, <1>7, <1>9, <1>10, <1>12, <2>2
    <3>2. g[i] = page[late(i)] /\ g[j] = page[late(j)]
      BY <1>9, <1>11, <2>2, <3>1
    <3> QED BY <1>3, <3>1, <3>2
  <2>3. CASE i \in 1..n /\ j \notin 1..n
    <3> DEFINE r == page[late(j)]
    <3>1. g[i] = f[i] /\ g[j] = r /\ r \in S
      BY <1>9, <1>11, <2>3
    <3>2. n \in 1..n /\ f # <<>> /\ (i = n \/ i < n)
      <4>1. f # <<>>
        BY <1>7, <2>3
      <4> HIDE DEF n
      <4> QED BY <1>7, <2>3, <4>1
    <3>3. Below(f[n].key, r.key) /\ r \in Told
      BY <1>4, <3>1, <3>2
    <3>4. i < n => Below(f[i].key, f[n].key)
      BY <1>1, <1>7, <2>3, <3>2
    <3>5. f[i].key \in Seq(Nat) /\ f[n].key \in Seq(Nat) /\ r.key \in Seq(Nat)
      BY <1>7, <2>3, <3>2, <3>3 DEF Told
    <3> HIDE DEF r
    <3>6. Below(f[i].key, r.key)
      BY <3>2, <3>3, <3>4, <3>5, BelowGoesOn
    <3> QED BY <3>1, <3>6
  <2> QED BY <2>1, <2>2, <2>3
<1>13. ASSUME NEW i \in DOMAIN g PROVE RowOK(l, b, d, h, g[i])
  <2>1. CASE i \in 1..n
    BY <1>1, <1>7, <1>9, <2>1
  <2>2. CASE i \notin 1..n
    <3>1. g[i] \in S
      BY <1>9, <1>11, <2>2
    <3> QED BY <1>1, <1>4, <3>1, RowIsTrue
  <2> QED BY <2>1, <2>2
<1>14. ASSUME NEW key \in StayedIn(l, b, d), WantedBy(l, key), PassedBy(pc, g, key)
       PROVE  \E i \in DOMAIN g : g[i].key = key
  <2>1. PICK row \in Rows(d)[l.of] : row.key = key /\ Selects(l, key)
    BY <1>1, <1>14, StayedIsListed
  <2>2. CASE row \notin S
    <3>1. f # <<>> /\ ~Below(Last(f).key, key)
      BY <1>5, <2>1, <2>2 DEF Last
    <3>2. PICK i \in 1..n : f[i].key = key
      BY <1>1, <1>7, <1>14, <3>1 DEF PassedBy
    <3>3. i \in DOMAIN g
      <4> HIDE DEF n, k
      <4> QED BY <1>3, <1>7, <1>9
    <3> QED BY <1>9, <3>2, <3>3
  <2>3. ASSUME NEW i \in 1..k, page[i] = row PROVE \E j \in DOMAIN g : g[j].key = key
    <3>1. n + i \in DOMAIN g
      <4> HIDE DEF n, k
      <4> QED BY <1>3, <1>7, <1>9
    <3> QED BY <1>9, <2>1, <2>3, <3>1
  <2>4. CASE k >= l.limit /\ page # <<>> /\ Below(page[k].key, row.key)
    <3>1. pc = "paging"
      <4>1. ~(k < l.limit)
        <5> HIDE DEF k
        <5> QED BY <1>1, <1>3, <2>4
      <4> QED BY <4>1
    <3>2. k \in 1..k
      <4>1. k # 0
        BY <1>6, <2>4
      <4> HIDE DEF k
      <4> QED BY <1>3, <4>1
    <3>3. Last(g) = page[k]
      BY <1>9, <3>2 DEF Last
    <3> QED BY <1>14, <2>1, <2>4, <3>1, <3>3 DEF PassedBy
  <2> QED BY <1>3, <2>2, <2>3, <2>4
<1> QED BY <1>1, <1>8, <1>12, <1>13, <1>14 DEF ListsTruly, g
-----------------------------------------------------------------------------
(* What a whole listing is evidence of.                                    *)

\* More numbers have no less a maximum.
LEMMA MoreIsNoLess ==
  ASSUME NEW S \in SUBSET Nat, NEW T \in SUBSET Nat, S \subseteq T, IsFiniteSet(T)
  PROVE  MaxOrZero(S) \in Nat /\ MaxOrZero(T) \in Nat /\ MaxOrZero(S) <= MaxOrZero(T)
<1>1. PICK n \in Nat : \A x \in T : x <= n
  BY FiniteBound
<1>2. S \in SUBSET (0..n) /\ T \in SUBSET (0..n)
  BY <1>1
<1>3. /\ MaxOrZero(S) \in 0..n /\ (S # {} => MaxOrZero(S) \in S)
      /\ MaxOrZero(T) \in 0..n /\ \A p \in T : p <= MaxOrZero(T)
  BY <1>2, MaxOrZeroBound
<1>4. S = {} => MaxOrZero(S) = 0
  BY DEF MaxOrZero
<1> QED BY <1>3, <1>4

\* What a sequence of numbers holds is finite.
LEMMA HeldIsFinite ==
  ASSUME NEW s \in Seq(Nat)
  PROVE  IsFiniteSet({s[i] : i \in DOMAIN s}) /\ {s[i] : i \in DOMAIN s} \in SUBSET Nat
<1>1. Len(s) \in Nat /\ DOMAIN s = 1..Len(s) /\ \A i \in DOMAIN s : s[i] \in Nat
  OBVIOUS
<1>2. IsFiniteSet(DOMAIN s)
  BY <1>1, FS_Interval
<1>3. IsFiniteSet({s[i] : i \in DOMAIN s})
  BY <1>2, ImageIsFinite
<1> QED BY <1>1, <1>3

\* The ledger of e has every mark of the one of d.
MarksAll(d, e) ==
  \A i \in DOMAIN d.ledger : \E j \in DOMAIN e.ledger : e.ledger[j] = d.ledger[i]

\* More of a ledger has no lower a watermark.
LEMMA MoreIsNoLower ==
  ASSUME NEW d, NEW e, d.ledger \in Seq(Nat), e.ledger \in Seq(Nat), MarksAll(d, e)
  PROVE  Watermark(d) <= Watermark(e)
<1> DEFINE S == {d.ledger[i] : i \in DOMAIN d.ledger}
           T == {e.ledger[i] : i \in DOMAIN e.ledger}
<1>1. S \in SUBSET Nat /\ T \in SUBSET Nat /\ IsFiniteSet(T)
  BY HeldIsFinite
<1>2. S \subseteq T
  BY DEF MarksAll
<1>3. Watermark(d) = MaxOrZero(S) /\ Watermark(e) = MaxOrZero(T)
  BY DEF Watermark
<1> HIDE DEF S, T
<1> QED BY <1>1, <1>2, <1>3, MoreIsNoLess

\* What the rows of a listing told.
ToldBy(f) == [i \in DOMAIN f |-> f[i].val]

\* A whole listing has every key that stayed.
LEMMA WholeHasAll ==
  ASSUME NEW l, NEW f, NEW b, NEW d, NEW h, ListsTruly("done", l, f, b, d, h),
         l.of \in {"ledger", "receipts"}, NEW key \in KeysAt(l, b)
  PROVE  \E i \in DOMAIN f : f[i].key = key
<1>1. key \in StayedIn(l, b, d)
  BY DEF StayedIn
<1>2. WantedBy(l, key) /\ PassedBy("done", f, key)
  BY DEF WantedBy, PassedBy
<1> QED BY <1>1, <1>2 DEF ListsTruly

\* The keys of a ledger and of receipts are their ids.
LEMMA KeysAreIds ==
  ASSUME NEW l, NEW b
  PROVE  /\ l.of = "ledger" => \A i \in DOMAIN b.ledger : <<i>> \in KeysAt(l, b)
         /\ l.of = "receipts" => \A i \in DOMAIN b.receipts : <<i>> \in KeysAt(l, b)
<1>1. CASE l.of = "ledger"
  <2>1. Rows(b)[l.of] = {[key |-> <<i>>, val |-> b.ledger[i]] : i \in DOMAIN b.ledger}
    BY <1>1 DEF Rows
  <2>2. ASSUME NEW i \in DOMAIN b.ledger PROVE <<i>> \in KeysAt(l, b)
    <3>1. [key |-> <<i>>, val |-> b.ledger[i]] \in Rows(b)[l.of]
      BY <2>1
    <3> QED BY <3>1 DEF KeysAt
  <2> QED BY <1>1, <2>2
<1>2. CASE l.of = "receipts"
  <2>1. Rows(b)[l.of] = {[key |-> <<i>>, val |-> b.receipts[i]] : i \in DOMAIN b.receipts}
    BY <1>2 DEF Rows
  <2>2. ASSUME NEW i \in DOMAIN b.receipts PROVE <<i>> \in KeysAt(l, b)
    <3>1. [key |-> <<i>>, val |-> b.receipts[i]] \in Rows(b)[l.of]
      BY <2>1
    <3> QED BY <3>1 DEF KeysAt
  <2> QED BY <1>2, <2>2
<1> QED BY <1>1, <1>2

\* The watermark that follows from a whole ledger.
LEMMA LedgerIsEvidence ==
  ASSUME NEW l, NEW f, NEW b, NEW d, NEW h, ListsTruly("done", l, f, b, d, h), Writable(d, h),
         l.of = "ledger", NEW e, e = [d EXCEPT !.ledger = ToldBy(f)]
  PROVE  Watermark(b) <= Watermark(e) /\ Watermark(e) <= Watermark(d)
<1>1. f \in Seq(Told) /\ b \in Tables /\ d \in Tables
  BY DEF ListsTruly, Grown, Writable, Numbered
<1>2. b.ledger \in Seq(Nat) /\ d.ledger \in Seq(Nat)
  BY <1>1, PartsAre
<1>3. ASSUME NEW i \in DOMAIN f
      PROVE  \E j \in DOMAIN d.ledger : f[i].key = <<j>> /\ f[i].val = d.ledger[j]
  BY DEF ListsTruly, RowOK
<1>4. e.ledger = ToldBy(f)
  BY <1>1 DEF Tables
<1>5. \A i \in DOMAIN f : f[i].val \in Nat
  BY <1>2, <1>3
<1>6. e.ledger \in Seq(Nat) /\ DOMAIN e.ledger = DOMAIN f
  <2> DEFINE n == Len(f)
  <2>1. n \in Nat /\ DOMAIN f = 1..n
    BY <1>1
  <2> HIDE DEF n
  <2>2. ToldBy(f) \in [1..n -> Nat]
    BY <1>5, <2>1 DEF ToldBy
  <2> QED BY <1>4, <2>1, <2>2
<1>7. \A i \in DOMAIN f : e.ledger[i] = f[i].val
  BY <1>4 DEF ToldBy
<1>8. ASSUME NEW i \in DOMAIN b.ledger
      PROVE  \E j \in DOMAIN e.ledger : e.ledger[j] = b.ledger[i]
  <2>0. <<i>> \in KeysAt(l, b)
    BY KeysAreIds
  <2>1. PICK k \in DOMAIN f : f[k].key = <<i>>
    <3>1. l.of \in {"ledger", "receipts"}
      OBVIOUS
    <3> QED BY <2>0, <3>1, WholeHasAll
  <2>2. PICK j \in DOMAIN d.ledger : f[k].key = <<j>> /\ f[k].val = d.ledger[j]
    BY <1>3
  <2>3. i = j
    BY <2>1, <2>2
  <2>4. d.ledger[i] = b.ledger[i]
    BY DEF ListsTruly, Grown
  <2> QED BY <1>6, <1>7, <2>2, <2>3, <2>4
<1>9. \A i \in DOMAIN e.ledger : \E j \in DOMAIN d.ledger : d.ledger[j] = e.ledger[i]
  BY <1>3, <1>6, <1>7
<1>10. Watermark(b) <= Watermark(e)
  <2>1. MarksAll(b, e)
    BY <1>8 DEF MarksAll
  <2> QED BY <1>2, <1>6, <2>1, MoreIsNoLower
<1>11. Watermark(e) <= Watermark(d)
  <2>1. MarksAll(e, d)
    BY <1>9 DEF MarksAll
  <2> QED BY <1>2, <1>6, <2>1, MoreIsNoLower
<1> QED BY <1>10, <1>11

\* Every receipt of b is one of d, perhaps grown later.
ReceiptsLater(b, d) ==
  \A i \in DOMAIN b.receipts : \E j \in DOMAIN d.receipts : Later(b.receipts[i], d.receipts[j])

\* A receipt that vouches still does when it has grown later.
LEMMA LaterVouches ==
  ASSUME NEW b, NEW d, ReceiptsLater(b, d)
  PROVE  VouchesAll(b, d)
<1> SUFFICES ASSUME NEW r \in Vouching(b)
             PROVE  \E q \in Vouching(d) : q.from = r.from /\ q.thr = r.thr
  BY DEF VouchesAll
<1> DEFINE B == b.receipts
           D == d.receipts
<1>1. PICK i \in DOMAIN B : /\ B[i].landed /\ B[i].whole
                            /\ r = [id |-> i, from |-> B[i].from, thr |-> B[i].thr]
  BY DEF Vouching
<1>2. PICK j \in DOMAIN D : Later(B[i], D[j])
  BY DEF ReceiptsLater
<1>3. D[j].landed /\ D[j].whole /\ D[j].from = r.from /\ D[j].thr = r.thr
  BY <1>1, <1>2 DEF Later
<1>4. [id |-> j, from |-> D[j].from, thr |-> D[j].thr] \in Vouching(d)
  BY <1>3 DEF Vouching
<1> QED BY <1>3, <1>4

\* The end of the chain that follows from all the receipts.
LEMMA ReceiptsAreEvidence ==
  ASSUME NEW l, NEW f, NEW b, NEW d, NEW h, ListsTruly("done", l, f, b, d, h), Writable(d, h),
         l.of = "receipts", NEW e, e = [d EXCEPT !.receipts = ToldBy(f)]
  PROVE  ExportedThrough(b) <= ExportedThrough(e) /\ ExportedThrough(e) <= ExportedThrough(d)
<1>1. f \in Seq(Told) /\ b \in Tables /\ d \in Tables
  BY DEF ListsTruly, Grown, Writable, Numbered
<1>2. ASSUME NEW i \in DOMAIN f
      PROVE  \E j \in DOMAIN d.receipts :
               /\ f[i].key = <<j>> /\ f[i].val \in Receipt /\ Later(f[i].val, d.receipts[j])
               /\ j \in DOMAIN b.receipts => Later(b.receipts[j], f[i].val)
  BY DEF ListsTruly, RowOK
<1>3. e.receipts = ToldBy(f)
  BY <1>1 DEF Tables
<1>4. \A i \in DOMAIN f : f[i].val \in Receipt
  BY <1>2
<1>5. ToldBy(f) \in Seq(Receipt) /\ DOMAIN ToldBy(f) = DOMAIN f
  <2> DEFINE n == Len(f)
  <2>1. n \in Nat /\ DOMAIN f = 1..n
    BY <1>1
  <2> HIDE DEF n
  <2>2. ToldBy(f) \in [1..n -> Receipt]
    BY <1>4, <2>1 DEF ToldBy
  <2> QED BY <2>1, <2>2
<1>6. e \in Tables
  BY <1>1, <1>5 DEF Tables
<1>7. \A i \in DOMAIN f : e.receipts[i] = f[i].val
  BY <1>3 DEF ToldBy
<1>8. ASSUME NEW i \in DOMAIN b.receipts
      PROVE  \E j \in DOMAIN e.receipts : Later(b.receipts[i], e.receipts[j])
  <2>0. <<i>> \in KeysAt(l, b)
    BY KeysAreIds
  <2>1. PICK k \in DOMAIN f : f[k].key = <<i>>
    <3>1. l.of \in {"ledger", "receipts"}
      OBVIOUS
    <3> QED BY <2>0, <3>1, WholeHasAll
  <2>2. PICK j \in DOMAIN d.receipts :
          f[k].key = <<j>> /\ (j \in DOMAIN b.receipts => Later(b.receipts[j], f[k].val))
    BY <1>2
  <2>3. i = j
    BY <2>1, <2>2
  <2> QED BY <1>3, <1>5, <1>7, <2>2, <2>3
<1>9. \A i \in DOMAIN e.receipts : \E j \in DOMAIN d.receipts :
        Later(e.receipts[i], d.receipts[j])
  BY <1>2, <1>3, <1>5, <1>7
<1>10. ExportedThrough(b) <= ExportedThrough(e)
  <2>1. ReceiptsLater(b, e)
    BY <1>8 DEF ReceiptsLater
  <2>2. VouchesAll(b, e)
    BY <2>1, LaterVouches
  <2> QED BY <1>1, <1>6, <2>2, MoreVouches
<1>11. ExportedThrough(e) <= ExportedThrough(d)
  <2>1. ReceiptsLater(e, d)
    BY <1>9 DEF ReceiptsLater
  <2>2. VouchesAll(e, d)
    BY <2>1, LaterVouches
  <2> QED BY <1>1, <1>6, <2>2, MoreVouches
<1> QED BY <1>10, <1>11
-----------------------------------------------------------------------------
(* The invariant of the listings.                                          *)

\* The call of a caller that pages.
ListerType ==
  /\ DOMAIN lister = {"pc", "call", "found", "began"}
  /\ lister = [pc |-> lister.pc, call |-> lister.call, found |-> lister.found,
               began |-> lister.began]
  /\ lister.pc \in {"idle", "paging", "done"}

CatalogOK ==
  /\ Writable(db, history) /\ ListerType
  /\ lister.pc # "idle" =>
       ListsTruly(lister.pc, lister.call, lister.found, lister.began, db, history)

\* A fresh file, and nobody lists.
LEMMA CatalogInitOK == CatalogInit => CatalogOK
<1> SUFFICES ASSUME CatalogInit PROVE CatalogOK
  OBVIOUS
<1>1. Numbered(db, history)
  BY StoreInitOK DEF StoreOK
<1>2. db = EmptyTables
  BY DEF CatalogInit, StoreInit, LogInit
<1>3. {s \in Streams : db.next[s] # 1} = {} /\ {c \in Consumers : db.ckpt[c] # NoRow} = {}
  BY <1>2 DEF EmptyTables
<1>4. Writable(db, history)
  BY <1>1, <1>3, FS_EmptySet DEF Writable, Several
<1>5. ListerType /\ lister.pc = "idle"
  BY DEF CatalogInit, Idle, ListerType
<1> QED BY <1>4, <1>5 DEF CatalogOK

\* Every step keeps it.
LEMMA CatalogStepOK ==
  ASSUME CatalogOK, ColumnsHold, [CatalogNext]_catalogVars
  PROVE  CatalogOK'
<1>1. /\ Writable(db, history) /\ ListerType
      /\ lister.pc # "idle" =>
           ListsTruly(lister.pc, lister.call, lister.found, lister.began, db, history)
  BY DEF CatalogOK
<1>2. CASE WriteStep /\ UNCHANGED lister
  <2>1. Writable(db', history') /\ Grown(db, db', history') /\ history \subseteq history'
    BY <1>1, <1>2, WritesGrow
  <2>2. ListerType'
    BY <1>1, <1>2 DEF ListerType
  <2>3. lister.pc # "idle" =>
          ListsTruly(lister.pc, lister.call, lister.found, lister.began, db', history')
    BY <1>1, <2>1, ListsOnWrite
  <2>4. lister' = lister
    BY <1>2
  <2> QED BY <2>1, <2>2, <2>3, <2>4 DEF CatalogOK
<1>3. ASSUME NEW l \in Listings, List(l) PROVE CatalogOK'
  <2>1. /\ lister' = [pc |-> "paging", call |-> l, found |-> <<>>, began |-> db]
        /\ db' = db /\ history' = history
    BY <1>3 DEF List, storeVars
  <2>2. ListsTruly("paging", l, <<>>, db, db, history)
    BY <1>1, ListsFromNothing
  <2>3. ListerType'
    BY <2>1 DEF ListerType
  <2>4. /\ lister'.pc = "paging" /\ lister'.call = l
        /\ lister'.found = <<>> /\ lister'.began = db
    BY <2>1
  <2> QED BY <1>1, <2>1, <2>2, <2>3, <2>4 DEF CatalogOK
<1>4. CASE NextPage
  <2> DEFINE page == Page(db, lister.call, lister.found)
             pc == IF Len(page) < lister.call.limit THEN "done" ELSE "paging"
  <2>1. /\ lister.pc = "paging" /\ db' = db /\ history' = history
        /\ lister' = [lister EXCEPT !.pc = pc, !.found = lister.found \o page]
    BY <1>4 DEF NextPage, storeVars
  <2>2. ListsTruly("paging", lister.call, lister.found, lister.began, db, history)
    BY <1>1, <2>1
  <2>3. ListsTruly(pc, lister.call, lister.found \o page, lister.began, db, history)
    BY <1>1, <2>2, ListsAPage
  <2>4. pc \in {"done", "paging"}
    OBVIOUS
  <2> HIDE DEF page, pc
  <2>5. /\ DOMAIN lister' = {"pc", "call", "found", "began"}
        /\ lister'.pc = pc /\ lister'.call = lister.call
        /\ lister'.found = lister.found \o page /\ lister'.began = lister.began
    BY <1>1, <2>1 DEF ListerType
  <2>6. lister' = [pc |-> pc, call |-> lister.call, found |-> lister.found \o page,
                   began |-> lister.began]
    BY <1>1, <2>1 DEF ListerType
  <2>7. ListerType'
    BY <2>4, <2>5, <2>6 DEF ListerType
  <2> QED BY <1>1, <2>1, <2>3, <2>5, <2>7 DEF CatalogOK
<1>5. CASE UNCHANGED catalogVars
  <2>1. db' = db /\ history' = history /\ lister' = lister
    BY <1>5 DEF catalogVars, storeVars
  <2> QED BY <1>1, <2>1 DEF CatalogOK, ListerType
<1> QED BY <1>2, <1>3, <1>4, <1>5 DEF CatalogNext

\* What a row told lies in between.
LEMMA RowIsBetween ==
  ASSUME Writable(db, history), NEW row,
         RowOK(lister.call, lister.began, db, history, row)
  PROVE  Between(row)
<1> DEFINE l == lister.call
           b == lister.began
<1>1. CASE l.of = "streams"
  BY <1>1 DEF Between, RowOK, NextSeq
<1>2. CASE l.of = "ledger"
  <2>1. PICK i \in DOMAIN db.ledger : row.key = <<i>> /\ row.val = db.ledger[i]
    BY <1>2 DEF RowOK
  <2>2. row.key[1] = i
    BY <2>1
  <2> QED BY <1>2, <2>1, <2>2 DEF Between
<1>3. CASE l.of = "receipts"
  <2>1. PICK i \in DOMAIN db.receipts :
          /\ row.key = <<i>> /\ Later(row.val, db.receipts[i])
          /\ i \in DOMAIN b.receipts => Later(b.receipts[i], row.val)
    BY <1>3 DEF RowOK
  <2>2. row.key[1] = i
    BY <2>1
  <2> QED BY <1>3, <2>1, <2>2 DEF Between, Later, HasReceipt
<1>4. CASE l.of \notin {"streams", "ledger", "receipts"}
  BY <1>4 DEF Between
<1> QED BY <1>1, <1>2, <1>3, <1>4

\* A whole listing is evidence.
LEMMA WholeIsEvidence ==
  ASSUME Writable(db, history),
         ListsTruly("done", lister.call, lister.found, lister.began, db, history)
  PROVE  Evidence
<1> DEFINE l == lister.call
           b == lister.began
           f == lister.found
<1>1. CASE l.of = "ledger"
  <2>1. /\ Watermark(b) <= Watermark([db EXCEPT !.ledger = ToldBy(f)])
        /\ Watermark([db EXCEPT !.ledger = ToldBy(f)]) <= Watermark(db)
    BY <1>1, LedgerIsEvidence
  <2> QED BY <1>1, <2>1 DEF Evidence, ToldBy
<1>2. CASE l.of = "receipts"
  <2>1. /\ ExportedThrough(b) <= ExportedThrough([db EXCEPT !.receipts = ToldBy(f)])
        /\ ExportedThrough([db EXCEPT !.receipts = ToldBy(f)]) <= ExportedThrough(db)
    BY <1>2, ReceiptsAreEvidence
  <2> QED BY <1>2, <2>1 DEF Evidence, ToldBy
<1>3. CASE l.of \notin {"ledger", "receipts"}
  BY <1>3 DEF Evidence
<1> QED BY <1>1, <1>2, <1>3

\* The invariant is what a caller may rely on.
LEMMA CatalogIsTrue == CatalogOK => ListingIsTrue
<1> SUFFICES ASSUME CatalogOK, lister.pc # "idle" PROVE ListingIsTrue
  BY DEF ListingIsTrue
<1> DEFINE l == lister.call
           b == lister.began
           f == lister.found
<1>1. Writable(db, history) /\ ListsTruly(lister.pc, l, f, b, db, history)
  BY DEF CatalogOK
<1>2. \A i, j \in DOMAIN f : i < j => Below(f[i].key, f[j].key)
  BY <1>1 DEF ListsTruly
<1>3. Stayed = StayedIn(l, b, db) /\ Seen = SeenIn(l, b, db, history)
  BY DEF Stayed, StayedIn, Seen, SeenIn, KeysAt
<1>4. \A key : /\ Wanted(key) <=> WantedBy(l, key)
               /\ Passed(key) <=> PassedBy(lister.pc, f, key)
  BY DEF Wanted, WantedBy, Passed, PassedBy
<1>5. Listed = {f[i].key : i \in DOMAIN f}
  BY DEF Listed
<1>6. \A key \in Stayed : Wanted(key) /\ Passed(key) => key \in Listed
  BY <1>1, <1>3, <1>4, <1>5 DEF ListsTruly
<1>7. \A i \in DOMAIN f : RowOK(l, b, db, history, f[i])
  BY <1>1 DEF ListsTruly
<1>8. \A key \in Listed : Wanted(key) /\ key \in Seen
  BY <1>3, <1>4, <1>5, <1>7 DEF RowOK
<1>9. \A i \in DOMAIN f : Between(f[i])
  BY <1>1, <1>7, RowIsBetween
<1>10. lister.pc = "done" => Evidence
  BY <1>1, WholeIsEvidence
<1> QED BY <1>2, <1>6, <1>8, <1>9, <1>10 DEF ListingIsTrue

\* For every table of names and every listing, whatever the size of its pages
\* and whatever is appended, trimmed, exported and reported on between them: it
\* is in order, misses no key that stayed, invents none, tells of each stream,
\* removal and receipt a head, an entry and a confirmation that was true in
\* between, and a whole one is evidence of no less than its beginning and no more
\* than its end; if a column holds every time and number there is.
THEOREM ListingsAreTrue ==
  ASSUME ColumnsHold
  PROVE  CatalogSpec => []ListingIsTrue
<1>1. CatalogInit => CatalogOK
  BY CatalogInitOK
<1>2. CatalogOK /\ [CatalogNext]_catalogVars => CatalogOK'
  BY CatalogStepOK
<1>3. CatalogOK => ListingIsTrue
  BY CatalogIsTrue
<1> QED BY <1>1, <1>2, <1>3, PTL DEF CatalogSpec
-----------------------------------------------------------------------------
(* Removal by age.                                                         *)

\* No event is given a time that the column turns negative.
TimesFit ==
  /\ \A a \in Appends : \A i \in DOMAIN a.run : a.run[i].at \in 0..MaxStored
  /\ \A q \in Decisions : q.event.at \in 0..MaxStored

\* Every time in the column is the one that was given.
InTime(d) == \A r \in d.events : r.at \in 0..MaxStored

\* Then a column holds every time.
LEMMA FitsHold == TimesFit => ColumnsHold
<1> SUFFICES ASSUME TimesFit, NEW a \in Appends, NEW i \in DOMAIN a.run
             PROVE  AsStored(a.run[i].at) \in Times
  BY DEF ColumnsHold
<1>1. a.run \in Seq(Event)
  BY WritersAssumption DEF AppendCall, Run
<1>2. a.run[i] \in Event
  BY <1>1
<1>3. a.run[i].at \in 0..MaxStored
  BY DEF TimesFit
<1> DEFINE at == a.run[i].at
<1>4. at \in Times
  BY <1>2 DEF Event
<1> HIDE DEF at
<1>5. at \in 0..MaxStored
  BY <1>3 DEF at
<1>6. at \in Nat /\ at <= MaxStored
  BY <1>5, StoreAssumption
<1>7. AsStored(at) = at
  BY <1>6, Stored
<1> QED BY <1>4, <1>7 DEF at

\* A run with such times adds such rows.
LEMMA RunInTime ==
  ASSUME NEW d \in Tables, InTime(d), NEW s \in Streams, NEW run \in Seq(Event),
         \A i \in DOMAIN run : run[i].at \in 0..MaxStored
  PROVE  InTime(AppendRun(d, s, run))
<1> DEFINE e == AppendRun(d, s, run)
<1>1. e.events = d.events \cup RunRows(d, s, run)
  BY DEF AppendRun, SetNextSeq, Tables
<1>2. \A r \in RunRows(d, s, run) : r.at \in 0..MaxStored
  BY DEF RunRows
<1> HIDE DEF e
<1>3. \A r \in e.events : r.at \in 0..MaxStored
  BY <1>1, <1>2 DEF InTime
<1> QED BY <1>3 DEF InTime, e

\* Every write keeps them.
LEMMA WritesInTime ==
  ASSUME Writable(db, history), TimesFit, InTime(db), WriteStep
  PROVE  InTime(db')
<1>1. db \in Tables /\ ColumnsHold
  BY FitsHold DEF Writable, Numbered
<1>2. ASSUME NEW s \in Streams, NEW run \in Seq(Event), Write([stream |-> s, run |-> run]),
             \A i \in DOMAIN run : run[i].at \in 0..MaxStored
      PROVE  InTime(db')
  <2>1. db' = AppendRun(db, s, run)
    BY <1>2 DEF Write
  <2> QED BY <1>1, <1>2, <2>1, RunInTime
<1>3. ASSUME NEW a \in Appends, AppendBoth(a) PROVE InTime(db')
  <2> DEFINE run == AsWritten(a.run)
  <2>1. a.stream \in Streams /\ a.run \in Seq(Event) /\ run \in Seq(Event)
    BY <1>1, WrittenIs
  <2>2. a = [stream |-> a.stream, run |-> a.run]
    BY WritersAssumption DEF AppendCall
  <2>3. [a EXCEPT !.run = run] = [stream |-> a.stream, run |-> run]
    BY <2>2
  <2>4. Write([stream |-> a.stream, run |-> run])
    BY <1>3, <2>3 DEF AppendBoth, AsWritten
  <2>5. ASSUME NEW i \in DOMAIN run PROVE run[i].at \in 0..MaxStored
    <3> DEFINE e == a.run[i]
               at == e.at
    <3>1. i \in DOMAIN a.run /\ run[i] = [e EXCEPT !.at = AsStored(at)]
      BY DEF AsWritten
    <3>2. e \in Event
      BY <2>1, <3>1
    <3>3. at \in 0..MaxStored
      BY <3>1 DEF TimesFit
    <3> HIDE DEF run
    <3>4. run[i].at = AsStored(at)
      BY <3>1, <3>2 DEF Event
    <3> HIDE DEF e, at
    <3>5. at \in Nat /\ at <= MaxStored
      BY <3>3, StoreAssumption
    <3>6. AsStored(at) = at
      BY <3>5, Stored
    <3> QED BY <3>3, <3>4, <3>6
  <2> HIDE DEF run
  <2> QED BY <1>2, <2>1, <2>4, <2>5
<1>4. ASSUME NEW q \in Decisions, DecideBoth(q) PROVE InTime(db')
  <2> DEFINE run == <<q.event>>
  <2>1. q.stream \in Streams /\ run \in Seq(Event)
    BY StoreAssumption
  <2>2. Write([stream |-> q.stream, run |-> run]) \/ UNCHANGED logVars
    BY <1>4 DEF DecideBoth
  <2>3. \A i \in DOMAIN run : run[i].at \in 0..MaxStored
    BY DEF TimesFit
  <2> HIDE DEF run
  <2>4. CASE UNCHANGED logVars
    BY <2>4 DEF logVars
  <2> QED BY <1>2, <2>1, <2>2, <2>3, <2>4
<1>5. ASSUME NEW r \in Removals, TrimStored(r) PROVE InTime(db')
  <2>1. db' = RemoveMatching(db, r.plan)
    BY <1>5 DEF TrimStored, Trim
  <2>2. db'.events \subseteq db.events
    BY <1>1, <2>1 DEF RemoveMatching, Tables
  <2> QED BY <2>2 DEF InTime
<1>6. CASE \/ \E c \in Saves : Save(c)
           \/ \E p \in Pages : TakePage(p)
           \/ \E id \in DOMAIN db.receipts : Land(id)
  <2>1. \/ \E c \in Saves : Save(c)
        \/ \E p \in Pages : TakePage(p)
        \/ \E id \in DOMAIN db.receipts : Land(id)
    BY <1>6
  <2>2. Steady(db, db')
    BY <1>1, <2>1, OtherTables
  <2>3. db'.events = db.events
    BY <2>2 DEF Steady
  <2> QED BY <2>3 DEF InTime
<1> QED BY <1>3, <1>4, <1>5, <1>6 DEF WriteStep, StoreStep

\* A removal by age takes what every reader is told is older, and nothing else, as
\* long as every event's time fits its column: a time past i64::MAX is the only
\* way to lose a young event by its age.
THEOREM AgesAreTrue ==
  ASSUME TimesFit
  PROVE  CatalogSpec => OlderIsOlder
<1> DEFINE Inv == CatalogOK /\ InTime(db)
<1>1. CatalogInit => Inv
  <2>1. CatalogInit => InTime(db)
    BY DEF CatalogInit, StoreInit, LogInit, EmptyTables, InTime
  <2> QED BY <2>1, CatalogInitOK
<1>2. Inv /\ [CatalogNext]_catalogVars => Inv'
  <2> SUFFICES ASSUME Inv, [CatalogNext]_catalogVars PROVE Inv'
    OBVIOUS
  <2>1. CatalogOK'
    BY CatalogStepOK, FitsHold
  <2>2. InTime(db')
    <3>1. CASE WriteStep
      BY <3>1, WritesInTime DEF CatalogOK
    <3>2. CASE db' = db
      BY <3>2
    <3> QED BY <3>1, <3>2 DEF CatalogNext, List, NextPage, storeVars, catalogVars
  <2> QED BY <2>1, <2>2
<1>3. ASSUME InTime(db), Writable(db, history), NEW r \in Removals, TrimStored(r),
             r.plan.shape = "OlderThan", NEW row \in db.events \ db'.events
      PROVE  AsGiven(row.at) < r.plan.at
  <2>1. db' = RemoveMatching(db, r.plan) /\ db \in Tables
    BY <1>3 DEF TrimStored, Trim, Writable, Numbered
  <2>2. db'.events = db.events \ Matching(db, r.plan)
    BY <2>1 DEF RemoveMatching, Tables
  <2>3. Matches(r.plan, row)
    BY <2>2 DEF Matching
  <2>4. row.at < r.plan.at
    BY <1>3, <2>3 DEF Matches
  <2>5. row.at \in 0..MaxStored
    BY <1>3 DEF InTime
  <2>6. ~(row.at < 0)
    BY <2>5, StoreAssumption
  <2> QED BY <2>4, <2>6 DEF AsGiven
<1>4. Inv /\ [CatalogNext]_catalogVars =>
        [\A r \in Removals : TrimStored(r) /\ r.plan.shape = "OlderThan" =>
           \A row \in db.events \ db'.events : AsGiven(row.at) < r.plan.at]_storeVars
  BY <1>3 DEF CatalogOK
<1> HIDE DEF Inv
<1> QED BY <1>1, <1>2, <1>4, PTL DEF CatalogSpec, OlderIsOlder

=============================================================================
