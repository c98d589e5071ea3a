------------------------- MODULE Subscription_proofs -------------------------
(***************************************************************************)
(* What `paged` promises a consumer, for any number of streams, writers    *)
(* and commits.  A stream in the middle of a round knows three marks: the  *)
(* cursor, the head it read and the wake-up it has seen.  The argument is  *)
(* about what may still turn up below them: nothing that commits later,    *)
(* since that lands above every number given so far, and nothing the page  *)
(* left out, unless the page was full and the rest lies behind it.         *)
(***************************************************************************)
EXTENDS Subscription, LogTables_proofs

-----------------------------------------------------------------------------
(* The invariant.                                                          *)

\* What a row has to be above to have been missed by the round under way.
Behind(me) ==
  IF me.pc \in {"page", "hand"} THEN me.head
  ELSE IF me.pc = "wait" THEN me.cursor ELSE me.seen

Streaming == [pc : {"new", "head", "page", "hand", "wait", "ended", "failed"},
              tails : BOOLEAN, origin : Nat, cursor : Nat, head : Nat,
              page : SUBSET Row, full : BOOLEAN, seen : Nat, asof : Nat]

\* The marks of a stream are numbers that were given, or the place it began at.
MarksOK(me, d) ==
  /\ me.origin <= me.cursor
  /\ me.cursor <= d.autoinc \/ me.cursor = me.origin
  /\ me.head <= d.autoinc /\ me.seen <= d.autoinc /\ me.asof <= d.autoinc
  /\ me.page # {} => me.pc = "hand"
  /\ me.pc \in {"head", "wait"} => me.tails

\* A wake-up that was seen is settled by the head the round read.
SeenOK(me, d) ==
  me.tails => \A row \in d.events : row.pos <= me.seen => row.pos <= Behind(me)

\* The page in hand: above the cursor, and what it left out is behind it.
PageOK(r, me, d) ==
  me.pc = "hand" =>
    /\ \A x, y \in me.page : x.pos = y.pos => x = y
    /\ \A q \in me.page : me.cursor < q.pos /\ q.pos <= d.autoinc
    /\ \A row \in d.events : Wanted(r, row) /\ me.cursor < row.pos /\ row \notin me.page =>
         /\ \A q \in me.page : q.pos < row.pos
         /\ ~me.full => me.head < row.pos /\ me.asof < row.pos

\* What was handed, against the marks.
HandedOK(me, s) ==
  /\ s \in Seq(Nat)
  /\ \A i \in DOMAIN s : s[i] <= me.cursor
  /\ \A i, j \in DOMAIN s : i < j => s[i] < s[j]
  /\ me.pc = "new" => s = <<>>

\* Everything that is asked for up to n was handed.
Settled(r, me, d, s, n) ==
  \A row \in d.events :
    Wanted(r, row) /\ me.origin < row.pos /\ row.pos <= n => row.pos \in Range(s)

\* No channel tells of a position that was not given.
WakesOK == Heard(Handles, notify, unpublished, db.autoinc)

ReaderOK(r, me, d, s) ==
  /\ me \in Streaming
  /\ MarksOK(me, d) /\ SeenOK(me, d) /\ PageOK(r, me, d) /\ HandedOK(me, s)
  /\ Settled(r, me, d, s, me.cursor)
  /\ me.pc = "ended" => Settled(r, me, d, s, me.asof)

IInv ==
  /\ Numbered(db, history)
  /\ WakesOK
  /\ reader \in [Readers -> Streaming] /\ got \in [Readers -> Seq(Nat)]
  /\ \A r \in Readers : ReaderOK(r, reader[r], db, got[r])

-----------------------------------------------------------------------------
(* The log moves.                                                          *)

\* The history stays dense, the channels behind it, and new rows land above it.
LEMMA LogMoves ==
  ASSUME Numbered(db, history), WakesOK, Writers
  PROVE  /\ Numbered(db', history') /\ WakesOK' /\ db'.autoinc >= db.autoinc
         /\ \A row \in db'.events \ db.events : row.pos > db.autoinc
<1> DEFINE Moved == /\ Numbered(db', history') /\ db'.autoinc >= db.autoinc
                    /\ db'.autoinc \in Nat
                    /\ \A row \in db'.events \ db.events : row.pos > db.autoinc
<1>1. db.autoinc \in Nat /\ Numbered(db, history)
  BY DEF Numbered, Tables
<1>2. ASSUME NEW a \in Appends, Write(a) PROVE Moved /\ db'.autoinc = db.autoinc + Len(a.run)
  <2> DEFINE st == a.stream
             run == a.run
             e == AppendRun(db, st, run)
             rows == RunRows(db, st, run)
  <2>1. st \in Streams /\ run \in Seq(Event) /\ db' = e /\ history' = history \cup rows
    BY <1>2, WritersAssumption DEF AppendCall, Run, Write
  <2> HIDE DEF st, run
  <2>2. /\ Numbered(e, history \cup rows) /\ e.events = db.events \cup rows
        /\ Len(run) \in Nat /\ e.autoinc = db.autoinc + Len(run) /\ e.autoinc >= db.autoinc
        /\ \A row \in rows : row.pos > db.autoinc
    <3>1. RunLands(db, history, run, e, rows)
      BY <2>1, RunWritten
    <3> HIDE DEF e, rows
    <3> QED BY <3>1 DEF RunLands
  <2> HIDE DEF e, rows
  <2>3. Numbered(db', history')
    BY <2>1, <2>2 DEF Numbered
  <2> QED BY <1>1, <2>1, <2>2, <2>3 DEF run
<1>3. ASSUME NEW x \in Removals, Trim(x) PROVE Moved /\ db'.autoinc = db.autoinc
  <2> DEFINE e == RemoveMatching(db, x.plan)
  <2>1. Numbered(e, history) /\ e.events \subseteq db.events /\ e.autoinc = db.autoinc
    BY NumberedRemove
  <2>2. db' = e /\ history' = history
    BY <1>3 DEF Trim
  <2> HIDE DEF e
  <2>3. Numbered(db', history')
    BY <2>1, <2>2 DEF Numbered
  <2> QED BY <1>1, <2>1, <2>2, <2>3
<1>4. ASSUME UNCHANGED logVars PROVE Moved /\ db'.autoinc = db.autoinc
  BY <1>1, <1>4 DEF logVars, Numbered
<1> HIDE DEF Moved
<1>5. CASE \E h \in Publishers, a \in Appends : Commit(h, a)
  <2>1. PICK h \in Publishers, a \in Appends : Commit(h, a)
    BY <1>5
  <2>2. /\ Write(a) /\ h \in Handles /\ notify' = notify
        /\ unpublished' = [unpublished EXCEPT ![h] = unpublished[h] \cup {db.autoinc + Len(a.run)}]
    BY <2>1, PublishersAssumption DEF Commit
  <2>3. Moved /\ db'.autoinc = db.autoinc + Len(a.run)
    BY <1>2, <2>2
  <2>4. Heard(Handles, notify, [unpublished EXCEPT ![h] = unpublished[h] \cup {db'.autoinc}],
              db'.autoinc)
    BY <1>1, <2>2, <2>3, HeardCommit DEF Moved, WakesOK
  <2> QED BY <2>2, <2>3, <2>4 DEF Moved, WakesOK
<1>6. CASE \E h \in Publishers : \E p \in unpublished[h] : Announce(h, p) \/ Forgo(h, p)
  <2>0. PICK h \in Publishers : \E p \in unpublished[h] : Announce(h, p) \/ Forgo(h, p)
    BY <1>6
  <2>1. PICK p \in unpublished[h] : Announce(h, p) \/ Forgo(h, p)
    BY <2>0
  <2>2. /\ h \in Handles /\ db' = db /\ UNCHANGED logVars
        /\ unpublished' = [unpublished EXCEPT ![h] = unpublished[h] \ {p}]
        /\ \/ notify' = [notify EXCEPT ![h] = MaxOrZero({notify[h], p})]
           \/ notify' = notify
    BY <2>1, PublishersAssumption DEF Announce, Forgo, logVars
  <2>3. Heard(Handles, notify', unpublished', db.autoinc)
    BY <1>1, <2>2, HeardTold DEF WakesOK
  <2> QED BY <1>4, <2>2, <2>3 DEF Moved, WakesOK
<1>7. CASE \/ \E a \in Appends : CommitUnheard(a)
           \/ \E x \in Removals : Trim(x) /\ UNCHANGED wakeVars
  <2>1. Moved /\ notify' = notify /\ unpublished' = unpublished
    BY <1>2, <1>3, <1>7 DEF CommitUnheard, wakeVars
  <2>2. Heard(Handles, notify, unpublished, db'.autoinc)
    BY <1>1, <2>1, HeardRises DEF Moved, WakesOK
  <2> QED BY <2>1, <2>2 DEF Moved, WakesOK
<1> QED BY <1>5, <1>6, <1>7 DEF Writers

-----------------------------------------------------------------------------
(* Operators.                                                              *)

\* A page has a first row.
LEMMA FirstRow ==
  ASSUME NEW S, S \subseteq Row, S # {}
  PROVE  \E row \in S : \A q \in S : row.pos <= q.pos
<1>1. Positions(S) \subseteq Nat /\ Positions(S) # {}
  BY DEF Positions, Row
<1>2. PICK m \in Positions(S) : \A y \in Positions(S) : ~(<<y, m>> \in OpToRel(<, Nat))
  BY <1>1, NatLessThanWellFounded, WFMin
<1>3. \A y \in Positions(S) : m <= y
  <2> SUFFICES ASSUME NEW y \in Positions(S) PROVE m <= y
    OBVIOUS
  <2>1. y \in Nat /\ m \in Nat
    BY <1>1
  <2>2. ~(y < m)
    BY <1>2, <2>1 DEF OpToRel
  <2> QED BY <2>1, <2>2
<1> QED BY <1>3 DEF Positions

-----------------------------------------------------------------------------
(* The log moves.                                                          *)

\* A stream stays as it is while rows go and rows come above all numbers given.
LEMMA ReaderStays ==
  ASSUME NEW d, NEW h, Numbered(d, h), NEW e, NEW g, Numbered(e, g),
         e.autoinc >= d.autoinc,
         \A row \in e.events \ d.events : row.pos > d.autoinc,
         NEW r \in Readers, NEW me, NEW s, ReaderOK(r, me, d, s)
  PROVE  ReaderOK(r, me, e, s)
<1>1. d.autoinc \in Nat /\ e.autoinc \in Nat
  BY DEF Numbered, Tables
<1>2. /\ \A row \in d.events : row.pos \in Nat
      /\ \A row \in e.events : row.pos \in Nat
  BY DEF Numbered, Row
<1>3. /\ me.cursor \in Nat /\ me.origin \in Nat /\ me.head \in Nat /\ me.seen \in Nat
      /\ me.asof \in Nat /\ me.page \subseteq Row
  BY DEF ReaderOK, Streaming
<1>4. MarksOK(me, d)
  BY DEF ReaderOK
<1>5. MarksOK(me, e)
  BY <1>1, <1>3, <1>4 DEF MarksOK
<1>6. SeenOK(me, e)
  <2> SUFFICES ASSUME me.tails, NEW row \in e.events, row.pos <= me.seen
               PROVE  row.pos <= Behind(me)
    BY DEF SeenOK
  <2>1. row \in d.events
    BY <1>1, <1>2, <1>3, <1>4 DEF MarksOK
  <2> QED BY <2>1 DEF ReaderOK, SeenOK
<1>7. PageOK(r, me, e)
  <2> SUFFICES ASSUME me.pc = "hand" PROVE PageOK(r, me, e)
    BY DEF PageOK
  <2>0. PageOK(r, me, d)
    BY DEF ReaderOK
  <2>1. ASSUME NEW q \in me.page
        PROVE  me.cursor < q.pos /\ q.pos <= e.autoinc /\ q.pos <= d.autoinc /\ q.pos \in Nat
    BY <1>1, <1>3, <2>0 DEF PageOK, Row
  <2>2. ASSUME NEW row \in e.events, Wanted(r, row), me.cursor < row.pos, row \notin me.page
        PROVE  /\ \A q \in me.page : q.pos < row.pos
               /\ ~me.full => me.head < row.pos /\ me.asof < row.pos
    <3>1. CASE row \in d.events
      BY <2>0, <2>2, <3>1 DEF PageOK
    <3>2. CASE row \notin d.events
      <4>1. row.pos > d.autoinc
        BY <3>2
      <4> QED BY <1>1, <1>2, <1>3, <1>4, <2>1, <4>1 DEF MarksOK
    <3> QED BY <3>1, <3>2
  <2>3. \A x, y \in me.page : x.pos = y.pos => x = y
    BY <2>0 DEF PageOK
  <2> QED BY <2>1, <2>2, <2>3 DEF PageOK
<1>8. Settled(r, me, e, s, me.cursor)
  <2> SUFFICES ASSUME NEW row \in e.events, Wanted(r, row), me.origin < row.pos,
                      row.pos <= me.cursor
               PROVE  row.pos \in Range(s)
    BY DEF Settled
  <2>1. row \in d.events
    BY <1>1, <1>2, <1>3, <1>4 DEF MarksOK
  <2> QED BY <2>1 DEF ReaderOK, Settled
<1>9. ASSUME me.pc = "ended" PROVE Settled(r, me, e, s, me.asof)
  <2> SUFFICES ASSUME NEW row \in e.events, Wanted(r, row), me.origin < row.pos,
                      row.pos <= me.asof
               PROVE  row.pos \in Range(s)
    BY DEF Settled
  <2>1. row \in d.events
    BY <1>1, <1>2, <1>3, <1>4 DEF MarksOK
  <2> QED BY <2>1, <1>9 DEF ReaderOK, Settled
<1> QED BY <1>5, <1>6, <1>7, <1>8, <1>9 DEF ReaderOK

\* Streams stay as they are while rows go and rows come above all numbers given.
LEMMA WritersOK == ASSUME IInv, Writers, UNCHANGED <<reader, got>> PROVE IInv'
<1>1. Numbered(db, history) /\ WakesOK
  BY DEF IInv
<1>2. /\ Numbered(db', history') /\ WakesOK' /\ db'.autoinc >= db.autoinc
      /\ \A row \in db'.events \ db.events : row.pos > db.autoinc
  BY <1>1, LogMoves
<1>3. ASSUME NEW r \in Readers PROVE ReaderOK(r, reader[r], db', got[r])
  <2> DEFINE e == db'
             g == history'
  <2>1. Numbered(e, g)
    BY <1>2 DEF Numbered
  <2>2. e.autoinc >= db.autoinc /\ \A row \in e.events \ db.events : row.pos > db.autoinc
    BY <1>2
  <2>3. ReaderOK(r, reader[r], db, got[r])
    BY DEF IInv
  <2> HIDE DEF e, g
  <2>4. ReaderOK(r, reader[r], e, got[r])
    BY <1>1, <2>1, <2>2, <2>3, ReaderStays
  <2> QED BY <2>4 DEF e
<1>4. \A r \in Readers : ReaderOK(r, reader[r], db, got[r])'
  BY <1>3
<1> QED BY <1>2, <1>4 DEF IInv

-----------------------------------------------------------------------------
(* A stream moves.                                                         *)

\* One reader moves, and the log stays.
LEMMA ReaderMoves ==
  ASSUME IInv, NEW r \in Readers, NEW new, NEW s, Reads(r, new),
         got' = [got EXCEPT ![r] = s], ReaderOK(r, new, db, s)
  PROVE  IInv'
<1>1. db' = db /\ history' = history /\ notify' = notify /\ unpublished' = unpublished
      /\ reader' = [reader EXCEPT ![r] = new]
  BY DEF Reads, logVars, wakeVars
<1>2. reader' \in [Readers -> Streaming] /\ got' \in [Readers -> Seq(Nat)]
  <2>1. new \in Streaming /\ s \in Seq(Nat)
    BY DEF ReaderOK, HandedOK
  <2> QED BY <1>1, <2>1 DEF IInv
<1>3. ASSUME NEW q \in Readers PROVE ReaderOK(q, reader'[q], db, got'[q])
  <2>1. CASE q = r
    BY <1>1, <2>1 DEF IInv
  <2>2. CASE q # r
    <3>1. reader'[q] = reader[q] /\ got'[q] = got[q]
      BY <1>1, <2>2 DEF IInv
    <3> QED BY <3>1 DEF IInv
  <2> QED BY <2>1, <2>2
<1>4. \A q \in Readers : ReaderOK(q, reader[q], db, got[q])'
  BY <1>1, <1>3
<1>5. Numbered(db', history') /\ WakesOK'
  BY <1>1 DEF IInv, Numbered, WakesOK, Heard
<1> QED BY <1>2, <1>4, <1>5 DEF IInv

\* Nothing handed out.
LEMMA ReaderAlone ==
  ASSUME IInv, NEW r \in Readers, NEW new, Reads(r, new), UNCHANGED got,
         ReaderOK(r, new, db, got[r])
  PROVE  IInv'
<1>1. got' = [got EXCEPT ![r] = got[r]]
  BY DEF IInv
<1> QED BY <1>1, ReaderMoves

\* What is known of a stream, spelled out once.
LEMMA Known ==
  ASSUME IInv, NEW r \in Readers
  PROVE  /\ Numbered(db, history) /\ db.autoinc \in Nat
         /\ \A row \in db.events : row.pos \in Nat /\ row.pos <= db.autoinc
         /\ ReaderOK(r, reader[r], db, got[r])
         /\ Channel(r) \in Nat /\ Channel(r) <= db.autoinc
         /\ reader[r].cursor \in Nat /\ reader[r].head \in Nat /\ reader[r].seen \in Nat
         /\ reader[r].asof \in Nat /\ reader[r].origin \in Nat
         /\ reader[r].page \subseteq Row /\ reader[r].full \in BOOLEAN
         /\ reader[r].tails \in BOOLEAN
<1>1. Numbered(db, history) /\ ReaderOK(r, reader[r], db, got[r])
  BY DEF IInv
<1>2. db.autoinc \in Nat /\ \A row \in db.events : row.pos \in Nat /\ row.pos <= db.autoinc
  BY <1>1 DEF Numbered, Tables, Dense, Row
<1>3. HandleAt[r] \in Handles
  BY ReadersAssumption
<1>4. Channel(r) \in Nat /\ Channel(r) <= db.autoinc
  BY <1>3 DEF IInv, WakesOK, Heard, Channel
<1> QED BY <1>1, <1>2, <1>4 DEF ReaderOK, Streaming

\* A round that ends where it stands: the cursor stays, no page is in hand.
LEMMA OverIsOK ==
  ASSUME IInv, NEW r \in Readers, reader[r].pc # "new",
         NEW pc \in {"head", "page", "failed", "ended"},
         pc \in {"page", "head"} => pc = Round(reader[r].tails),
         pc = "ended" => Settled(r, reader[r], db, got[r], reader[r].asof)
  PROVE  ReaderOK(r, Over(reader[r], pc, reader[r].cursor), db, got[r])
<1> DEFINE me == reader[r]
           new == Over(me, pc, me.cursor)
<1>1. /\ ReaderOK(r, me, db, got[r]) /\ me \in Streaming /\ db.autoinc \in Nat
      /\ me.tails \in BOOLEAN
  BY Known DEF ReaderOK
<1>2. /\ new \in Streaming /\ new.pc = pc /\ new.cursor = me.cursor /\ new.head = 0
      /\ new.page = {} /\ new.origin = me.origin /\ new.seen = me.seen
      /\ new.asof = me.asof /\ new.tails = me.tails
  BY <1>1 DEF Over, Streaming
<1> HIDE DEF me, new
<1>3. MarksOK(new, db)
  BY <1>1, <1>2 DEF ReaderOK, MarksOK, Round, me
<1>4. SeenOK(new, db)
  BY <1>1, <1>2 DEF SeenOK, Behind, Round, me
<1>5. PageOK(r, new, db)
  BY <1>2 DEF PageOK
<1>6. HandedOK(new, got[r])
  BY <1>1, <1>2 DEF ReaderOK, HandedOK
<1>7. Settled(r, new, db, got[r], new.cursor)
  BY <1>1, <1>2 DEF ReaderOK, Settled
<1>8. new.pc = "ended" => Settled(r, new, db, got[r], new.asof)
  BY <1>1, <1>2 DEF Settled, me
<1> QED BY <1>2, <1>3, <1>4, <1>5, <1>6, <1>7, <1>8 DEF ReaderOK, me, new

\* A round goes on, ends or fails, or its reader is dropped.
LEMMA RoundsOK ==
  ASSUME IInv, NEW r \in Readers, ReadOn(r) \/ End(r) \/ Fail(r) \/ Drop(r)
  PROVE  IInv'
<1> DEFINE me == reader[r]
<1>1. CASE ReadOn(r)
  <2>1. /\ Reads(r, Over(me, Round(me.tails), me.cursor)) /\ UNCHANGED got /\ me.pc = "hand"
    BY <1>1 DEF ReadOn
  <2>2. Round(me.tails) \in {"head", "page"}
    BY DEF Round
  <2>3. ReaderOK(r, Over(me, Round(me.tails), me.cursor), db, got[r])
    BY <2>1, <2>2, OverIsOK
  <2> QED BY <2>1, <2>3, ReaderAlone
<1>2. CASE End(r)
  <2>1. /\ Reads(r, Over(me, "ended", me.cursor)) /\ UNCHANGED got /\ me.pc = "hand"
        /\ me.page = {} /\ ~me.full
    BY <1>2 DEF End
  <2>2. PageOK(r, me, db) /\ Settled(r, me, db, got[r], me.cursor)
    BY Known DEF ReaderOK
  <2>3. Settled(r, me, db, got[r], me.asof)
    <3> SUFFICES ASSUME NEW row \in db.events, Wanted(r, row), me.origin < row.pos,
                        row.pos <= me.asof
                 PROVE  row.pos \in Range(got[r])
      BY DEF Settled
    <3>1. row.pos \in Nat /\ me.cursor \in Nat /\ me.asof \in Nat
      BY Known
    <3>2. row.pos <= me.cursor
      BY <2>1, <2>2, <3>1 DEF PageOK
    <3> QED BY <2>2, <3>2 DEF Settled
  <2>4. ReaderOK(r, Over(me, "ended", me.cursor), db, got[r])
    BY <2>1, <2>3, OverIsOK
  <2> QED BY <2>1, <2>4, ReaderAlone
<1>3. CASE Fail(r) \/ Drop(r)
  <2>1. /\ Reads(r, Over(me, "failed", me.cursor)) /\ UNCHANGED got /\ me.pc # "new"
    BY <1>3 DEF Fail, Drop
  <2>2. ReaderOK(r, Over(me, "failed", me.cursor), db, got[r])
    BY <2>1, OverIsOK
  <2> QED BY <2>1, <2>2, ReaderAlone
<1> QED BY <1>1, <1>2, <1>3

\* The jump to the head.
LEMMA ParkOK == ASSUME IInv, NEW r \in Readers, Park(r) PROVE IInv'
<1> DEFINE me == reader[r]
           c == MaxOrZero({me.cursor, me.head})
           new == Over(me, "wait", c)
<1>1. /\ Reads(r, new) /\ UNCHANGED got /\ me.pc = "hand"
      /\ me.page = {} /\ ~me.full /\ me.tails
  BY DEF Park
<1>2. /\ ReaderOK(r, me, db, got[r]) /\ me \in Streaming /\ db.autoinc \in Nat
      /\ me.cursor \in Nat /\ me.head \in Nat /\ me.origin \in Nat /\ me.seen \in Nat
      /\ \A row \in db.events : row.pos \in Nat
  BY Known DEF ReaderOK
<1>3. c \in Nat /\ c \in {me.cursor, me.head} /\ me.cursor <= c /\ me.head <= c
  BY <1>2, MaxOfTwo
<1> HIDE DEF c
<1>4. /\ new \in Streaming /\ new.pc = "wait" /\ new.cursor = c /\ new.head = 0
      /\ new.page = {} /\ new.origin = me.origin /\ new.seen = me.seen
      /\ new.asof = me.asof /\ new.tails = me.tails
  BY <1>2, <1>3 DEF Over, Streaming
<1> HIDE DEF me, new
<1>5. MarksOK(new, db)
  BY <1>1, <1>2, <1>3, <1>4 DEF ReaderOK, MarksOK
<1>6. SeenOK(new, db)
  BY <1>1, <1>2, <1>3, <1>4 DEF ReaderOK, SeenOK, Behind
<1>7. PageOK(r, new, db)
  BY <1>4 DEF PageOK
<1>8. HandedOK(new, got[r])
  <2>1. HandedOK(me, got[r])
    BY <1>2 DEF ReaderOK
  <2>2. \A i \in DOMAIN got[r] : got[r][i] \in Nat
    BY <2>1 DEF HandedOK
  <2> QED BY <1>2, <1>3, <1>4, <2>1, <2>2 DEF HandedOK
<1>9. Settled(r, new, db, got[r], new.cursor)
  <2> SUFFICES ASSUME NEW row \in db.events, Wanted(r, row), me.origin < row.pos,
                      row.pos <= c
               PROVE  row.pos \in Range(got[r])
    BY <1>4 DEF Settled
  <2>1. row.pos <= me.cursor
    <3>1. PageOK(r, me, db)
      BY <1>2 DEF ReaderOK
    <3>2. me.cursor < row.pos => me.head < row.pos
      BY <1>1, <3>1 DEF PageOK
    <3> QED BY <1>2, <1>3, <3>2
  <2> QED BY <1>2, <2>1 DEF ReaderOK, Settled
<1>10. ReaderOK(r, new, db, got[r])
  BY <1>4, <1>5, <1>6, <1>7, <1>8, <1>9 DEF ReaderOK
<1> QED BY <1>1, <1>10, ReaderAlone

\* The head, and what ends the wait before it.
LEMMA HeadsOK ==
  ASSUME IInv, NEW r \in Readers, ReadHead(r) \/ Woken(r) \/ Interval(r)
  PROVE  IInv'
<1> DEFINE me == reader[r]
<1>1. PICK new : /\ Reads(r, new) /\ UNCHANGED got
                 /\ \/ me.pc = "head" /\ new = [me EXCEPT !.head = HeadPosition(db), !.pc = "page"]
                    \/ me.pc = "wait" /\ new = [me EXCEPT !.pc = "head", !.seen = Channel(r)]
                    \/ me.pc = "wait" /\ new = [me EXCEPT !.pc = "head"]
  BY DEF ReadHead, Woken, Interval
<1>2. /\ ReaderOK(r, me, db, got[r]) /\ me \in Streaming /\ db.autoinc \in Nat
      /\ Channel(r) \in Nat /\ Channel(r) <= db.autoinc /\ me.seen \in Nat
      /\ Numbered(db, history)
  BY Known DEF ReaderOK
<1>3. /\ HeadPosition(db) \in Nat /\ HeadPosition(db) <= db.autoinc
      /\ \A row \in db.events : row.pos <= HeadPosition(db)
  BY <1>2, HeadBounds
<1>4. /\ new \in Streaming /\ new.cursor = me.cursor /\ new.page = me.page
      /\ new.origin = me.origin /\ new.asof = me.asof /\ new.tails = me.tails
      /\ new.full = me.full
      /\ \/ me.pc = "head" /\ new.pc = "page" /\ new.head = HeadPosition(db) /\ new.seen = me.seen
         \/ me.pc = "wait" /\ new.pc = "head" /\ new.head = me.head
            /\ new.seen \in {me.seen, Channel(r)}
  BY <1>1, <1>2, <1>3 DEF Streaming
<1> HIDE DEF me
<1>5. MarksOK(new, db)
  BY <1>2, <1>3, <1>4 DEF ReaderOK, MarksOK
<1>6. SeenOK(new, db)
  BY <1>3, <1>4 DEF SeenOK, Behind
<1>7. PageOK(r, new, db)
  BY <1>4 DEF PageOK
<1>8. HandedOK(new, got[r])
  BY <1>2, <1>4 DEF ReaderOK, HandedOK
<1>9. Settled(r, new, db, got[r], new.cursor)
  BY <1>2, <1>4 DEF ReaderOK, Settled
<1>10. ReaderOK(r, new, db, got[r])
  BY <1>4, <1>5, <1>6, <1>7, <1>8, <1>9 DEF ReaderOK
<1> QED BY <1>1, <1>10, ReaderAlone

\* The page is read.
LEMMA ReadPageOK == ASSUME IInv, NEW r \in Readers, ReadPage(r) PROVE IInv'
<1> DEFINE me == reader[r]
           page == PageAt(me.cursor, r)
           S == Selected(db, me.cursor, FilterOf[r].kinds, FilterOf[r].streams)
           full == (Cardinality(page) = Batch)
           new == [me EXCEPT !.page = page, !.full = full, !.pc = "hand"]
<1>1. Reads(r, new) /\ UNCHANGED got /\ me.pc = "page"
  BY DEF ReadPage
<1>2. /\ ReaderOK(r, me, db, got[r]) /\ me \in Streaming /\ Numbered(db, history)
      /\ me.cursor \in Nat /\ db.autoinc \in Nat
      /\ \A row \in db.events : row.pos \in Nat /\ row.pos <= db.autoinc
  BY Known DEF ReaderOK
<1>3. /\ page \subseteq S /\ S \subseteq db.events /\ db.events \subseteq Row
      /\ \A row \in S \ page : \A q \in page : q.pos < row.pos
      /\ ~full => page = S
      /\ \A x, y \in S : x.pos = y.pos => x = y
  <2>1. Batch \in Nat
    BY ReadersAssumption
  <2> QED BY <1>2, <2>1, PageIsLowest DEF PageAt
<1>4. \A row \in db.events : row \in S <=> me.cursor < row.pos /\ Wanted(r, row)
  BY <1>2 DEF Selected, Wanted
<1> HIDE DEF page, full, S
<1>5. /\ new \in Streaming /\ new.pc = "hand" /\ new.cursor = me.cursor /\ new.page = page
      /\ new.origin = me.origin /\ new.seen = me.seen /\ new.head = me.head
      /\ new.asof = me.asof /\ new.tails = me.tails /\ new.full = full
  <2>1. full \in BOOLEAN
    BY DEF full
  <2> QED BY <1>2, <1>3, <2>1 DEF Streaming
<1> HIDE DEF me, new
<1>6. MarksOK(new, db)
  BY <1>1, <1>2, <1>5 DEF ReaderOK, MarksOK
<1>7. SeenOK(new, db)
  BY <1>1, <1>2, <1>5 DEF ReaderOK, SeenOK, Behind
<1>8. PageOK(r, new, db)
  <2>1. \A q \in page : me.cursor < q.pos /\ q.pos <= db.autoinc
    BY <1>2, <1>3, <1>4
  <2>2. \A x, y \in page : x.pos = y.pos => x = y
    BY <1>3
  <2>3. ASSUME NEW row \in db.events, Wanted(r, row), me.cursor < row.pos, row \notin page
        PROVE  (\A q \in page : q.pos < row.pos) /\ full
    BY <1>3, <1>4, <2>3
  <2> QED BY <1>5, <2>1, <2>2, <2>3 DEF PageOK
<1>9. HandedOK(new, got[r])
  BY <1>1, <1>2, <1>5 DEF ReaderOK, HandedOK
<1>10. Settled(r, new, db, got[r], new.cursor)
  BY <1>2, <1>5 DEF ReaderOK, Settled
<1>11. ReaderOK(r, new, db, got[r])
  BY <1>5, <1>6, <1>7, <1>8, <1>9, <1>10 DEF ReaderOK
<1> QED BY <1>1, <1>11, ReaderAlone

\* One event is handed out, and the cursor stands behind it.
LEMMA HandOK == ASSUME IInv, NEW r \in Readers, Hand(r) PROVE IInv'
<1> DEFINE me == reader[r]
           next == CHOOSE row \in me.page : \A q \in me.page : row.pos <= q.pos
           new == [me EXCEPT !.page = me.page \ {next}, !.cursor = next.pos]
           s == got[r]
           t == Append(s, next.pos)
<1>1. /\ Reads(r, new) /\ got' = [got EXCEPT ![r] = t]
      /\ me.pc = "hand" /\ me.page # {}
  BY DEF Hand
<1>2. /\ ReaderOK(r, me, db, s) /\ me \in Streaming /\ db.autoinc \in Nat
      /\ me.cursor \in Nat /\ me.page \subseteq Row /\ me.origin \in Nat
      /\ \A row \in db.events : row.pos \in Nat
  BY Known DEF ReaderOK
<1>3. next \in me.page /\ \A q \in me.page : next.pos <= q.pos
  <2>1. \E row \in me.page : \A q \in me.page : row.pos <= q.pos
    BY <1>1, <1>2, FirstRow
  <2> QED BY <2>1
<1> HIDE DEF next
<1>4. PageOK(r, me, db) /\ HandedOK(me, s) /\ MarksOK(me, db) /\ SeenOK(me, db)
      /\ Settled(r, me, db, s, me.cursor)
  BY <1>2 DEF ReaderOK
<1>5. /\ next.pos \in Nat /\ me.cursor < next.pos /\ next.pos <= db.autoinc
      /\ \A q \in me.page : q.pos \in Nat
  BY <1>1, <1>2, <1>3, <1>4 DEF PageOK, Row
<1>6. /\ new \in Streaming /\ new.pc = "hand" /\ new.cursor = next.pos
      /\ new.page = me.page \ {next}
      /\ new.origin = me.origin /\ new.seen = me.seen /\ new.head = me.head
      /\ new.asof = me.asof /\ new.tails = me.tails /\ new.full = me.full
  BY <1>1, <1>2, <1>5 DEF Streaming
<1> HIDE DEF me, new, s
<1>7. MarksOK(new, db)
  BY <1>1, <1>2, <1>4, <1>5, <1>6 DEF MarksOK
<1>8. SeenOK(new, db)
  BY <1>1, <1>4, <1>6 DEF SeenOK, Behind
<1>9. PageOK(r, new, db)
  <2>1. ASSUME NEW q \in new.page PROVE next.pos < q.pos /\ q.pos <= db.autoinc
    <3>1. q \in me.page /\ q # next
      BY <1>6, <2>1
    <3>2. q.pos # next.pos /\ q.pos <= db.autoinc
      BY <1>1, <1>3, <1>4, <3>1 DEF PageOK
    <3> QED BY <1>3, <1>5, <3>1, <3>2
  <2>2. \A x, y \in new.page : x.pos = y.pos => x = y
    BY <1>1, <1>4, <1>6 DEF PageOK
  <2>3. ASSUME NEW row \in db.events, Wanted(r, row), next.pos < row.pos, row \notin new.page
        PROVE  /\ \A q \in new.page : q.pos < row.pos
               /\ ~new.full => new.head < row.pos /\ new.asof < row.pos
    <3>1. row.pos \in Nat /\ row # next /\ row \notin me.page /\ me.cursor < row.pos
      BY <1>2, <1>5, <1>6, <2>3
    <3> QED BY <1>1, <1>4, <1>6, <2>3, <3>1 DEF PageOK
  <2> QED BY <1>6, <2>1, <2>2, <2>3 DEF PageOK
<1>10. HandedOK(new, t)
  <2>1. /\ s \in Seq(Nat) /\ \A i \in DOMAIN s : s[i] \in Nat /\ s[i] <= me.cursor
        /\ \A i, j \in DOMAIN s : i < j => s[i] < s[j]
    BY <1>4 DEF HandedOK
  <2>2. /\ t \in Seq(Nat) /\ Len(t) = Len(s) + 1 /\ t[Len(s) + 1] = next.pos
        /\ \A i \in DOMAIN s : t[i] = s[i] /\ i \in 1..Len(s)
        /\ DOMAIN t = 1..(Len(s) + 1) /\ DOMAIN s = 1..Len(s) /\ Len(s) \in Nat
    BY <1>5, <2>1
  <2> HIDE DEF t
  <2>3. \A i \in DOMAIN t : t[i] <= next.pos
    BY <1>2, <1>5, <2>1, <2>2
  <2>4. ASSUME NEW i \in DOMAIN t, NEW j \in DOMAIN t, i < j PROVE t[i] < t[j]
    <3>1. CASE j \in DOMAIN s
      <4>1. i \in DOMAIN s
        BY <2>2, <2>4, <3>1
      <4> QED BY <2>1, <2>2, <2>4, <3>1, <4>1
    <3>2. CASE j \notin DOMAIN s
      <4>1. j = Len(s) + 1 /\ i \in DOMAIN s
        BY <2>2, <2>4, <3>2
      <4>2. t[i] = s[i] /\ t[j] = next.pos
        BY <2>2, <4>1
      <4>3. s[i] <= me.cursor /\ s[i] \in Nat
        BY <2>1, <4>1
      <4> QED BY <1>2, <1>5, <4>2, <4>3
    <3> QED BY <3>1, <3>2
  <2> QED BY <1>6, <2>2, <2>3, <2>4 DEF HandedOK
<1>11. Range(t) = Range(s) \cup {next.pos}
  <2>1. s \in Seq(Nat)
    BY <1>4 DEF HandedOK
  <2>2. /\ DOMAIN t = 1..(Len(s) + 1) /\ DOMAIN s = 1..Len(s) /\ Len(s) \in Nat
        /\ t[Len(s) + 1] = next.pos /\ \A i \in 1..Len(s) : t[i] = s[i]
    BY <1>5, <2>1
  <2>3. DOMAIN t = DOMAIN s \cup {Len(s) + 1}
    BY <2>2
  <2> HIDE DEF t
  <2> QED BY <2>2, <2>3 DEF Range
<1>12. Settled(r, new, db, t, new.cursor)
  <2> SUFFICES ASSUME NEW row \in db.events, Wanted(r, row), me.origin < row.pos,
                      row.pos <= next.pos
               PROVE  row.pos \in Range(s) \cup {next.pos}
    BY <1>6, <1>11 DEF Settled
  <2>1. CASE row.pos <= me.cursor
    BY <1>4, <2>1 DEF Settled
  <2>2. CASE ~(row.pos <= me.cursor)
    <3>1. me.cursor < row.pos /\ row.pos \in Nat
      BY <1>2, <2>2
    <3>2. row \in me.page
      BY <1>1, <1>3, <1>4, <1>5, <3>1 DEF PageOK
    <3> QED BY <1>3, <1>5, <3>1, <3>2
  <2> QED BY <2>1, <2>2
<1> HIDE DEF t
<1>13. ReaderOK(r, new, db, t)
  BY <1>6, <1>7, <1>8, <1>9, <1>10, <1>12 DEF ReaderOK
<1> QED BY <1>1, <1>13, ReaderMoves

\* A stream is opened, where the consumer likes or behind what it has.
LEMMA OpenOK ==
  ASSUME IInv, NEW r \in Readers, NEW tails \in BOOLEAN, NEW origin \in Origins,
         Open(r, tails, origin)
  PROVE  IInv'
<1> DEFINE me == reader[r]
           s == got[r]
           c == MaxOrZero({origin} \cup Handed(r))
           new == [Closed EXCEPT !.pc = Round(tails), !.tails = tails, !.origin = origin,
                                 !.cursor = c, !.seen = Channel(r),
                                 !.asof = IF tails THEN 0 ELSE db.autoinc]
<1>1. /\ Reads(r, new) /\ UNCHANGED got /\ me.pc \in {"new", "ended", "failed"}
      /\ me.pc = "new" \/ origin = me.origin
  BY DEF Open
<1>2. /\ ReaderOK(r, me, db, s) /\ db.autoinc \in Nat /\ me.cursor \in Nat
      /\ me.origin \in Nat /\ Channel(r) \in Nat /\ Channel(r) <= db.autoinc
      /\ \A row \in db.events : row.pos \in Nat
  BY Known
<1>3. origin \in Nat
  BY ReadersAssumption
<1>4. /\ HandedOK(me, s) /\ MarksOK(me, db) /\ Settled(r, me, db, s, me.cursor)
  BY <1>2 DEF ReaderOK
<1>5. /\ c \in Nat /\ origin <= c /\ \A i \in DOMAIN s : s[i] <= c
      /\ me.pc = "new" => c = origin
      /\ me.pc # "new" => c <= me.cursor /\ (c = origin \/ c <= db.autoinc)
  <2>1. CASE me.pc = "new"
    <3>1. s = <<>> /\ Handed(r) = {}
      BY <1>4, <2>1 DEF HandedOK, Handed, Range
    <3>2. c = MaxOrZero({origin})
      BY <3>1
    <3>3. {origin} \in SUBSET (0..origin)
      BY <1>3
    <3>4. MaxOrZero({origin}) \in {origin}
      BY <1>3, <3>3, MaxOrZeroBound
    <3> QED BY <1>3, <2>1, <3>1, <3>2, <3>4
  <2>2. CASE me.pc # "new"
    <3> DEFINE H == {origin} \cup Handed(r)
    <3>1. /\ \A i \in DOMAIN s : s[i] \in Nat /\ s[i] <= me.cursor
          /\ Handed(r) = {s[i] : i \in DOMAIN s}
      BY <1>4 DEF HandedOK, Handed, Range
    <3>2. origin <= me.cursor
      BY <1>1, <1>4, <2>2 DEF MarksOK
    <3>3. H \in SUBSET (0..me.cursor) /\ H # {} /\ origin \in H /\ \A i \in DOMAIN s : s[i] \in H
      BY <1>2, <1>3, <3>1, <3>2
    <3>4. c = MaxOrZero(H)
      OBVIOUS
    <3> HIDE DEF H, c
    <3>5. c \in 0..me.cursor /\ \A p \in H : p <= c
      BY <1>2, <3>3, <3>4, MaxOrZeroBound
    <3>6. c \in Nat /\ c <= me.cursor
      BY <1>2, <3>5
    <3>7. me.cursor <= db.autoinc \/ me.cursor = origin
      BY <1>1, <1>4, <2>2 DEF MarksOK
    <3>8. origin <= c /\ \A i \in DOMAIN s : s[i] <= c
      BY <3>3, <3>5
    <3>9. c = origin \/ c <= db.autoinc
      BY <1>2, <1>3, <3>6, <3>7, <3>8
    <3> QED BY <2>2, <3>6, <3>8, <3>9
  <2> QED BY <2>1, <2>2
<1> HIDE DEF c
<1>6. /\ new \in Streaming /\ new.pc = Round(tails) /\ new.cursor = c /\ new.page = {}
      /\ new.origin = origin /\ new.seen = Channel(r) /\ new.head = 0
      /\ new.asof \in {0, db.autoinc} /\ new.tails = tails
  BY <1>2, <1>3, <1>5 DEF Streaming, Closed, Round
<1> HIDE DEF me, new, s
<1>7. MarksOK(new, db)
  BY <1>2, <1>3, <1>5, <1>6 DEF MarksOK, Round
<1>8. SeenOK(new, db)
  BY <1>6 DEF SeenOK, Behind, Round
<1>9. PageOK(r, new, db)
  BY <1>6 DEF PageOK, Round
<1>10. HandedOK(new, s)
  BY <1>4, <1>5, <1>6 DEF HandedOK, Round
<1>11. Settled(r, new, db, s, new.cursor)
  <2> SUFFICES ASSUME NEW row \in db.events, Wanted(r, row), origin < row.pos, row.pos <= c
               PROVE  row.pos \in Range(s)
    BY <1>6 DEF Settled
  <2>1. me.pc # "new"
    BY <1>2, <1>3, <1>5
  <2>2. row.pos <= me.cursor
    BY <1>2, <1>5, <2>1
  <2> QED BY <1>1, <1>4, <2>1, <2>2 DEF Settled
<1>12. new.pc # "ended"
  BY <1>6 DEF Round
<1>13. ReaderOK(r, new, db, s)
  BY <1>6, <1>7, <1>8, <1>9, <1>10, <1>11, <1>12 DEF ReaderOK
<1> QED BY <1>1, <1>13, ReaderAlone DEF s

-----------------------------------------------------------------------------
(* The theorems.                                                           *)

\* A fresh log, and nobody reads yet.
LEMMA InitOK == ASSUME Init PROVE IInv
<1>1. db = EmptyTables /\ history = {}
  BY DEF Init, LogInit
<1>2. EmptyTables \in Tables
  BY DEF EmptyTables, Tables
<1>3. Numbered(db, history)
  BY <1>1, <1>2, FS_EmptySet DEF Numbered, EmptyTables, Dense
<1>4. db.autoinc = 0
  BY <1>1 DEF EmptyTables
<1>5. WakesOK
  BY <1>4 DEF Init, WakeInit, WakesOK, Heard
<1>6. Closed \in Streaming
  BY DEF Closed, Streaming
<1>7. reader \in [Readers -> Streaming] /\ got \in [Readers -> Seq(Nat)]
  BY <1>6 DEF Init
<1>8. ASSUME NEW r \in Readers PROVE ReaderOK(r, reader[r], db, got[r])
  <2>1. reader[r] = Closed /\ got[r] = <<>>
    BY DEF Init
  <2>2. db.events = {}
    BY <1>1 DEF EmptyTables
  <2>3. MarksOK(Closed, db) /\ SeenOK(Closed, db) /\ PageOK(r, Closed, db)
        /\ HandedOK(Closed, <<>>)
    BY <1>4, <2>2 DEF MarksOK, SeenOK, PageOK, HandedOK, Closed
  <2> QED BY <1>6, <2>1, <2>2, <2>3 DEF ReaderOK, Settled
<1> QED BY <1>3, <1>5, <1>7, <1>8 DEF IInv

\* Every step keeps the invariant.
LEMMA NextOK == ASSUME IInv, [Next]_vars PROVE IInv'
<1>1. CASE UNCHANGED vars
  <2>1. /\ db' = db /\ history' = history /\ notify' = notify /\ unpublished' = unpublished
        /\ reader' = reader /\ got' = got
    BY <1>1 DEF vars
  <2> QED BY <2>1 DEF IInv, WakesOK, Heard, Numbered
<1>2. CASE Next
  BY <1>2, WritersOK, HeadsOK, ReadPageOK, HandOK, RoundsOK, ParkOK, OpenOK DEF Next, Stream
<1> QED BY <1>1, <1>2

\* The inductive invariant holds in every state of a log, its writers and its
\* consumers.
THEOREM Invariance == Spec => []IInv
<1>1. Init => IInv
  BY InitOK
<1>2. IInv /\ [Next]_vars => IInv'
  BY NextOK
<1> QED BY <1>1, <1>2, PTL DEF Spec

\* Every variable keeps its type, a page is in hand only while it is handed out
\* and a replay never waits.
THEOREM TypeCorrect == Spec => []TypeOK
<1>1. IInv => TypeOK
  <2> SUFFICES ASSUME IInv PROVE TypeOK
    OBVIOUS
  <2>1. WakeTypeOK
    BY DEF IInv, WakesOK, Heard, Numbered, WakeTypeOK, LogTypeOK
  <2>2. ASSUME NEW r \in Readers
        PROVE  /\ reader[r].page # {} => reader[r].pc = "hand"
               /\ reader[r].pc \in {"head", "wait"} => reader[r].tails
    BY DEF IInv, ReaderOK, MarksOK
  <2> QED BY <2>1, <2>2 DEF TypeOK, IInv, Streaming
<1> QED BY <1>1, Invariance, PTL

\* No consumer is handed an event twice or out of the order of the log.
THEOREM HandedInOrder == Spec => []InOrderOnce
<1>1. IInv => InOrderOnce
  BY DEF IInv, ReaderOK, HandedOK, InOrderOnce
<1> QED BY <1>1, Invariance, PTL

\* What a cursor has passed was handed out, asked for and still there.
THEOREM SkipsNothing == Spec => []NothingSkipped
<1>1. IInv => NothingSkipped
  BY DEF IInv, ReaderOK, Settled, NothingSkipped, HandedUpTo, Asks, Handed
<1> QED BY <1>1, Invariance, PTL

\* A parked stream with nothing to wake it is current with its log's channel.
THEOREM WakesAreNotLost == Spec => []NoLostWake
<1>1. IInv => NoLostWake
  <2> SUFFICES ASSUME IInv, NEW r \in Readers, reader[r].pc = "wait",
                      reader[r].seen = Channel(r), NEW row \in db.events,
                      Asks(r, row), row.pos <= Channel(r)
               PROVE  row.pos \in Handed(r)
    BY DEF NoLostWake, HandedUpTo
  <2>1. SeenOK(reader[r], db) /\ MarksOK(reader[r], db)
        /\ Settled(r, reader[r], db, got[r], reader[r].cursor)
    BY DEF IInv, ReaderOK
  <2>2. row.pos <= reader[r].cursor
    BY <2>1 DEF SeenOK, MarksOK, Behind
  <2> QED BY <2>1, <2>2 DEF Settled, Asks, Handed
<1> QED BY <1>1, Invariance, PTL

\* A replay that ended left out nothing that was committed when it was opened.
THEOREM ReplaysAreWhole == Spec => []ReplayIsWhole
<1>1. IInv => ReplayIsWhole
  BY DEF IInv, ReaderOK, Settled, ReplayIsWhole, HandedUpTo, Asks, Handed
<1> QED BY <1>1, Invariance, PTL

=============================================================================
