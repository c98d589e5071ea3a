--------------------------- MODULE Backup_proofs ---------------------------
(***************************************************************************)
(* Opens and backups, for any builds, processes, files and ladders.        *)
(*                                                                         *)
(* What a file promises (FilesAreWhole) does not survive a step by itself: *)
(* a finished copy puts another file in its place.  So the invariant says  *)
(* what a copy is made of and that its destination is empty and nobody     *)
(* else's (BackupOK), and where each open is on the ladder (OpenerOK).     *)
(* The proof goes by what moves: first the files, each of which only gives *)
(* way to a later one (FilesMove), then the opens, the locks and the       *)
(* backups, each of which needs no more of the others than that.  An open  *)
(* log may take events and tables out of its file: so a later file is one  *)
(* that keeps its ladder and never gives a position out twice (Later), and *)
(* what a copy is made of lies between two moments of its source (Between).*)
(***************************************************************************)
EXTENDS Backup, TLAPS, WellFoundedInduction

\* What the prover sees of the constants.
LEMMA LadderFacts ==
  /\ Len(Creates) \in Nat
  /\ \A i \in 1..Len(Creates) : Creates[i] \subseteq Names
  /\ \A o \in Openers : TargetOf[o] \in Nat /\ 1 <= TargetOf[o] /\ TargetOf[o] <= Len(Creates)
  /\ \A o \in Openers : o # "free" /\ o # "outside" /\ o # "copy"
  /\ \A i, j \in 1..Len(Creates) : i # j => Creates[i] \cap Creates[j] = {}
<1> HIDE DEF Names
<1> QED BY OpeningAssumption DEF OpeningAssumption, Versions

\* A path without a file, and a file as it is created, are whole.
LEMMA EmptyFiles ==
  /\ NoFile \in File /\ Whole(NoFile) /\ ~NoFile.there
  /\ Empty \in File /\ Whole(Empty) /\ Empty.there
  /\ NoFile.tables = {} /\ NoFile.events = {} /\ NoFile.counter = 0 /\ NoFile.version = 0
  /\ Empty.tables = {} /\ Empty.events = {} /\ Empty.counter = 0 /\ Empty.version = 0
<1>1. 0 \in Versions /\ <<>> \in Seq(Versions)
  BY LadderFacts DEF Versions
<1>2. <<>> = [i \in 1..0 |-> i]
  OBVIOUS
<1>3. NoFile \in File /\ Empty \in File
  BY <1>1 DEF NoFile, Empty, File
<1>4. /\ NoFile.tables = {} /\ NoFile.events = {} /\ NoFile.version = 0 /\ NoFile.ran = <<>>
      /\ NoFile.counter = 0 /\ ~NoFile.there
      /\ Empty.tables = {} /\ Empty.events = {} /\ Empty.version = 0 /\ Empty.ran = <<>>
      /\ Empty.counter = 0 /\ Empty.there
  BY DEF NoFile, Empty
<1>5. Whole(NoFile) /\ Whole(Empty)
  <2> HIDE DEF NoFile, Empty
  <2> QED BY <1>2, <1>4 DEF Whole
<1> QED BY <1>3, <1>4, <1>5

\* One more step of the ladder ran.
LEMMA RanOneMore ==
  ASSUME NEW n \in Nat
  PROVE  Append([i \in 1..n |-> i], n + 1) = [i \in 1..(n + 1) |-> i]
OBVIOUS

\* A file that stays is a later one too, and holds what it holds.
LEMMA LaterIsReflexive ==
  ASSUME NEW f \in File, Whole(f) PROVE Later(f, f) /\ Holds(f, f)
BY DEF Later, Holds, Whole, Ladder, File, Versions

\* Later than later is later still.
LEMMA LaterIsTransitive ==
  ASSUME NEW f \in File, NEW g \in File, NEW h \in File, Later(g, f), Later(h, g)
  PROVE  Later(h, f)
<1>1. /\ f.version \in Nat /\ g.version \in Nat /\ h.version \in Nat
      /\ f.counter \in Nat /\ g.counter \in Nat /\ h.counter \in Nat
  BY DEF File, Versions
<1>2. Ladder(f) \subseteq Ladder(g)
  BY <1>1 DEF Later, Ladder
<1> QED BY <1>1, <1>2 DEF Later

\* A file that is at the same version, and neither lost a table of the ladder nor
\* gave out a position twice.
LEMMA SameLadder ==
  ASSUME NEW f \in File, Whole(f), NEW g \in File,
         g.version = f.version, g.ran = f.ran, Ladder(f) \subseteq g.tables,
         f.counter <= g.counter, g.events \subseteq 1..g.counter,
         g.events \cap 1..f.counter \subseteq f.events
  PROVE  Whole(g) /\ Later(g, f)
<1>1. \A i \in 1..f.version : Creates[i] \subseteq Ladder(f)
  BY DEF Ladder
<1> QED BY <1>1 DEF Whole, Later, File, Versions

\* A file whose ladder, events and counter are as they were, and whose tables only
\* became more.
LEMMA SameFile ==
  ASSUME NEW f \in File, Whole(f), NEW g \in File,
         g.version = f.version, g.ran = f.ran, f.tables \subseteq g.tables,
         g.events = f.events, g.counter = f.counter
  PROVE  Whole(g) /\ Later(g, f) /\ Holds(g, f)
<1>1. Ladder(f) \subseteq f.tables
  BY DEF Whole, Ladder
<1>2. f.counter \in Nat /\ f.version \in Nat /\ f.events \subseteq 1..f.counter
  BY DEF File, Versions, Whole
<1>3. /\ Ladder(f) \subseteq g.tables /\ f.counter <= g.counter
      /\ g.events \subseteq 1..g.counter /\ g.events \cap 1..f.counter \subseteq f.events
  BY <1>1, <1>2
<1>4. Whole(g) /\ Later(g, f)
  BY <1>3, SameLadder
<1>5. Holds(g, f)
  BY <1>2 DEF Holds
<1> QED BY <1>4, <1>5

\* A step of the ladder on a file that is at the version before it.
LEMMA OneMoreStep ==
  ASSUME NEW f \in File, Whole(f), NEW g \in File,
         g.version = f.version + 1, g.ran = Append(f.ran, f.version + 1),
         g.tables = f.tables \cup Creates[f.version + 1],
         g.events = f.events, g.counter = f.counter
  PROVE  Whole(g) /\ Later(g, f) /\ Holds(g, f)
<1>0. f.version \in Nat /\ f.counter \in Nat /\ g.version \in Nat
  BY DEF File, Versions
<1>1. g.ran = [i \in 1..g.version |-> i]
  BY <1>0, RanOneMore DEF Whole
<1>2. \A i \in 1..g.version : Creates[i] \subseteq g.tables
  BY <1>0 DEF Whole
<1>3. Ladder(f) \subseteq g.tables
  BY DEF Whole, Ladder
<1> QED BY <1>0, <1>1, <1>2, <1>3 DEF Whole, Later, Holds

WithEvents(f, E, n) == [f EXCEPT !.events = E, !.counter = n]
WithTables(f, T) == [f EXCEPT !.tables = T]

\* What else such files hold is as it was.
LEMMA EventsFields ==
  ASSUME NEW f \in File, NEW E \in SUBSET Nat, NEW n \in Nat
  PROVE  LET g == WithEvents(f, E, n) IN
         /\ g \in File /\ g.version = f.version /\ g.ran = f.ran /\ g.tables = f.tables
         /\ g.events = E /\ g.counter = n /\ g.there = f.there
<1> HIDE DEF Names, Versions
<1> QED BY DEF File, WithEvents

\* Nor does the change of its tables touch anything else of a file.
LEMMA TablesFields ==
  ASSUME NEW f \in File, NEW T \in SUBSET Names
  PROVE  LET g == WithTables(f, T) IN
         /\ g \in File /\ g.version = f.version /\ g.ran = f.ran /\ g.tables = T
         /\ g.events = f.events /\ g.counter = f.counter /\ g.there = f.there
<1> HIDE DEF Names, Versions
<1> QED BY DEF File, WithTables

\* An append leaves a file whole, and a later one that holds all it held.
LEMMA EventIsWhole ==
  ASSUME NEW f \in File, Whole(f), NEW g,
         g = WithEvents(f, f.events \cup {f.counter + 1}, f.counter + 1)
  PROVE  g \in File /\ Whole(g) /\ g.there = f.there /\ Later(g, f) /\ Holds(g, f)
<1>1. f.counter \in Nat /\ f.version \in Nat /\ f.events \subseteq 1..f.counter
  BY DEF File, Whole, Versions
<1> DEFINE E == f.events \cup {f.counter + 1}
           n == f.counter + 1
<1>2. E \in SUBSET Nat /\ n \in Nat /\ g = WithEvents(f, E, n) /\ E \subseteq 1..n
      /\ E \cap 1..f.counter \subseteq f.events /\ f.counter <= n /\ f.events \subseteq E
  BY <1>1
<1> HIDE DEF E, n
<1>3. /\ g \in File /\ g.version = f.version /\ g.ran = f.ran /\ g.tables = f.tables
      /\ g.events = E /\ g.counter = n /\ g.there = f.there
  BY <1>2, EventsFields
<1>4. Ladder(f) \subseteq g.tables
  BY <1>3 DEF Whole, Ladder
<1>5. Whole(g) /\ Later(g, f)
  BY <1>2, <1>3, <1>4, SameLadder
<1>6. Holds(g, f)
  BY <1>1, <1>2, <1>3 DEF Holds
<1> QED BY <1>3, <1>5, <1>6

\* No more events, and the same counter.
LEMMA FewerEvents ==
  ASSUME NEW f \in File, Whole(f), NEW g, g.counter = f.counter, g.events \subseteq f.events
  PROVE  /\ f.counter <= g.counter /\ g.events \subseteq 1..g.counter
         /\ g.events \cap 1..f.counter \subseteq f.events
<1> DEFINE n == f.counter
           W == 1..n
<1>1. n \in Nat /\ f.events \subseteq W /\ 1..g.counter = W
  BY DEF File, Whole
<1>2. f.counter <= g.counter
  BY <1>1
<1> HIDE DEF W
<1> QED BY <1>1, <1>2

\* So does retention, but for the events it takes: the counter stays.
LEMMA RetainedIsWhole ==
  ASSUME NEW f \in File, Whole(f), NEW gone, NEW g,
         g = WithEvents(f, f.events \ gone, f.counter)
  PROVE  g \in File /\ Whole(g) /\ g.there = f.there /\ Later(g, f)
<1>1. f.counter \in Nat /\ f.events \subseteq 1..f.counter
  BY DEF File, Whole
<1> DEFINE E == f.events \ gone
<1>2. E \in SUBSET Nat /\ g = WithEvents(f, E, f.counter) /\ E \subseteq f.events
  BY <1>1
<1> HIDE DEF E
<1>3. /\ g \in File /\ g.version = f.version /\ g.ran = f.ran /\ g.tables = f.tables
      /\ g.events = E /\ g.counter = f.counter /\ g.there = f.there
  BY <1>1, <1>2, EventsFields
<1>4. Ladder(f) \subseteq g.tables
  BY <1>3 DEF Whole, Ladder
<1>5. /\ f.counter <= g.counter /\ g.events \subseteq 1..g.counter
      /\ g.events \cap 1..f.counter \subseteq f.events
  <2>1. g.events \subseteq f.events /\ g.counter = f.counter
    BY <1>2, <1>3
  <2> QED BY <2>1, FewerEvents
<1>6. Whole(g) /\ Later(g, f)
  BY <1>3, <1>4, <1>5, SameLadder
<1> QED BY <1>3, <1>6

\* A caller's table leaves a file whole.
LEMMA TableIsWhole ==
  ASSUME NEW f \in File, Whole(f), NEW t \in UserTables, NEW g,
         g = WithTables(f, f.tables \cup {t})
  PROVE  g \in File /\ Whole(g) /\ g.there = f.there /\ Later(g, f) /\ Holds(g, f)
<1>1. f.tables \cup {t} \in SUBSET Names
  <2>1. f.tables \in SUBSET Names /\ t \in Names
    <3>1. t \in Names
      BY DEF Names
    <3> HIDE DEF Names
    <3> QED BY <3>1 DEF File
  <2> HIDE DEF Names
  <2> QED BY <2>1
<1>2. /\ g \in File /\ g.version = f.version /\ g.ran = f.ran
      /\ g.tables = f.tables \cup {t}
      /\ g.events = f.events /\ g.counter = f.counter /\ g.there = f.there
  BY <1>1, TablesFields
<1> QED BY <1>2, SameFile

\* A caller who drops one that callers created leaves every table of the ladder.
LEMMA DroppedIsWhole ==
  ASSUME NEW f \in File, Whole(f), NEW t \in Foreign(f), NEW g,
         g = WithTables(f, f.tables \ {t})
  PROVE  g \in File /\ Whole(g) /\ g.there = f.there /\ Later(g, f)
<1>1. f.tables \ {t} \in SUBSET Names
  <2> HIDE DEF Names
  <2> QED BY DEF File
<1>2. /\ g \in File /\ g.version = f.version /\ g.ran = f.ran
      /\ g.tables = f.tables \ {t}
      /\ g.events = f.events /\ g.counter = f.counter /\ g.there = f.there
  BY <1>1, TablesFields
<1>3. Ladder(f) \subseteq g.tables
  <2>1. Ladder(f) \subseteq f.tables
    BY DEF Whole, Ladder
  <2>2. t \notin Ladder(f)
    BY DEF Foreign
  <2> QED BY <1>2, <2>1, <2>2
<1>4. /\ f.counter <= g.counter /\ g.events \subseteq 1..g.counter
      /\ g.events \cap 1..f.counter \subseteq f.events
  <2>1. g.events \subseteq f.events /\ g.counter = f.counter
    BY <1>2
  <2> QED BY <2>1, FewerEvents
<1>5. Whole(g) /\ Later(g, f)
  BY <1>2, <1>3, <1>4, SameLadder
<1> QED BY <1>2, <1>5

\* The head of a file is no lower than any event and no higher than the counter.
LEMMA HeadBounds ==
  ASSUME NEW f \in File, Whole(f)
  PROVE  /\ HeadPosition(f) \in Nat /\ HeadPosition(f) <= f.counter
         /\ \A e \in f.events : e <= HeadPosition(f)
<1> DEFINE S == f.events
           n == f.counter
<1>1. n \in Nat /\ S \subseteq 1..n
  BY DEF File, Whole
<1>2. CASE S = {}
  BY <1>1, <1>2 DEF HeadPosition
<1>3. CASE S # {}
  <2>1. HeadPosition(f) = CHOOSE e \in S : \A x \in S : x <= e
    BY <1>3 DEF HeadPosition
  <2> HIDE DEF S, n
  <2> DEFINE T == {n - e : e \in S}
  <2>2. \A e \in S : e \in Nat /\ e <= n
    <3> SUFFICES ASSUME NEW e \in S PROVE e \in Nat /\ e <= n
      OBVIOUS
    <3>1. e \in 1..n
      BY <1>1
    <3> QED BY <1>1, <3>1
  <2>3. T \subseteq Nat /\ T # {}
    <3>1. ASSUME NEW e \in S PROVE n - e \in Nat
      BY <1>1, <2>2
    <3> QED BY <1>3, <3>1 DEF S
  <2>4. PICK m \in T : \A y \in T : ~(<<y, m>> \in OpToRel(<, Nat))
    <3> HIDE DEF T
    <3> QED BY <2>3, NatLessThanWellFounded, WFMin
  <2>5. \A y \in T : m <= y
    <3> SUFFICES ASSUME NEW y \in T PROVE m <= y
      OBVIOUS
    <3>1. y \in Nat /\ m \in Nat /\ ~(y < m)
      BY <2>3, <2>4 DEF OpToRel
    <3> QED BY <3>1
  <2>6. \E h \in S : \A e \in S : e <= h
    <3>1. PICK h \in S : m = n - h
      OBVIOUS
    <3>2. \A e \in S : m <= n - e
      BY <2>5
    <3>3. \A e \in S : e <= h
      BY <1>1, <2>2, <3>1, <3>2
    <3> QED BY <3>3
  <2>7. HeadPosition(f) \in S /\ \A e \in S : e <= HeadPosition(f)
    BY <2>1, <2>6
  <2>8. HeadPosition(f) \in Nat /\ HeadPosition(f) <= n
    BY <2>2, <2>7
  <2> QED BY <2>7, <2>8 DEF S, n
<1> QED BY <1>2, <1>3

-----------------------------------------------------------------------------
(* The invariant.                                                          *)

\* A path where nothing is holds nothing.
AbsentIsEmpty == \A p \in Paths : ~file[p].there => file[p] = NoFile

\* Where an open is on the ladder, and that what it works on is there; the channel
\* of a log that is open starts no lower than any event that was there at the call.
OpenerOK(o) ==
  LET f == file[Its(o)] IN
  /\ ~At(o, "closed") => /\ f.there /\ opener[o].first <= f.counter
                         /\ opener[o].ans = "none"
  /\ At(o, "pragmas") \/ At(o, "readers") => opener[o].step = 0
  /\ At(o, "begin") \/ At(o, "step") =>
       opener[o].step < TargetOf[o] /\ opener[o].step <= f.version
  /\ At(o, "seed") \/ At(o, "open") => f.version >= TargetOf[o]
  /\ At(o, "open") => /\ opener[o].seed <= f.counter
                      /\ \A e \in f.events : e <= opener[o].first => e <= opener[o].seed

\* What a copy read is later than the source was at the call, and the source is
\* later than that; no table that was there throughout is missing.
Between(me) ==
  /\ Whole(me.snap) /\ me.snap.there /\ Later(me.snap, me.from)
  /\ me.from.tables \subseteq me.snap.tables /\ Later(file[Its(me.by)], me.snap)

\* A backup that is going on has its destination to itself, and its source is a
\* log that is open, later than it was at the call.
BackupOK(b) ==
  LET me == backup[b] IN
  /\ Going(b) =>
       /\ file[me.dest] = Empty
       /\ \A o \in Openers : ~At(o, "closed") => Its(o) # me.dest
       /\ \A c \in Backups \ {b} : Going(c) => backup[c].dest # me.dest
       /\ At(me.by, "open") /\ Later(file[Its(me.by)], me.from)
  /\ Doing(b, "copying") => Between(me)

FilesOK == file \in [Paths -> File] /\ FilesAreWhole /\ AbsentIsEmpty

LocksOK ==
  /\ lock \in [Paths -> Openers \cup {"free", "outside", "copy"}]
  /\ \A o \in Openers, p \in Paths : lock[p] = o <=> At(o, "step") /\ Its(o) = p
  /\ \A p \in Paths :
       lock[p] = "copy" <=> \E b \in Backups : Doing(b, "copying") /\ backup[b].dest = p

IInv ==
  /\ FilesOK /\ LocksOK
  /\ opener \in [Openers -> OpenCall] /\ backup \in [Backups -> BackupCall]
  /\ \A o \in Openers : OpenerOK(o)
  /\ \A b \in Backups : BackupOK(b)

\* A log that is open takes events or tables out of a file.
Shrinks(p) == \E o \in Openers : Its(o) = p /\ Removes(o)

\* The file that a step puts in the place of another: it is later, and holds all
\* that was there unless an open log took it out.
Follows(p, g) == Later(g, file[p]) /\ (Holds(g, file[p]) \/ Shrinks(p))

\* What a step does to the files.
FilesGrow ==
  /\ file' \in [Paths -> File]
  /\ \A p \in Paths : Whole(file'[p]) /\ Follows(p, file'[p])
  /\ \A p \in Paths : ~file'[p].there => file'[p] = NoFile

FilesMove ==
  /\ FilesGrow
  /\ \A p \in Paths : file[p].there /\ ~Claimed(p) => file'[p].there
  /\ \A b \in Backups : Going(b) /\ Going(b)' => file'[backup[b].dest] = file[backup[b].dest]

\* A file that stays follows itself.
LEMMA FollowsItself ==
  ASSUME FilesOK, NEW p \in Paths
  PROVE  file[p] \in File /\ Whole(file[p]) /\ Follows(p, file[p])
BY LaterIsReflexive DEF FilesOK, FilesAreWhole, Follows

\* One path changes, the others stay.
LEMMA OneFileMoves ==
  ASSUME FilesOK, NEW p \in Paths, NEW g \in File, file' = [file EXCEPT ![p] = g],
         Whole(g), Follows(p, g), g.there \/ g = NoFile
  PROVE  FilesGrow /\ file'[p] = g /\ \A q \in Paths \ {p} : file'[q] = file[q]
<1>1. \A q \in Paths : file'[q] = IF q = p THEN g ELSE file[q]
  BY DEF FilesOK
<1>2. \A q \in Paths : file[q] \in File /\ Whole(file[q]) /\ Follows(q, file[q])
  BY FollowsItself
<1> QED BY <1>1, <1>2 DEF FilesGrow, FilesOK, AbsentIsEmpty

\* No path changes.
LEMMA NoFileMoves ==
  ASSUME FilesOK, UNCHANGED file PROVE FilesMove
<1>1. \A q \in Paths : file[q] \in File /\ Whole(file[q]) /\ Follows(q, file[q])
  BY FollowsItself
<1> QED BY <1>1 DEF FilesMove, FilesGrow, FilesOK, AbsentIsEmpty

\* Another file moves than those that backups work on.
LEMMA OtherFileMoves ==
  ASSUME FilesOK, backup \in [Backups -> BackupCall],
         NEW p \in Paths, NEW g \in File, file' = [file EXCEPT ![p] = g],
         Whole(g), Later(g, file[p]), Holds(g, file[p]) \/ Shrinks(p), g.there, ~Claimed(p)
  PROVE  FilesMove
<1>0. Follows(p, g)
  BY DEF Follows
<1>1. FilesGrow /\ file'[p] = g /\ \A q \in Paths \ {p} : file'[q] = file[q]
  BY <1>0, OneFileMoves
<1>2. \A b \in Backups : backup[b].dest \in Paths
  BY DEF BackupCall
<1> QED BY <1>1, <1>2 DEF FilesMove, Claimed

\* A file an open log uses is no destination of a backup.
LEMMA InUseIsNotClaimed ==
  ASSUME IInv, NEW o \in Openers, ~At(o, "closed")
  PROVE  ~Claimed(Its(o)) /\ Its(o) \in Paths
BY DEF IInv, BackupOK, OpenCall, Claimed, Its

\* Every step puts a later file in the place of a file, if any.
LEMMA FilesStep == ASSUME IInv, [Next]_vars PROVE FilesMove
<1>0. /\ FilesOK /\ opener \in [Openers -> OpenCall] /\ backup \in [Backups -> BackupCall]
      /\ \A q \in Paths : file[q] \in File /\ Whole(file[q])
  BY DEF IInv, FilesOK, FilesAreWhole
<1>1. CASE UNCHANGED file
  BY <1>0, <1>1, NoFileMoves
<1>2. ASSUME NEW o \in Openers, NEW p \in Paths, Open(o, p), ~Claimed(p) PROVE FilesMove
  <2> DEFINE g == [file[p] EXCEPT !.there = TRUE]
  <2>1. file' = [file EXCEPT ![p] = g]
    BY <1>2, <1>0 DEF Open
  <2>2. /\ g \in File /\ g.there /\ g.version = file[p].version /\ g.ran = file[p].ran
        /\ g.tables = file[p].tables /\ g.events = file[p].events
        /\ g.counter = file[p].counter
    <3> HIDE DEF Names, Versions
    <3> QED BY <1>0 DEF File
  <2> HIDE DEF g
  <2>3. Whole(g) /\ Later(g, file[p]) /\ Holds(g, file[p])
    BY <1>0, <2>2, SameFile
  <2> QED BY <1>0, <1>2, <2>1, <2>2, <2>3, OtherFileMoves
<1>3. ASSUME NEW o \in Openers, ApplyPragmas(o) PROVE FilesMove
  <2>0. ~Claimed(Its(o)) /\ Its(o) \in Paths
    BY <1>3, InUseIsNotClaimed DEF ApplyPragmas, At
  <2> DEFINE p == Its(o)
             g == [file[p] EXCEPT !.wal = TRUE]
  <2>1. file' = [file EXCEPT ![p] = g] /\ file[p].there
    BY <1>3, <1>0 DEF ApplyPragmas, IInv, OpenerOK, At
  <2>2. /\ g \in File /\ g.there /\ g.version = file[p].version /\ g.ran = file[p].ran
        /\ g.tables = file[p].tables /\ g.events = file[p].events
        /\ g.counter = file[p].counter
    <3> HIDE DEF Names, Versions
    <3> QED BY <1>0, <2>0, <2>1 DEF File
  <2> HIDE DEF g, p
  <2>3. Whole(g) /\ Later(g, file[p]) /\ Holds(g, file[p]) /\ p \in Paths /\ ~Claimed(p)
    BY <1>0, <2>0, <2>2, SameFile DEF p
  <2> QED BY <1>0, <2>1, <2>2, <2>3, OtherFileMoves
<1>4. ASSUME NEW o \in Openers, At(o, "step"), Apply(o) PROVE FilesMove
  <2>0. ~Claimed(Its(o)) /\ Its(o) \in Paths
    BY <1>4, InUseIsNotClaimed DEF At
  <2> DEFINE p == Its(o)
             n == opener[o].step + 1
             g == [file[p] EXCEPT !.tables = file[p].tables \cup Creates[n],
                                  !.ran = Append(file[p].ran, n), !.version = n]
  <2>1. file' = [file EXCEPT ![p] = g] /\ file[p].there
    BY <1>4, <1>0, <2>0 DEF Apply, Migrate, IInv, OpenerOK, At
  <2>2. file[p].version = opener[o].step /\ opener[o].step < TargetOf[o]
    BY <1>4 DEF Apply, Applies, Current, IInv, OpenerOK
  <2>3. opener[o].step \in Nat /\ n \in 1..Len(Creates) /\ n \in Versions
        /\ opener[o].step < Len(Creates)
    BY <1>0, <2>2, LadderFacts DEF OpenCall, Versions
  <2>4. /\ g \in File /\ g.there /\ g.version = n /\ g.ran = Append(file[p].ran, n)
        /\ g.tables = file[p].tables \cup Creates[n]
        /\ g.events = file[p].events /\ g.counter = file[p].counter
    <3>1. file[p] \in File /\ Creates[n] \subseteq Names /\ n \in Versions
      BY <1>0, <2>0, <2>3, LadderFacts
    <3>2. Append(file[p].ran, n) \in Seq(Versions)
      BY <3>1 DEF File
    <3> HIDE DEF n, p, Names, Versions
    <3> QED BY <3>1, <3>2, <2>1 DEF File
  <2> HIDE DEF g
  <2>5. Whole(g) /\ Later(g, file[p]) /\ Holds(g, file[p])
    BY <1>0, <2>0, <2>2, <2>3, <2>4, OneMoreStep
  <2> HIDE DEF p
  <2>6. p \in Paths /\ ~Claimed(p)
    BY <2>0 DEF p
  <2> QED BY <1>0, <2>1, <2>4, <2>5, <2>6, OtherFileMoves
<1>5. ASSUME NEW o \in Openers, AppendEvent(o) PROVE FilesMove
  <2> DEFINE p == Its(o)
             f == file[p]
             g == WithEvents(f, f.events \cup {f.counter + 1}, f.counter + 1)
  <2>0. ~Claimed(p) /\ p \in Paths /\ f.there /\ f \in File /\ Whole(f)
    BY <1>0, <1>5, InUseIsNotClaimed DEF AppendEvent, At, IInv, OpenerOK
  <2>1. file' = [file EXCEPT ![p] = g]
    BY <1>0, <1>5, <2>0 DEF AppendEvent, WithEvents, FilesOK
  <2>2. g = WithEvents(f, f.events \cup {f.counter + 1}, f.counter + 1)
    OBVIOUS
  <2> HIDE DEF g, p
  <2>3. g \in File /\ Whole(g) /\ g.there = f.there /\ Later(g, f) /\ Holds(g, f)
    BY <2>0, <2>2, EventIsWhole
  <2> QED BY <1>0, <2>0, <2>1, <2>3, OtherFileMoves
<1>6. ASSUME NEW o \in Openers, NEW t \in UserTables, CreateTable(o, t) PROVE FilesMove
  <2> DEFINE p == Its(o)
             f == file[p]
             g == WithTables(f, f.tables \cup {t})
  <2>0. ~Claimed(p) /\ p \in Paths /\ f.there /\ f \in File /\ Whole(f)
    BY <1>0, <1>6, InUseIsNotClaimed DEF CreateTable, At, IInv, OpenerOK
  <2>1. file' = [file EXCEPT ![p] = g]
    BY <1>0, <1>6, <2>0 DEF CreateTable, WithTables, FilesOK
  <2>2. g = WithTables(f, f.tables \cup {t})
    OBVIOUS
  <2> HIDE DEF g, p
  <2>3. g \in File /\ Whole(g) /\ g.there = f.there /\ Later(g, f) /\ Holds(g, f)
    BY <2>0, <2>2, TableIsWhole
  <2> QED BY <1>0, <2>0, <2>1, <2>3, OtherFileMoves
<1>10. ASSUME NEW o \in Openers, Retain(o) PROVE FilesMove
  <2> DEFINE p == Its(o)
             f == file[p]
  <2>0. ~Claimed(p) /\ p \in Paths /\ f.there /\ f \in File /\ Whole(f)
    BY <1>0, <1>10, InUseIsNotClaimed DEF Retain, At, IInv, OpenerOK
  <2>1. PICK gone \in SUBSET f.events : file' = [file EXCEPT ![p].events = f.events \ gone]
    BY <1>0, <1>10, <2>0 DEF Retain, FilesOK
  <2> DEFINE g == WithEvents(f, f.events \ gone, f.counter)
  <2>2. file' = [file EXCEPT ![p] = g]
    <3>1. [f EXCEPT !.events = f.events \ gone] = g
      <4> HIDE DEF Names, Versions
      <4> QED BY <2>0 DEF WithEvents, File
    <3>2. file' = [file EXCEPT ![p] = [f EXCEPT !.events = f.events \ gone]]
      BY <2>0, <2>1
    <3> HIDE DEF g, f
    <3> QED BY <3>1, <3>2
  <2>3. g = WithEvents(f, f.events \ gone, f.counter) /\ Shrinks(p)
    BY <1>10 DEF Shrinks, Removes
  <2> HIDE DEF g, p
  <2>4. g \in File /\ Whole(g) /\ g.there = f.there /\ Later(g, f)
    BY <2>0, <2>3, RetainedIsWhole
  <2> QED BY <1>0, <2>0, <2>2, <2>3, <2>4, OtherFileMoves
<1>11. ASSUME NEW o \in Openers, NEW t \in UserTables, DropTable(o, t) PROVE FilesMove
  <2> DEFINE p == Its(o)
             f == file[p]
             g == WithTables(f, f.tables \ {t})
  <2>0. ~Claimed(p) /\ p \in Paths /\ f.there /\ f \in File /\ Whole(f)
    BY <1>0, <1>11, InUseIsNotClaimed DEF DropTable, At, IInv, OpenerOK
  <2>1. file' = [file EXCEPT ![p] = g] /\ t \in Foreign(f)
    BY <1>0, <1>11, <2>0 DEF DropTable, WithTables, FilesOK
  <2>2. g = WithTables(f, f.tables \ {t}) /\ Shrinks(p)
    BY <1>11 DEF Shrinks, Removes
  <2> HIDE DEF g, p
  <2>3. g \in File /\ Whole(g) /\ g.there = f.there /\ Later(g, f)
    BY <2>0, <2>1, <2>2, DroppedIsWhole
  <2> QED BY <1>0, <2>0, <2>1, <2>2, <2>3, OtherFileMoves
<1>7. ASSUME NEW b \in Backups, NEW o \in Openers, NEW p \in Paths, Claim(b, o, p)
      PROVE FilesMove
  <2>1. file[p] = NoFile /\ file' = [file EXCEPT ![p] = Empty] /\ ~file[p].there
    BY <1>7, <1>0 DEF Claim, FilesOK, AbsentIsEmpty
  <2>2. Later(Empty, file[p]) /\ Holds(Empty, file[p])
    BY <2>1, EmptyFiles, LadderFacts DEF Later, Holds, Ladder
  <2>3. ~Claimed(p)
    BY <2>1, EmptyFiles DEF Claimed, IInv, BackupOK
  <2> QED BY <1>0, <2>1, <2>2, <2>3, EmptyFiles, OtherFileMoves
<1>8. ASSUME NEW b \in Backups, FinishCopy(b) \/ CopyFails(b), ~UNCHANGED file PROVE FilesMove
  <2> DEFINE p == backup[b].dest
             g == IF Doing(b, "copying") /\ file' = [file EXCEPT ![p] = backup[b].snap]
                  THEN backup[b].snap ELSE NoFile
  <2>1. Going(b) /\ p \in Paths
    BY <1>0, <1>8 DEF FinishCopy, CopyFails, Going, BackupCall
  <2>2. file' = [file EXCEPT ![p] = g] /\ g \in File
    BY <1>0, <1>8, EmptyFiles DEF FinishCopy, CopyFails, BackupCall
  <2>3. Whole(g) /\ (g.there \/ g = NoFile)
    BY EmptyFiles DEF IInv, BackupOK, Between
  <2>4. file[p] = Empty
    BY <2>1 DEF IInv, BackupOK
  <2>5. /\ file[p].version = 0 /\ file[p].tables = {} /\ file[p].events = {}
        /\ file[p].counter = 0 /\ g.version \in Nat /\ g.counter \in Nat
    BY <2>2, <2>4, EmptyFiles DEF File, Versions
  <2>6. Follows(p, g)
    <3>1. Ladder(file[p]) = {} /\ g.events \cap 1..file[p].counter = {}
      BY <2>5 DEF Ladder
    <3> HIDE DEF g, p
    <3> QED BY <2>5, <3>1 DEF Follows, Later, Holds
  <2>7. FilesGrow /\ \A q \in Paths \ {p} : file'[q] = file[q]
    <3> HIDE DEF g, p
    <3> QED BY <1>0, <2>1, <2>2, <2>3, <2>6, OneFileMoves
  <2>8. \A c \in Backups \ {b} : Going(c) => backup[c].dest \in Paths \ {p}
    BY <1>0, <2>1 DEF IInv, BackupOK, BackupCall
  <2>9. ~Going(b)'
    <3>1. \E new \in {NoBackup, [NoBackup EXCEPT !.pc = "ok"]} : Does(b, new)
      BY <1>8 DEF FinishCopy, CopyFails
    <3>2. PICK new \in {NoBackup, [NoBackup EXCEPT !.pc = "ok"]} : backup'[b] = new
      BY <1>0, <3>1 DEF Does
    <3>3. NoBackup.pc = "idle" /\ [NoBackup EXCEPT !.pc = "ok"].pc = "ok"
      <4> HIDE DEF NoFile
      <4> QED BY <1>0 DEF NoBackup, BackupCall
    <3> QED BY <3>2, <3>3 DEF Going, Doing
  <2> HIDE DEF g, p
  <2>10. \A q \in Paths : file[q].there /\ ~Claimed(q) => file'[q].there
    BY <2>1, <2>7 DEF Claimed, p
  <2>11. \A c \in Backups : Going(c) /\ Going(c)' =>
           file'[backup[c].dest] = file[backup[c].dest]
    BY <2>7, <2>8, <2>9
  <2> QED BY <2>7, <2>10, <2>11 DEF FilesMove
<1>9. \/ UNCHANGED file
      \/ \E o \in Openers :
           \/ \E p \in Paths : Open(o, p) /\ ~Claimed(p)
           \/ ApplyPragmas(o) \/ (At(o, "step") /\ Apply(o)) \/ AppendEvent(o)
           \/ Retain(o) \/ \E t \in UserTables : CreateTable(o, t) \/ DropTable(o, t)
      \/ \E b \in Backups :
           \/ FinishCopy(b) \/ CopyFails(b)
           \/ \E o \in Openers, p \in Paths : Claim(b, o, p)
  BY DEF Next, vars, fileVars, LogStep, Removes, OpenStep, PragmasTimeOut, OpenReaders,
         BeginStep, BeginTimesOut, Step, RefuseNewer, AlreadyApplied, RefuseForeign, Collide, Seed,
         Close, Fails, Dies, OutsideLocks, OutsideLets, StartCopy, Abandon, Forget
<1> QED BY <1>1, <1>2, <1>3, <1>4, <1>5, <1>6, <1>7, <1>8, <1>9, <1>10, <1>11

-----------------------------------------------------------------------------
(* The opens.                                                              *)

OpenersOK == opener \in [Openers -> OpenCall] /\ \A o \in Openers : OpenerOK(o)

\* What an open that is not under way holds.
LEMMA ClosedFields ==
  /\ Closed \in OpenCall /\ Closed.path \in Paths /\ Closed.step = 0
  /\ Closed.pc = "closed" /\ Closed.ans = "none"
BY OpeningAssumption DEF OpeningAssumption, Closed, OpenCall, Versions

\* What a later file means for the opens of it.
LEMMA FileOfOpener ==
  ASSUME IInv, FilesMove, NEW p \in Paths
  PROVE  /\ file[p].version \in Nat /\ file'[p].version \in Nat
         /\ file[p].version <= file'[p].version
         /\ file[p].counter \in Nat /\ file'[p].counter \in Nat
         /\ file[p].counter <= file'[p].counter
         /\ \A e \in file'[p].events :
              e \in Nat /\ (e <= file[p].counter => e \in file[p].events)
<1>1. /\ Later(file'[p], file[p]) /\ Whole(file'[p])
      /\ file[p] \in File /\ file'[p] \in File
  BY DEF FilesMove, FilesGrow, Follows, IInv, FilesOK
<1>2. /\ file[p].version \in Nat /\ file'[p].version \in Nat
      /\ file[p].counter \in Nat /\ file'[p].counter \in Nat
  BY <1>1 DEF File, Versions
<1>3. ASSUME NEW e \in file'[p].events
      PROVE  e \in Nat /\ (e <= file[p].counter => e \in file[p].events)
  <2>1. e \in Nat /\ 1 <= e
    BY <1>1, <1>2 DEF Whole
  <2>2. e <= file[p].counter => e \in 1..file[p].counter
    BY <1>2, <2>1
  <2> QED BY <1>1, <2>1, <2>2 DEF Later
<1> QED BY <1>1, <1>2, <1>3 DEF Later

\* Where an open is on the ladder of a file, it is on a later one.
LEMMA OpenerStays ==
  ASSUME IInv, FilesMove, NEW o \in Openers, opener'[o] = opener[o]
  PROVE  OpenerOK(o)'
<1> DEFINE p == Its(o)
           f == file[p]
           g == file'[p]
<1>1. p \in Paths /\ Its(o)' = p /\ opener[o] \in OpenCall /\ OpenerOK(o)
  BY DEF IInv, Its, OpenCall
<1>2. ~At(o, "closed") => g.there
  BY <1>1, InUseIsNotClaimed DEF FilesMove, OpenerOK
<1>3. /\ f.version \in Nat /\ g.version \in Nat /\ f.version <= g.version
      /\ f.counter \in Nat /\ g.counter \in Nat /\ f.counter <= g.counter
      /\ \A e \in g.events : e \in Nat /\ (e <= f.counter => e \in f.events)
  BY <1>1, FileOfOpener
<1>4. /\ opener[o].step \in Nat /\ opener[o].first \in Nat /\ opener[o].seed \in Nat
      /\ TargetOf[o] \in Nat
  BY <1>1, LadderFacts DEF OpenCall, Versions
<1>5. \A pc : At(o, pc)' <=> At(o, pc)
  BY DEF At
<1>6. file[Its(o)]' = g /\ file[Its(o)] = f
  BY <1>1
<1> HIDE DEF p, f, g
<1>7. /\ ~At(o, "closed") => /\ opener[o].first <= f.counter /\ opener[o].ans = "none"
      /\ At(o, "begin") \/ At(o, "step") =>
           opener[o].step < TargetOf[o] /\ opener[o].step <= f.version
      /\ At(o, "pragmas") \/ At(o, "readers") => opener[o].step = 0
      /\ At(o, "seed") \/ At(o, "open") => f.version >= TargetOf[o]
      /\ At(o, "open") => /\ opener[o].seed <= f.counter /\ ~At(o, "closed")
                          /\ \A e \in f.events : e <= opener[o].first => e <= opener[o].seed
  BY <1>1, <1>6 DEF OpenerOK, At
<1>8. At(o, "open") => \A e \in g.events : e <= opener[o].first => e <= opener[o].seed
  BY <1>3, <1>4, <1>7
<1> QED BY <1>2, <1>3, <1>4, <1>5, <1>6, <1>7, <1>8 DEF OpenerOK

\* Files move, and no open does.
LEMMA OpenersStay ==
  ASSUME IInv, FilesMove, UNCHANGED opener PROVE OpenersOK'
BY OpenerStays DEF OpenersOK, IInv

\* Files move, and one open does.
LEMMA OneOpenerMoves ==
  ASSUME IInv, FilesMove, NEW o \in Openers, NEW new \in OpenCall, Goes(o, new),
         OpenerOK(o)'
  PROVE  OpenersOK'
<1>1. \A q \in Openers : opener'[q] = IF q = o THEN new ELSE opener[q]
  BY DEF Goes, IInv
<1>2. \A q \in Openers \ {o} : OpenerOK(q)'
  BY <1>1, OpenerStays
<1>3. opener' \in [Openers -> OpenCall]
  BY DEF Goes, IInv
<1> QED BY <1>2, <1>3 DEF OpenersOK

\* An open that is over, with an answer or with none.
LEMMA EndedFields ==
  ASSUME NEW ans \in {"none", "newer", "foreign", "exists", "failed"}
  PROVE  /\ [Closed EXCEPT !.ans = ans] \in OpenCall
         /\ [Closed EXCEPT !.ans = ans].pc = "closed"
         /\ [Closed EXCEPT !.ans = ans].ans = ans
BY ClosedFields DEF OpenCall

\* Nothing is asked of an open that is over.
LEMMA OpenEnds ==
  ASSUME IInv, FilesMove, NEW o \in Openers,
         NEW ans \in {"none", "newer", "foreign", "exists", "failed"}, Ends(o, ans)
  PROVE  OpenersOK'
<1> DEFINE new == [Closed EXCEPT !.ans = ans]
<1>1. new \in OpenCall /\ new.pc = "closed" /\ Goes(o, new)
  BY EndedFields DEF Ends
<1> HIDE DEF new
<1>2. opener'[o] = new
  BY <1>1 DEF Goes, IInv
<1>3. \A pc : At(o, pc)' <=> pc = "closed"
  BY <1>1, <1>2 DEF At
<1>4. OpenerOK(o)'
  BY <1>3 DEF OpenerOK
<1> QED BY <1>1, <1>4, OneOpenerMoves

\* The channel of a log starts at no position that is still to be given out, and
\* below no event that was there at the call.
Seeded(new, f) ==
  /\ new.seed <= f.counter
  /\ \A e \in f.events : e <= new.first => e <= new.seed

\* An open that goes on, to a place on the ladder that its file allows.
LEMMA OpenGoesOn ==
  ASSUME IInv, FilesMove, NEW o \in Openers, ~At(o, "closed"),
         NEW new \in OpenCall, Goes(o, new),
         new.path = Its(o), new.first = opener[o].first, new.ans = opener[o].ans,
         new.pc \in {"readers", "begin", "step", "seed", "open"},
         new.pc = "readers" => new.step = 0,
         new.pc \in {"begin", "step"} =>
           new.step < TargetOf[o] /\ new.step <= file'[Its(o)].version,
         new.pc \in {"seed", "open"} => file'[Its(o)].version >= TargetOf[o],
         new.pc = "open" => Seeded(new, file'[Its(o)])
  PROVE  OpenersOK'
<1> DEFINE p == Its(o)
<1>1. p \in Paths /\ opener'[o] = new /\ new.path = p /\ new.pc # "closed"
  BY DEF IInv, OpenCall, Its, Goes
<1>2. /\ Its(o)' = p /\ \A pc : At(o, pc)' <=> pc = new.pc
      /\ opener'[o].step = new.step /\ opener'[o].first = opener[o].first
      /\ opener'[o].seed = new.seed /\ opener'[o].ans = new.ans
  BY <1>1 DEF Its, At
<1>3. file'[p].there /\ opener[o].first <= file'[p].counter /\ new.ans = "none"
  <2>1. /\ file[p].there /\ opener[o].first <= file[p].counter /\ opener[o].first \in Nat
        /\ opener[o].ans = "none"
    BY DEF IInv, OpenerOK, OpenCall
  <2> QED BY <1>1, <2>1, InUseIsNotClaimed, FileOfOpener DEF FilesMove
<1> HIDE DEF p
<1>4. new.pc = "open" => /\ new.seed <= file'[p].counter
                         /\ \A e \in file'[p].events : e <= new.first => e <= new.seed
  BY DEF Seeded, p
<1>5. OpenerOK(o)'
  BY <1>1, <1>2, <1>3, <1>4 DEF OpenerOK, p
<1> QED BY <1>5, OneOpenerMoves

\* Every step keeps the opens sound.
LEMMA OpenersStep == ASSUME IInv, [Next]_vars, FilesMove PROVE OpenersOK'
<1>0. /\ opener \in [Openers -> OpenCall]
      /\ \A o \in Openers : /\ opener[o] \in OpenCall /\ Its(o) \in Paths
                            /\ opener[o].step \in Nat /\ opener[o].first \in Nat
                            /\ TargetOf[o] \in Nat /\ 1 <= TargetOf[o]
                            /\ TargetOf[o] <= Len(Creates)
  BY LadderFacts DEF IInv, Its, OpenCall, Versions
<1>1. CASE UNCHANGED opener
  BY <1>1, OpenersStay
<1>2. ASSUME NEW o \in Openers, NEW ans \in {"failed"}, Ends(o, ans)
      PROVE OpenersOK'
  BY <1>2, OpenEnds
<1>3. ASSUME NEW o \in Openers, NEW p \in Paths, Open(o, p), ~Claimed(p) PROVE OpenersOK'
  <2>1. PICK new \in OpenCall :
          /\ new.pc = "pragmas" /\ new.path = p /\ new.step = 0 /\ new.ans = "none"
          /\ new.first = file[p].counter /\ Goes(o, new)
    <3>1. file[p].counter \in Nat /\ Closed \in OpenCall /\ Closed.ans = "none" /\ Closed.step = 0
      BY <1>3, FileOfOpener, ClosedFields DEF Closed
    <3>2. [Closed EXCEPT !.pc = "pragmas", !.path = p, !.first = file[p].counter]
              \in OpenCall
      BY <3>1 DEF OpenCall
    <3> QED BY <1>3, <3>1, <3>2 DEF Open, OpenCall
  <2>2. opener'[o] = new
    BY <1>0, <2>1 DEF Goes
  <2>3. /\ Its(o)' = p /\ \A pc : At(o, pc)' <=> pc = "pragmas"
        /\ opener'[o].step = 0 /\ opener'[o].first = file[p].counter /\ opener'[o].ans = "none"
    BY <2>1, <2>2 DEF Its, At
  <2>4. file'[p].there /\ file[p].counter <= file'[p].counter
    BY <1>3, FileOfOpener DEF Open, IInv, FilesOK, File
  <2>5. OpenerOK(o)'
    BY <2>3, <2>4 DEF OpenerOK
  <2> QED BY <2>1, <2>5, OneOpenerMoves
<1>4. ASSUME NEW o \in Openers, ApplyPragmas(o) \/ OpenReaders(o) \/ BeginStep(o)
      PROVE OpenersOK'
  <2> DEFINE f == file[Its(o)]
  <2>1. f.version \in Nat /\ f.version \in Versions /\ f.version <= file'[Its(o)].version
        /\ file'[Its(o)].version \in Nat
    BY <1>0, FileOfOpener DEF IInv, FilesOK, File
  <2>2. CASE ApplyPragmas(o)
    <3>1. PICK new \in OpenCall :
            /\ new.pc = "readers" /\ new.path = Its(o) /\ new.step = opener[o].step
            /\ new.first = opener[o].first /\ new.ans = opener[o].ans /\ Goes(o, new)
      BY <1>0, <2>2 DEF ApplyPragmas, OpenCall, Its
    <3>2. opener[o].step = 0 /\ ~At(o, "closed")
      BY <2>2 DEF ApplyPragmas, IInv, OpenerOK, At
    <3> QED BY <3>1, <3>2, OpenGoesOn
  <2>3. CASE OpenReaders(o)
    <3> HIDE DEF f
    <3>1. PICK new \in OpenCall :
            /\ new.pc = "begin" /\ new.path = Its(o) /\ new.step = opener[o].step
            /\ new.first = opener[o].first /\ new.ans = opener[o].ans /\ Goes(o, new)
      BY <1>0, <2>1, <2>3 DEF OpenReaders, OpenCall, Its, f
    <3>2. opener[o].step = 0 /\ ~At(o, "closed")
      BY <2>3 DEF OpenReaders, IInv, OpenerOK, At
    <3>3. 0 < TargetOf[o] /\ 0 <= file'[Its(o)].version
      BY <1>0, <2>1
    <3> QED BY <3>1, <3>2, <3>3, OpenGoesOn
  <2>4. CASE BeginStep(o)
    <3>1. PICK new \in OpenCall :
            /\ new.pc = "step" /\ new.path = Its(o) /\ new.step = opener[o].step
            /\ new.first = opener[o].first /\ new.ans = opener[o].ans /\ Goes(o, new)
      BY <1>0, <2>4 DEF BeginStep, OpenCall, Its
    <3>2. ~At(o, "closed") /\ opener[o].step < TargetOf[o] /\ opener[o].step <= f.version
      BY <2>4 DEF BeginStep, IInv, OpenerOK, At
    <3>3. opener[o].step <= file'[Its(o)].version
      BY <1>0, <2>1, <3>2
    <3> QED BY <3>1, <3>2, <3>3, OpenGoesOn
  <2> QED BY <1>4, <2>2, <2>3, <2>4
<1>5. ASSUME NEW o \in Openers, Step(o) PROVE OpenersOK'
  <2> DEFINE f == file[Its(o)]
             n == opener[o].step + 1
  <2>0. /\ ~At(o, "closed") /\ opener[o].step < TargetOf[o] /\ opener[o].step <= f.version
        /\ At(o, "step")
    BY <1>5 DEF Step, IInv, OpenerOK, At
  <2>1. /\ f.version \in Nat /\ f.version <= file'[Its(o)].version /\ f \in File
        /\ file'[Its(o)].version \in Nat /\ Whole(f)
    BY <1>0, FileOfOpener DEF IInv, FilesOK, FilesAreWhole
  <2>2. n \in Nat /\ n <= TargetOf[o] /\ n \in 1..Len(Creates) /\ n \in Versions
        /\ (n < TargetOf[o] \/ n = TargetOf[o])
    BY <1>0, <2>0, LadderFacts DEF Versions
  <2>3. ASSUME NextStep(o), n <= file'[Its(o)].version PROVE OpenersOK'
    <3>1. PICK new \in OpenCall :
            /\ new.pc = (IF n < TargetOf[o] THEN "begin" ELSE "seed")
            /\ new.path = Its(o) /\ new.step = n
            /\ new.first = opener[o].first /\ new.ans = opener[o].ans /\ Goes(o, new)
      BY <1>0, <2>2, <2>3 DEF NextStep, OpenCall, Its
    <3> HIDE DEF n
    <3>2. n < TargetOf[o] => new.pc = "begin" /\ new.step < TargetOf[o]
      BY <3>1
    <3>3. ~(n < TargetOf[o]) => new.pc = "seed" /\ file'[Its(o)].version >= TargetOf[o]
      BY <2>1, <2>2, <2>3, <3>1
    <3> QED BY <2>0, <2>3, <3>1, <3>2, <3>3, OpenGoesOn
  <2>4. CASE RefuseNewer(o) \/ RefuseForeign(o) \/ Collide(o)
    BY <2>4, OpenEnds DEF RefuseNewer, RefuseForeign, Collide
  <2>5. CASE AlreadyApplied(o)
    <3>1. n <= file'[Its(o)].version /\ NextStep(o)
      BY <1>0, <2>0, <2>1, <2>5 DEF AlreadyApplied, Current
    <3> QED BY <2>3, <3>1
  <2>6. CASE Apply(o)
    <3>1. file'[Its(o)].version = n /\ NextStep(o)
      BY <1>0, <2>1, <2>6 DEF Apply, Migrate, IInv, FilesOK, File
    <3> QED BY <2>2, <2>3, <3>1
  <2> QED BY <1>5, <2>4, <2>5, <2>6 DEF Step
<1>6. ASSUME NEW o \in Openers, Seed(o) PROVE OpenersOK'
  <2> DEFINE f == file[Its(o)]
             h == HeadPosition(f)
             new == [Closed EXCEPT !.pc = "open", !.path = Its(o), !.first = opener[o].first,
                                   !.seed = h]
  <2>1. /\ file'[Its(o)] = f /\ f \in File /\ Whole(f) /\ At(o, "seed") /\ Goes(o, new)
    BY <1>0, <1>6 DEF Seed, IInv, FilesOK, FilesAreWhole
  <2>2. /\ ~At(o, "closed") /\ f.version >= TargetOf[o] /\ opener[o].ans = "none"
    BY <2>1 DEF IInv, OpenerOK, At
  <2>3. h \in Nat /\ h <= f.counter /\ \A e \in f.events : e <= h
    BY <2>1, HeadBounds
  <2> HIDE DEF f, h
  <2>4. /\ new \in OpenCall /\ new.pc = "open" /\ new.path = Its(o) /\ new.seed = h
        /\ new.first = opener[o].first /\ new.ans = "none"
    BY <1>0, <2>3, ClosedFields DEF OpenCall
  <2> HIDE DEF new
  <2>5. Seeded(new, f)
    BY <2>3, <2>4 DEF Seeded
  <2> QED BY <2>1, <2>2, <2>4, <2>5, OpenGoesOn DEF f
<1>7. ASSUME NEW o \in Openers, Close(o) PROVE OpenersOK'
  <2>1. opener'[o] = Closed
    BY <1>0, <1>7 DEF Close, Goes
  <2>2. opener'[o].ans = "none" /\ \A pc : At(o, pc)' <=> pc = "closed"
    BY <2>1, ClosedFields DEF At
  <2>3. OpenerOK(o)'
    BY <2>2 DEF OpenerOK
  <2> QED BY <1>7, <2>3, ClosedFields, OneOpenerMoves DEF Close
<1>8. \/ UNCHANGED opener
      \/ \E o \in Openers :
           \/ \E p \in Paths : Open(o, p) /\ ~Claimed(p)
           \/ \E ans \in {"failed"} : Ends(o, ans)
           \/ ApplyPragmas(o) \/ OpenReaders(o) \/ BeginStep(o)
           \/ Step(o) \/ Seed(o) \/ Close(o)
  BY DEF Next, vars, fileVars, LogStep, OpenStep, PragmasTimeOut, BeginTimesOut, AppendEvent,
         Removes, Retain, DropTable, CreateTable, Fails, Dies, OutsideLocks, OutsideLets,
         StartCopy, FinishCopy, CopyFails, Abandon, Forget, Claim
<1> QED BY <1>1, <1>2, <1>3, <1>4, <1>5, <1>6, <1>7, <1>8

-----------------------------------------------------------------------------
(* The locks.                                                              *)

\* A step that neither begins nor ends a transaction or a copy.
LEMMA LocksStay ==
  ASSUME LocksOK, UNCHANGED lock,
         \A o \in Openers : At(o, "step")' <=> At(o, "step"),
         \A o \in Openers : At(o, "step") => Its(o)' = Its(o),
         \A b \in Backups : Doing(b, "copying")' <=> Doing(b, "copying"),
         \A b \in Backups : Doing(b, "copying") => backup'[b].dest = backup[b].dest
  PROVE  LocksOK'
BY DEF LocksOK

\* The tables of a file that are in another set too.
LEMMA FewerTables ==
  ASSUME NEW f \in File, NEW T
  PROVE  LET h == [f EXCEPT !.tables = @ \cap T] IN
         /\ h \in File /\ h.tables = f.tables \cap T /\ h.version = f.version
         /\ h.events = f.events /\ h.counter = f.counter
<1> HIDE DEF Names, Versions
<1> QED BY DEF File

\* What a copy holds as it starts.
LEMMA CopyStarts ==
  ASSUME IInv, NEW b \in Backups, StartCopy(b)
  PROVE  \E new \in BackupCall :
           /\ Does(b, new) /\ new.pc = "copying"
           /\ new.by = backup[b].by /\ new.dest = backup[b].dest
           /\ new.snap = file[Its(backup[b].by)]
           /\ new.from.tables \subseteq new.snap.tables
           /\ new.from.version = backup[b].from.version
           /\ new.from.events = backup[b].from.events
           /\ new.from.counter = backup[b].from.counter
<1> DEFINE me == backup[b]
           src == file[Its(me.by)]
           from == [me.from EXCEPT !.tables = @ \cap src.tables]
           new == [me EXCEPT !.pc = "copying", !.snap = src,
                             !.from.tables = @ \cap src.tables]
<1>1. me \in BackupCall /\ src \in File /\ me.from \in File
  <2>1. me \in BackupCall
    BY DEF IInv
  <2>2. me.by \in Openers /\ me.from \in File
    BY <2>1 DEF BackupCall
  <2>3. Its(me.by) \in Paths
    BY <2>2 DEF IInv, OpenCall, Its
  <2> QED BY <2>1, <2>2, <2>3 DEF IInv, FilesOK
<1>2. /\ from \in File /\ from.tables \subseteq src.tables
      /\ from.version = me.from.version /\ from.events = me.from.events
      /\ from.counter = me.from.counter
  <2> HIDE DEF me, src
  <2> QED BY <1>1, FewerTables
<1>3. Does(b, new)
  BY DEF StartCopy
<1>4. new = [me EXCEPT !.pc = "copying", !.snap = src, !.from = from]
  <2> HIDE DEF src
  <2> QED BY <1>1 DEF BackupCall
<1> HIDE DEF from
<1>5. /\ new \in BackupCall /\ new.pc = "copying" /\ new.by = me.by /\ new.dest = me.dest
      /\ new.snap = src /\ new.from = from
  <2> HIDE DEF src
  <2> QED BY <1>1, <1>2, <1>4 DEF BackupCall
<1> HIDE DEF new
<1> QED BY <1>2, <1>3, <1>5

\* Every step keeps the locks sound.
LEMMA LocksStep == ASSUME IInv, [Next]_vars PROVE LocksOK'
<1>0. /\ LocksOK
      /\ opener \in [Openers -> OpenCall] /\ backup \in [Backups -> BackupCall]
      /\ \A o \in Openers : opener[o] \in OpenCall /\ Its(o) \in Paths
      /\ \A b \in Backups : backup[b] \in BackupCall /\ backup[b].dest \in Paths
      /\ \A o \in Openers : o # "free" /\ o # "outside" /\ o # "copy"
  BY LadderFacts DEF IInv, Its, OpenCall, BackupCall
<1>1. ASSUME NEW o \in Openers, BeginStep(o), UNCHANGED backup PROVE LocksOK'
  <2>1. PICK new \in OpenCall : new.pc = "step" /\ new.path = Its(o) /\ Goes(o, new)
    BY <1>0, <1>1 DEF BeginStep, OpenCall, Its
  <2>2. /\ \A q \in Openers : opener'[q] = IF q = o THEN new ELSE opener[q]
        /\ lock[Its(o)] = "free" /\ lock' = [lock EXCEPT ![Its(o)] = o] /\ ~At(o, "step")
    BY <1>0, <1>1, <2>1 DEF BeginStep, Goes, At
  <2>3. \A q \in Openers, p \in Paths : lock'[p] = q <=> At(q, "step")' /\ Its(q)' = p
    BY <1>0, <2>1, <2>2 DEF LocksOK, At, Its
  <2>4. \A p \in Paths :
          lock'[p] = "copy" <=> \E b \in Backups : Doing(b, "copying")' /\ backup'[b].dest = p
    BY <1>0, <1>1, <2>2 DEF LocksOK, Doing
  <2>5. lock' \in [Paths -> Openers \cup {"free", "outside", "copy"}]
    BY <1>0, <2>2 DEF LocksOK
  <2> QED BY <2>3, <2>4, <2>5 DEF LocksOK
<1>2. ASSUME NEW o \in Openers, At(o, "step"), opener'[o].pc # "step",
             \A q \in Openers \ {o} : opener'[q] = opener[q], Frees(Its(o)), UNCHANGED backup
      PROVE LocksOK'
  <2>1. lock' = [lock EXCEPT ![Its(o)] = "free"] /\ lock[Its(o)] = o
    BY <1>0, <1>2 DEF Frees, LocksOK
  <2>2. \A q \in Openers, p \in Paths : lock'[p] = q <=> At(q, "step")' /\ Its(q)' = p
    BY <1>0, <1>2, <2>1 DEF LocksOK, At, Its
  <2>3. \A p \in Paths :
          lock'[p] = "copy" <=> \E b \in Backups : Doing(b, "copying")' /\ backup'[b].dest = p
    BY <1>0, <1>2, <2>1 DEF LocksOK, Doing
  <2>4. lock' \in [Paths -> Openers \cup {"free", "outside", "copy"}]
    BY <1>0, <2>1 DEF LocksOK
  <2> QED BY <2>2, <2>3, <2>4 DEF LocksOK
<1>3. ASSUME NEW b \in Backups, StartCopy(b) PROVE LocksOK'
  <2> DEFINE d == backup[b].dest
  <2>1. PICK new \in BackupCall : new.pc = "copying" /\ new.dest = d /\ Does(b, new)
    BY <1>0, <1>3, CopyStarts
  <2>2. /\ \A c \in Backups : backup'[c] = IF c = b THEN new ELSE backup[c]
        /\ lock[d] = "free" /\ lock' = [lock EXCEPT ![d] = "copy"] /\ UNCHANGED opener
        /\ d \in Paths /\ ~Doing(b, "copying")
    BY <1>0, <1>3, <2>1 DEF StartCopy, Does, Doing
  <2> HIDE DEF d
  <2>3. \A q \in Openers, p \in Paths : lock'[p] = q <=> At(q, "step")' /\ Its(q)' = p
    BY <1>0, <2>2 DEF LocksOK, At, Its
  <2>4. \A p \in Paths :
          lock'[p] = "copy" <=> \E c \in Backups : Doing(c, "copying")' /\ backup'[c].dest = p
    BY <1>0, <2>1, <2>2 DEF LocksOK, Doing
  <2>5. lock' \in [Paths -> Openers \cup {"free", "outside", "copy"}]
    BY <1>0, <2>2 DEF LocksOK
  <2> QED BY <2>3, <2>4, <2>5 DEF LocksOK
<1>4. ASSUME NEW b \in Backups, Doing(b, "copying"), backup'[b].pc # "copying",
             \A c \in Backups \ {b} : backup'[c] = backup[c], Frees(backup[b].dest),
             UNCHANGED opener
      PROVE LocksOK'
  <2> DEFINE d == backup[b].dest
  <2>1. lock' = [lock EXCEPT ![d] = "free"] /\ lock[d] = "copy" /\ d \in Paths
    BY <1>0, <1>4 DEF Frees, LocksOK
  <2>2. \A c \in Backups \ {b} : Doing(c, "copying") => backup[c].dest # d
    BY <1>4 DEF IInv, BackupOK, Going
  <2> HIDE DEF d
  <2>3. \A q \in Openers, p \in Paths : lock'[p] = q <=> At(q, "step")' /\ Its(q)' = p
    BY <1>0, <1>4, <2>1 DEF LocksOK, At, Its
  <2>4. \A p \in Paths :
          lock'[p] = "copy" <=> \E c \in Backups : Doing(c, "copying")' /\ backup'[c].dest = p
    <3>1. \A c \in Backups : Doing(c, "copying")' <=> c # b /\ Doing(c, "copying")
      BY <1>4 DEF Doing
    <3>2. \A c \in Backups : Doing(c, "copying")' => backup'[c].dest = backup[c].dest
      BY <1>4, <3>1
    <3>3. \A p \in Paths : lock'[p] = "copy" <=> p # d /\ lock[p] = "copy"
      BY <1>0, <2>1 DEF LocksOK
    <3>4. \A p \in Paths : p # d /\ lock[p] = "copy" <=>
            \E c \in Backups : c # b /\ Doing(c, "copying") /\ backup[c].dest = p
      BY <1>0, <2>1, <2>2 DEF LocksOK, d
    <3> QED BY <3>1, <3>2, <3>3, <3>4
  <2>5. lock' \in [Paths -> Openers \cup {"free", "outside", "copy"}]
    BY <1>0, <2>1 DEF LocksOK
  <2> QED BY <2>3, <2>4, <2>5 DEF LocksOK
<1>5. ASSUME NEW o \in Openers, Dies(o) PROVE LocksOK'
  <2>1. opener'[o].pc = "closed" /\ \A q \in Openers \ {o} : opener'[q] = opener[q]
    <3>1. [Closed EXCEPT !.ans = "failed"].pc = "closed"
      BY EndedFields
    <3> QED BY <1>0, <1>5, <3>1 DEF Dies, Ends, Goes
  <2>2. \A p \in Paths :
          lock'[p] = IF lock[p] = o \/ (\E b \in Of(o) : backup[b].dest = p) THEN "free"
                     ELSE lock[p]
    BY <1>5 DEF Dies
  <2>3. \A b \in Backups : backup'[b] = IF b \in Of(o) THEN NoBackup ELSE backup[b]
    BY <1>5 DEF Dies
  <2>4. NoBackup.pc = "idle"
    BY DEF NoBackup
  <2>5. \A b \in Of(o) : /\ \A q \in Openers : ~At(q, "closed") => Its(q) # backup[b].dest
                         /\ \A c \in Backups \ {b} :
                              Doing(c, "copying") => backup[c].dest # backup[b].dest
    BY DEF IInv, BackupOK, Of, Going
  <2>6. \A q \in Openers, p \in Paths : lock'[p] = q <=> At(q, "step")' /\ Its(q)' = p
    <3> SUFFICES ASSUME NEW q \in Openers, NEW p \in Paths
                 PROVE  lock'[p] = q <=> At(q, "step")' /\ Its(q)' = p
      OBVIOUS
    <3>1. CASE q = o
      BY <1>0, <2>1, <2>2, <3>1 DEF LocksOK, At
    <3>2. CASE q # o
      <4>1. At(q, "step")' /\ Its(q)' = p <=> At(q, "step") /\ Its(q) = p
        BY <2>1, <3>2 DEF At, Its
      <4>2. lock[p] = q => ~\E b \in Of(o) : backup[b].dest = p
        BY <1>0, <2>5 DEF LocksOK, At
      <4> QED BY <1>0, <2>2, <3>2, <4>1, <4>2 DEF LocksOK
    <3> QED BY <3>1, <3>2
  <2>7. \A p \in Paths :
          lock'[p] = "copy" <=> \E c \in Backups : Doing(c, "copying")' /\ backup'[c].dest = p
    <3> SUFFICES ASSUME NEW p \in Paths
                 PROVE  lock'[p] = "copy" <=>
                          \E c \in Backups : Doing(c, "copying")' /\ backup'[c].dest = p
      OBVIOUS
    <3>1. \A c \in Backups : Doing(c, "copying")' <=> c \notin Of(o) /\ Doing(c, "copying")
      BY <2>3, <2>4 DEF Doing
    <3>2. \A c \in Backups : c \notin Of(o) => backup'[c].dest = backup[c].dest
      BY <2>3
    <3>3. lock[p] = "copy" <=> \E c \in Backups : Doing(c, "copying") /\ backup[c].dest = p
      BY <1>0 DEF LocksOK
    <3>4. Of(o) \subseteq Backups
      BY DEF Of
    <3>5. lock'[p] = "copy" <=>
            lock[p] = "copy" /\ ~\E b \in Of(o) : backup[b].dest = p
      BY <1>0, <2>2
    <3> QED BY <2>5, <3>1, <3>2, <3>3, <3>4, <3>5
  <2>8. lock' \in [Paths -> Openers \cup {"free", "outside", "copy"}]
    BY <1>0, <1>5 DEF LocksOK, Dies
  <2> QED BY <2>6, <2>7, <2>8 DEF LocksOK
<1>6. ASSUME NEW p \in Paths, OutsideLocks(p) \/ OutsideLets(p), UNCHANGED backup
      PROVE LocksOK'
  <2>1. PICK l \in {"free", "outside"} : lock' = [lock EXCEPT ![p] = l]
    BY <1>6 DEF OutsideLocks, OutsideLets, Frees
  <2>2. lock[p] \in {"free", "outside"} /\ UNCHANGED opener
    BY <1>6 DEF OutsideLocks, OutsideLets
  <2>3. \A q \in Openers, r \in Paths : lock'[r] = q <=> At(q, "step")' /\ Its(q)' = r
    BY <1>0, <2>1, <2>2 DEF LocksOK, At, Its
  <2>4. \A r \in Paths :
          lock'[r] = "copy" <=> \E c \in Backups : Doing(c, "copying")' /\ backup'[c].dest = r
    BY <1>0, <1>6, <2>1, <2>2 DEF LocksOK, Doing
  <2>5. lock' \in [Paths -> Openers \cup {"free", "outside", "copy"}]
    BY <1>0, <2>1 DEF LocksOK
  <2> QED BY <2>3, <2>4, <2>5 DEF LocksOK
<1>7. CASE UNCHANGED <<lock, opener, backup>>
  BY <1>0, <1>7, LocksStay DEF At, Its, Doing
<1>8. ASSUME NEW o \in Openers, ~At(o, "step"), opener'[o].pc # "step",
             \A q \in Openers \ {o} : opener'[q] = opener[q], UNCHANGED <<lock, backup>>
      PROVE LocksOK'
  BY <1>0, <1>8, LocksStay DEF At, Its, Doing
<1>9. ASSUME NEW b \in Backups, Doing(b, "copying")' <=> Doing(b, "copying"),
             Doing(b, "copying") => backup'[b].dest = backup[b].dest,
             \A c \in Backups \ {b} : backup'[c] = backup[c], UNCHANGED <<lock, opener>>
      PROVE LocksOK'
  BY <1>0, <1>9, LocksStay DEF At, Its, Doing
<1>10. ASSUME NEW o \in Openers, NEW ans \in {"newer", "foreign", "exists", "failed"},
              Ends(o, ans), UNCHANGED backup,
              IF At(o, "step") THEN Frees(Its(o)) ELSE UNCHANGED lock
       PROVE LocksOK'
  <2>1. opener'[o].pc = "closed" /\ \A q \in Openers \ {o} : opener'[q] = opener[q]
    <3>1. [Closed EXCEPT !.ans = ans].pc = "closed"
      BY EndedFields
    <3> QED BY <1>0, <1>10, <3>1 DEF Ends, Goes
  <2> QED BY <1>2, <1>8, <1>10, <2>1
<1>11. ASSUME NEW o \in Openers,
              ApplyPragmas(o) \/ OpenReaders(o) \/ Seed(o) \/ Close(o)
                \/ \E p \in Paths : Open(o, p),
              UNCHANGED backup
       PROVE LocksOK'
  <2>1. PICK pc \in {"readers", "begin", "open", "closed", "pragmas"} :
          opener'[o].pc = pc /\ \A q \in Openers \ {o} : opener'[q] = opener[q]
    <3>1. Closed \in OpenCall /\ Closed.pc = "closed"
      BY ClosedFields
    <3>2. CASE \E p \in Paths : Open(o, p)
      BY <1>0, <3>1, <3>2 DEF Open, Goes, OpenCall
    <3>3. CASE ApplyPragmas(o)
      BY <1>0, <3>3 DEF ApplyPragmas, Goes, OpenCall
    <3>5. CASE OpenReaders(o)
      BY <1>0, <3>5 DEF OpenReaders, Goes, OpenCall
    <3>6. CASE Seed(o)
      BY <1>0, <3>1, <3>6 DEF Seed, Goes, OpenCall
    <3>4. CASE Close(o)
      BY <1>0, <3>1, <3>4 DEF Close, Goes
    <3> QED BY <1>11, <3>2, <3>3, <3>4, <3>5, <3>6
  <2>2. ~At(o, "step") /\ UNCHANGED lock
    BY <1>11 DEF ApplyPragmas, OpenReaders, Seed, Close, Open, At
  <2> QED BY <1>8, <1>11, <2>1, <2>2
<1>12. ASSUME NEW o \in Openers, Step(o), UNCHANGED backup PROVE LocksOK'
  <2>1. CASE NextStep(o)
    <3>1. opener'[o].pc \in {"begin", "seed"} /\ \A q \in Openers \ {o} : opener'[q] = opener[q]
      BY <1>0, <2>1 DEF NextStep, Goes, OpenCall
    <3> QED BY <1>2, <1>12, <3>1 DEF Step
  <2>2. CASE \E ans \in {"newer", "foreign", "exists"} : Ends(o, ans)
    BY <1>10, <1>12, <2>2 DEF Step
  <2> QED BY <1>12, <2>1, <2>2
          DEF Step, RefuseNewer, AlreadyApplied, RefuseForeign, Collide, Apply
<1>13. ASSUME NEW b \in Backups,
              FinishCopy(b) \/ CopyFails(b) \/ Abandon(b) \/ Forget(b)
                \/ \E o \in Openers, p \in Paths : Claim(b, o, p)
       PROVE LocksOK'
  <2>1. NoBackup.pc = "idle" /\ NoBackup \in BackupCall
    BY OpeningAssumption, EmptyFiles DEF OpeningAssumption, NoBackup, BackupCall
  <2>2. \A c \in Backups \ {b} : backup'[c] = backup[c]
    BY <1>0, <1>13 DEF FinishCopy, CopyFails, Abandon, Forget, Claim, Does
  <2>3. CASE FinishCopy(b)
    <3>1. backup'[b].pc \in {"idle", "ok"}
      <4>1. [NoBackup EXCEPT !.pc = "ok"].pc = "ok"
        BY <2>1 DEF BackupCall
      <4> QED BY <1>0, <2>1, <2>3, <4>1 DEF FinishCopy, Does
    <3> QED BY <1>4, <2>2, <2>3, <3>1 DEF FinishCopy
  <2>4. CASE CopyFails(b)
    <3>1. backup'[b] = NoBackup
      BY <1>0, <2>4 DEF CopyFails, Does
    <3> QED BY <1>4, <1>9, <2>1, <2>2, <2>4, <3>1 DEF CopyFails, Doing
  <2>5. CASE Abandon(b)
    <3>1. backup'[b].pc = backup[b].pc /\ backup'[b].dest = backup[b].dest
      BY <1>0, <2>5 DEF Abandon, Does, BackupCall
    <3> QED BY <1>9, <2>2, <2>5, <3>1 DEF Abandon, Doing, fileVars
  <2>6. CASE Forget(b)
    <3>1. backup'[b] = NoBackup
      BY <1>0, <2>6 DEF Forget, Does
    <3> QED BY <1>9, <2>1, <2>2, <2>6, <3>1 DEF Forget, Doing, fileVars
  <2>7. ASSUME NEW o \in Openers, NEW p \in Paths, Claim(b, o, p) PROVE LocksOK'
    <3>1. backup'[b].pc = "claimed"
      BY <1>0, <2>1, <2>7 DEF Claim, Does, BackupCall
    <3> QED BY <1>9, <2>2, <2>7, <3>1 DEF Claim, Doing
  <2> QED BY <1>13, <2>3, <2>4, <2>5, <2>6, <2>7
<1>14. ASSUME NEW o \in Openers, LogStep(o), UNCHANGED backup PROVE LocksOK'
  <2>1. CASE PragmasTimeOut(o) \/ BeginTimesOut(o)
    BY <1>10, <1>14, <2>1 DEF PragmasTimeOut, BeginTimesOut, At
  <2>2. CASE AppendEvent(o) \/ Removes(o) \/ \E t \in UserTables : CreateTable(o, t)
    BY <1>7, <1>14, <2>2 DEF AppendEvent, Removes, Retain, DropTable, CreateTable
  <2> QED BY <1>1, <1>11, <1>12, <1>14, <2>1, <2>2 DEF LogStep, OpenStep
<1>15. ASSUME NEW o \in Openers, Fails(o), UNCHANGED backup PROVE LocksOK'
  BY <1>10, <1>15 DEF Fails
<1>16. CASE UNCHANGED vars
  BY <1>7, <1>16 DEF vars
<1> QED BY <1>3, <1>5, <1>6, <1>11, <1>13, <1>14, <1>15, <1>16 DEF Next

-----------------------------------------------------------------------------
(* The backups.                                                            *)

BackupsOK == backup \in [Backups -> BackupCall] /\ \A b \in Backups : BackupOK(b)

\* What opens do to the paths that backups claimed, which is nothing, and to the
\* logs that backups are made of, which stay open.
OpenersKeepAway ==
  /\ \A o \in Openers : ~At(o, "closed")' => ~Claimed(opener'[o].path)
  /\ \A b \in Backups : Going(b) /\ Going(b)' =>
       LET o == backup[b].by IN opener'[o].pc = "open" /\ opener'[o].path = opener[o].path

\* Opens keep away from the destinations of backups.
LEMMA OpenersAway == ASSUME IInv, [Next]_vars PROVE OpenersKeepAway
<1>0. /\ opener \in [Openers -> OpenCall] /\ backup \in [Backups -> BackupCall]
      /\ \A b \in Backups : backup[b].by \in Openers
      /\ \A o \in Openers : opener[o] \in OpenCall
      /\ \A o \in Openers : ~At(o, "closed") => ~Claimed(opener[o].path)
      /\ \A b \in Backups : Going(b) => At(backup[b].by, "open")
  <2>1. \A o \in Openers : ~At(o, "closed") => ~Claimed(opener[o].path)
    BY InUseIsNotClaimed DEF Its
  <2> QED BY <2>1 DEF IInv, BackupOK, BackupCall
<1>1. CASE UNCHANGED opener
  BY <1>0, <1>1 DEF OpenersKeepAway, At
<1>2. ASSUME NEW o \in Openers, ~At(o, "open") \/ Of(o) = {} \/ \A b \in Of(o) : ~Going(b)',
             opener'[o].pc = "closed" \/ opener'[o].path = opener[o].path,
             opener'[o].pc = "closed" \/ ~At(o, "closed"),
             \A q \in Openers \ {o} : opener'[q] = opener[q]
      PROVE OpenersKeepAway
  <2>1. \A q \in Openers : ~At(q, "closed")' => ~Claimed(opener'[q].path)
    BY <1>0, <1>2 DEF At
  <2>2. ASSUME NEW b \in Backups, Going(b), Going(b)'
        PROVE  backup[b].by # o
    BY <1>0, <1>2, <2>2 DEF Of
  <2> QED BY <1>0, <1>2, <2>1, <2>2 DEF OpenersKeepAway, At
<1>3. ASSUME NEW o \in Openers, NEW p \in Paths, Open(o, p), ~Claimed(p)
      PROVE OpenersKeepAway
  <2>1. opener'[o].path = p /\ \A q \in Openers \ {o} : opener'[q] = opener[q]
    <3>1. Closed \in OpenCall /\ opener' =
            [opener EXCEPT ![o] = [Closed EXCEPT !.pc = "pragmas", !.path = p,
                                          !.first = file[p].counter]]
      BY <1>3, ClosedFields DEF Open, Goes
    <3> QED BY <1>0, <3>1 DEF OpenCall
  <2>2. At(o, "closed")
    BY <1>3 DEF Open
  <2>3. \A q \in Openers : ~At(q, "closed")' => ~Claimed(opener'[q].path)
    BY <1>0, <1>3, <2>1 DEF At
  <2>4. ASSUME NEW b \in Backups, Going(b) PROVE backup[b].by # o
    BY <1>0, <2>2, <2>4 DEF At
  <2> QED BY <1>0, <2>1, <2>3, <2>4 DEF OpenersKeepAway, At
<1>4. ASSUME NEW o \in Openers, NEW ans \in {"newer", "foreign", "exists", "failed"},
             Ends(o, ans)
      PROVE opener'[o].pc = "closed" /\ \A q \in Openers \ {o} : opener'[q] = opener[q]
  <2>1. [Closed EXCEPT !.ans = ans].pc = "closed"
    BY EndedFields
  <2> QED BY <1>0, <1>4, <2>1 DEF Ends, Goes
<1>5. ASSUME NEW o \in Openers, NEW ans \in {"newer", "foreign", "exists", "failed"},
             Ends(o, ans), ~At(o, "open") PROVE OpenersKeepAway
  BY <1>2, <1>4, <1>5
<1>6. ASSUME NEW o \in Openers, OpenStep(o) PROVE OpenersKeepAway
  <2>1. CASE PragmasTimeOut(o) \/ BeginTimesOut(o)
    BY <1>5, <2>1 DEF PragmasTimeOut, BeginTimesOut, At
  <2>2. CASE ApplyPragmas(o)
    <3>1. opener'[o].path = opener[o].path /\ \A q \in Openers \ {o} : opener'[q] = opener[q]
      BY <1>0, <2>2 DEF ApplyPragmas, Goes, OpenCall
    <3> QED BY <1>2, <2>2, <3>1 DEF ApplyPragmas, At
  <2>3. CASE OpenReaders(o)
    <3>1. opener'[o].path = opener[o].path /\ \A q \in Openers \ {o} : opener'[q] = opener[q]
      BY <1>0, <2>3 DEF OpenReaders, Goes, OpenCall
    <3> QED BY <1>2, <2>3, <3>1 DEF OpenReaders, At
  <2>4. CASE BeginStep(o)
    <3>1. opener'[o].path = opener[o].path /\ \A q \in Openers \ {o} : opener'[q] = opener[q]
      BY <1>0, <2>4 DEF BeginStep, Goes, OpenCall
    <3> QED BY <1>2, <2>4, <3>1 DEF BeginStep, At
  <2>5. CASE Seed(o)
    <3>1. opener'[o].path = opener[o].path /\ \A q \in Openers \ {o} : opener'[q] = opener[q]
      BY <1>0, <2>5, ClosedFields DEF Seed, Goes, OpenCall, Its
    <3> QED BY <1>2, <2>5, <3>1 DEF Seed, At
  <2>6. CASE Step(o) /\ NextStep(o)
    <3>1. opener'[o].path = opener[o].path /\ \A q \in Openers \ {o} : opener'[q] = opener[q]
      BY <1>0, <2>6 DEF NextStep, Goes, OpenCall
    <3> QED BY <1>2, <2>6, <3>1 DEF Step, At
  <2>7. CASE Step(o) /\ \E ans \in {"newer", "foreign", "exists"} : Ends(o, ans)
    BY <1>5, <2>7 DEF Step, At
  <2> QED BY <1>6, <2>1, <2>2, <2>3, <2>4, <2>5, <2>6, <2>7
          DEF OpenStep, Step, RefuseNewer, AlreadyApplied, RefuseForeign, Collide, Apply
<1>7. ASSUME NEW o \in Openers, Fails(o), ~At(o, "open") PROVE OpenersKeepAway
  BY <1>5, <1>7 DEF Fails
<1>8. ASSUME NEW o \in Openers, Close(o), Of(o) = {} PROVE OpenersKeepAway
  <2>1. opener'[o] = Closed /\ \A q \in Openers \ {o} : opener'[q] = opener[q]
    BY <1>0, <1>8 DEF Close, Goes
  <2> QED BY <1>2, <1>8, <2>1, ClosedFields
<1>9. ASSUME NEW o \in Openers, Dies(o) PROVE OpenersKeepAway
  <2>1. opener'[o].pc = "closed" /\ \A q \in Openers \ {o} : opener'[q] = opener[q]
    BY <1>4, <1>9 DEF Dies
  <2>2. \A b \in Of(o) : backup'[b].pc = "idle"
    BY <1>9 DEF Dies, Of, NoBackup
  <2>3. \A b \in Of(o) : ~Going(b)'
    BY <2>2 DEF Going, Doing
  <2> QED BY <1>2, <1>9, <2>1, <2>3
<1>10. \/ UNCHANGED opener
       \/ \E o \in Openers :
            \/ \E p \in Paths : Open(o, p) /\ ~Claimed(p)
            \/ OpenStep(o) \/ (Fails(o) /\ ~At(o, "open")) \/ (Close(o) /\ Of(o) = {})
            \/ Dies(o)
  BY DEF Next, vars, fileVars, LogStep, AppendEvent, Removes, Retain, DropTable, CreateTable,
         OutsideLocks, OutsideLets, StartCopy, FinishCopy, CopyFails, Abandon, Forget, Claim
<1> QED BY <1>1, <1>3, <1>6, <1>7, <1>8, <1>9, <1>10

\* A backup whose call is as it was, apart from who waits for it, while files
\* move on, opens keep away and the other backups move, finish or claim a path
\* where nothing was.
LEMMA BackupStays ==
  ASSUME IInv, FilesMove, OpenersKeepAway, NEW b \in Backups,
         backup'[b].pc = backup[b].pc, backup'[b].dest = backup[b].dest,
         backup'[b].by = backup[b].by, backup'[b].from = backup[b].from,
         backup'[b].snap = backup[b].snap,
         \A c \in Backups \ {b} : Going(c)' =>
           \/ Going(c) /\ backup'[c].dest = backup[c].dest
           \/ ~file[backup'[c].dest].there
  PROVE  BackupOK(b)'
<1> DEFINE me == backup[b]
           d == me.dest
           o == me.by
<1>0. /\ me \in BackupCall /\ d \in Paths /\ o \in Openers /\ me.from \in File
      /\ me.snap \in File /\ BackupOK(b) /\ opener[o].path \in Paths
      /\ \A p \in Paths : file[p] \in File /\ file'[p] \in File /\ Later(file'[p], file[p])
      /\ Empty.there
  BY EmptyFiles
     DEF IInv, BackupCall, OpenCall, FilesOK, FilesMove, FilesGrow, Follows
<1>1. (Going(b)' <=> Going(b)) /\ \A pc : Doing(b, pc)' <=> Doing(b, pc)
  BY DEF Going, Doing
<1>2. ASSUME Going(b)
      PROVE  /\ file'[d] = Empty
             /\ \A q \in Openers : ~At(q, "closed")' => opener'[q].path # d
             /\ \A c \in Backups \ {b} : Going(c)' => backup'[c].dest # d
             /\ opener'[o].pc = "open" /\ opener'[o].path = opener[o].path
             /\ Later(file'[opener[o].path], me.from)
  <2>1. file[d] = Empty /\ Claimed(d)
    BY <1>0, <1>2 DEF BackupOK, Claimed
  <2>2. file'[d] = Empty
    BY <1>1, <1>2, <2>1 DEF FilesMove
  <2>3. \A q \in Openers : ~At(q, "closed")' => opener'[q].path # d
    BY <2>1 DEF OpenersKeepAway
  <2>4. \A c \in Backups \ {b} : Going(c)' => backup'[c].dest # d
    BY <1>0, <1>2, <2>1 DEF BackupOK
  <2>5. opener'[o].pc = "open" /\ opener'[o].path = opener[o].path
    BY <1>1, <1>2 DEF OpenersKeepAway
  <2>6. Later(file[opener[o].path], me.from)
    BY <1>0, <1>2 DEF BackupOK, Its
  <2>7. Later(file'[opener[o].path], me.from)
    BY <1>0, <2>6, LaterIsTransitive
  <2> QED BY <2>2, <2>3, <2>4, <2>5, <2>7
<1>3. ASSUME Doing(b, "copying")
      PROVE  /\ Whole(me.snap) /\ me.snap.there /\ Later(me.snap, me.from)
             /\ me.from.tables \subseteq me.snap.tables
             /\ Later(file'[opener[o].path], me.snap)
  <2>1. Between(me)
    BY <1>0, <1>3 DEF BackupOK
  <2>2. Later(file[opener[o].path], me.snap)
    BY <2>1 DEF Between, Its
  <2>3. Later(file'[opener[o].path], me.snap)
    BY <1>0, <2>2, LaterIsTransitive
  <2> QED BY <2>1, <2>3 DEF Between
<1>4. /\ backup'[b].dest = d /\ backup'[b].by = o /\ backup'[b].from = me.from
      /\ backup'[b].snap = me.snap
  OBVIOUS
<1> HIDE DEF me, d, o
<1>5. Going(b)' => /\ (file[backup[b].dest] = Empty)'
                   /\ \A q \in Openers : ~At(q, "closed")' => Its(q)' # d
                   /\ \A c \in Backups \ {b} : Going(c)' => backup'[c].dest # d
                   /\ (At(backup[b].by, "open"))'
                   /\ (Later(file[Its(backup[b].by)], backup[b].from))'
  BY <1>1, <1>2, <1>4 DEF At, Its, Later, Ladder
<1>6. Doing(b, "copying")' => Between(backup[b])'
  <2> SUFFICES ASSUME Doing(b, "copying") PROVE Between(backup[b])'
    BY <1>1
  <2>1. opener'[o].path = opener[o].path
    BY <1>2 DEF Going
  <2> QED BY <1>3, <1>4, <2>1 DEF Between, Its, Later, Ladder, Whole
<1> QED BY <1>4, <1>5, <1>6 DEF BackupOK

\* What a backup that is not under way holds.
LEMMA NoBackupFields ==
  NoBackup \in BackupCall /\ NoBackup.pc = "idle"
BY OpeningAssumption, EmptyFiles DEF OpeningAssumption, NoBackup, BackupCall

\* One backup moves, to a call whose path is its own.
LEMMA OneBackupMoves ==
  ASSUME IInv, FilesMove, OpenersKeepAway, NEW b \in Backups, NEW new \in BackupCall,
         Does(b, new), BackupOK(b)',
         new.pc \in {"claimed", "copying"} =>
           \/ Going(b) /\ new.dest = backup[b].dest
           \/ ~file[new.dest].there
  PROVE  BackupsOK'
<1>1. backup' \in [Backups -> BackupCall]
      /\ \A c \in Backups : backup'[c] = IF c = b THEN new ELSE backup[c]
  BY DEF Does, IInv
<1>2. ASSUME NEW c \in Backups \ {b} PROVE BackupOK(c)'
  <2>1. \A e \in Backups \ {c} : Going(e)' =>
           \/ Going(e) /\ backup'[e].dest = backup[e].dest
           \/ ~file[backup'[e].dest].there
    BY <1>1 DEF Going, Doing
  <2>2. backup'[c] = backup[c]
    BY <1>1, <1>2
  <2> QED BY <1>2, <2>1, <2>2, BackupStays
<1> QED BY <1>1, <1>2 DEF BackupsOK

\* A call that is over, answered or not.
LEMMA BackupEnds ==
  ASSUME IInv, FilesMove, OpenersKeepAway, NEW b \in Backups,
         NEW new \in BackupCall, new.pc \in {"idle", "ok"}, Does(b, new)
  PROVE  BackupsOK'
<1>1. backup'[b] = new
  BY DEF Does, IInv
<1>2. BackupOK(b)'
  BY <1>1 DEF BackupOK, Going, Doing
<1> QED BY <1>2, OneBackupMoves

\* Every step keeps the backups sound.
LEMMA BackupsStep == ASSUME IInv, [Next]_vars, FilesMove, OpenersKeepAway PROVE BackupsOK'
<1>0. /\ opener \in [Openers -> OpenCall] /\ backup \in [Backups -> BackupCall]
      /\ \A b \in Backups : /\ backup[b] \in BackupCall /\ backup[b].dest \in Paths
                            /\ backup[b].by \in Openers /\ BackupOK(b)
      /\ \A o \in Openers : opener[o] \in OpenCall /\ Its(o) \in Paths
      /\ \A p \in Paths : /\ file[p] \in File /\ file'[p] \in File
                          /\ Whole(file[p]) /\ Later(file'[p], file[p])
      /\ Empty \in File /\ Empty.there
  BY EmptyFiles
     DEF IInv, OpenCall, BackupCall, Its, FilesOK, FilesAreWhole, FilesMove, FilesGrow, Follows
<1>1. CASE UNCHANGED backup
  <2>1. \A b \in Backups : Going(b)' => Going(b)
    BY <1>1 DEF Going, Doing
  <2>2. \A b \in Backups : BackupOK(b)'
    BY <1>1, <2>1, BackupStays
  <2> QED BY <1>0, <1>1, <2>2 DEF BackupsOK
<1>2. ASSUME NEW b \in Backups, NEW o \in Openers, NEW p \in Paths, Claim(b, o, p)
      PROVE BackupsOK'
  <2>1. PICK new \in BackupCall :
          /\ new.pc = "claimed" /\ new.by = o /\ new.dest = p /\ new.from = file[Its(o)]
          /\ Does(b, new)
    <3>1. file[Its(o)] \in File
      BY <1>0
    <3>2. [NoBackup EXCEPT !.pc = "claimed", !.by = o, !.dest = p, !.from = file[Its(o)]]
            \in BackupCall
      BY <3>1, NoBackupFields DEF BackupCall
    <3> QED BY <1>2, <3>2, NoBackupFields DEF Claim, BackupCall
  <2>2. /\ backup'[b] = new /\ ~file[p].there /\ file'[p] = Empty /\ UNCHANGED opener
        /\ At(o, "open") /\ \A c \in Backups \ {b} : backup'[c] = backup[c]
        /\ file' = [file EXCEPT ![p] = Empty]
    BY <1>0, <1>2, <2>1 DEF Claim, Does, IInv, FilesOK
  <2>3. \A q \in Openers : ~At(q, "closed") => Its(q) # p
    BY <2>2 DEF IInv, OpenerOK
  <2>4. \A c \in Backups \ {b} : Going(c)' => backup'[c].dest # p
    <3>1. \A c \in Backups : Going(c) => file[backup[c].dest].there
      BY <1>0 DEF BackupOK
    <3> QED BY <2>2, <3>1 DEF Going, Doing
  <2>5. Later(file'[Its(o)], file[Its(o)])
    BY <1>0
  <2>6. /\ Going(b)' /\ ~Doing(b, "copying")'
        /\ backup'[b].dest = p /\ backup'[b].by = o /\ backup'[b].from = file[Its(o)]
    BY <2>1, <2>2 DEF Going, Doing
  <2>7. (Later(file[Its(backup[b].by)], backup[b].from))' /\ (At(backup[b].by, "open"))'
        /\ \A q \in Openers : ~At(q, "closed")' => Its(q)' # p
    BY <2>2, <2>3, <2>5, <2>6 DEF Later, Ladder, Its, At
  <2>8. BackupOK(b)'
    BY <2>2, <2>4, <2>6, <2>7 DEF BackupOK
  <2> QED BY <2>1, <2>2, <2>8, OneBackupMoves
<1>3. ASSUME NEW b \in Backups, StartCopy(b) PROVE BackupsOK'
  <2> DEFINE o == backup[b].by
             d == backup[b].dest
             f == file[Its(o)]
  <2>1. PICK new \in BackupCall :
          /\ new.pc = "copying" /\ new.by = o /\ new.dest = d /\ new.snap = f
          /\ new.from.tables \subseteq f.tables /\ Does(b, new)
          /\ new.from.version = backup[b].from.version
          /\ new.from.events = backup[b].from.events
          /\ new.from.counter = backup[b].from.counter
    BY <1>3, CopyStarts
  <2>2. /\ backup'[b] = new /\ UNCHANGED <<file, opener>> /\ Going(b)
        /\ \A c \in Backups \ {b} : backup'[c] = backup[c]
    BY <1>0, <1>3, <2>1 DEF StartCopy, Does, Going
  <2>3. /\ file[d] = Empty /\ At(o, "open") /\ Later(f, backup[b].from)
        /\ \A q \in Openers : ~At(q, "closed") => Its(q) # d
        /\ \A c \in Backups \ {b} : Going(c) => backup[c].dest # d
    BY <1>0, <2>2 DEF BackupOK
  <2>4. Whole(f) /\ f.there /\ f \in File
    BY <1>0, <2>3 DEF IInv, OpenerOK, At
  <2>5. Later(f, new.from) /\ Later(f, f)
    <3>1. Later(f, f)
      <4> HIDE DEF f
      <4> QED BY <2>4, LaterIsReflexive
    <3> HIDE DEF f
    <3>2. Later(f, new.from)
      BY <2>1, <2>3 DEF Later, Ladder
    <3> QED BY <3>1, <3>2
  <2>6. Between(new)
    BY <2>1, <2>4, <2>5 DEF Between
  <2>7. /\ Going(b)' /\ backup'[b].dest = d /\ backup'[b].by = o
    BY <2>1, <2>2 DEF Going, Doing
  <2>8. Between(backup[b])'
    BY <2>2, <2>6 DEF Between, Its, Later, Ladder, Whole
  <2>9. /\ (Later(file[Its(backup[b].by)], backup[b].from))' /\ (At(backup[b].by, "open"))'
        /\ \A q \in Openers : ~At(q, "closed")' => Its(q)' # d
    BY <2>2, <2>3, <2>5, <2>7 DEF Later, Ladder, Its, At
  <2> HIDE DEF o, d, f
  <2>10. \A c \in Backups \ {b} : Going(c)' => backup'[c].dest # d
    BY <2>2, <2>3 DEF Going, Doing
  <2>11. (file[backup[b].dest] = Empty)'
    BY <2>2, <2>3, <2>7
  <2>12. BackupOK(b)'
    BY <2>7, <2>8, <2>9, <2>10, <2>11 DEF BackupOK
  <2> QED BY <2>1, <2>2, <2>12, OneBackupMoves DEF d
<1>4. ASSUME NEW b \in Backups, FinishCopy(b) PROVE BackupsOK'
  <2>1. [NoBackup EXCEPT !.pc = "ok"] \in BackupCall /\ [NoBackup EXCEPT !.pc = "ok"].pc = "ok"
    BY NoBackupFields DEF BackupCall
  <2> HIDE DEF NoBackup
  <2>2. CASE backup[b].caller
    BY <1>4, <2>1, <2>2, BackupEnds DEF FinishCopy
  <2>3. CASE ~backup[b].caller
    BY <1>4, <2>3, NoBackupFields, BackupEnds DEF FinishCopy
  <2> QED BY <2>2, <2>3
<1>5. ASSUME NEW b \in Backups, CopyFails(b) \/ Forget(b) PROVE BackupsOK'
  BY <1>5, NoBackupFields, BackupEnds DEF CopyFails, Forget
<1>6. ASSUME NEW b \in Backups, Abandon(b) PROVE BackupsOK'
  <2>1. PICK new \in BackupCall :
          /\ new.pc = backup[b].pc /\ new.by = backup[b].by /\ new.dest = backup[b].dest
          /\ new.from = backup[b].from /\ new.snap = backup[b].snap /\ Does(b, new)
    BY <1>0, <1>6 DEF Abandon, BackupCall
  <2>2. /\ backup'[b] = new /\ Going(b) /\ \A c \in Backups \ {b} : backup'[c] = backup[c]
    BY <1>0, <1>6, <2>1 DEF Abandon, Does
  <2>3. \A c \in Backups \ {b} : Going(c)' => Going(c)
    BY <2>2 DEF Going, Doing
  <2>4. BackupOK(b)'
    BY <2>1, <2>2, <2>3, BackupStays
  <2> QED BY <2>1, <2>2, <2>4, OneBackupMoves
<1>7. ASSUME NEW o \in Openers, Dies(o) PROVE BackupsOK'
  <2>1. \A b \in Backups : backup'[b] = IF b \in Of(o) THEN NoBackup ELSE backup[b]
    BY <1>7 DEF Dies
  <2>2. backup' \in [Backups -> BackupCall]
    BY <1>0, <1>7, NoBackupFields DEF Dies
  <2>3. \A b \in Backups : Going(b)' => b \notin Of(o) /\ Going(b) /\ backup'[b] = backup[b]
    BY <2>1, NoBackupFields DEF Going, Doing
  <2>4. ASSUME NEW b \in Backups PROVE BackupOK(b)'
    <3>1. CASE b \in Of(o)
      <4>1. backup'[b].pc = "idle"
        BY <2>1, <3>1, NoBackupFields
      <4> QED BY <4>1 DEF BackupOK, Going, Doing
    <3>2. CASE b \notin Of(o)
      <4>1. backup'[b] = backup[b]
        BY <2>1, <3>2
      <4> QED BY <2>3, <4>1, BackupStays
    <3> QED BY <3>1, <3>2
  <2> QED BY <2>2, <2>4 DEF BackupsOK
<1>8. \/ UNCHANGED backup
      \/ \E o \in Openers : Dies(o)
      \/ \E b \in Backups :
           \/ StartCopy(b) \/ FinishCopy(b) \/ CopyFails(b) \/ Abandon(b) \/ Forget(b)
           \/ \E o \in Openers, p \in Paths : Claim(b, o, p)
  BY DEF Next, vars
<1> QED BY <1>1, <1>2, <1>3, <1>4, <1>5, <1>6, <1>7, <1>8

-----------------------------------------------------------------------------
(* The theorems.                                                           *)

\* The invariant holds at the beginning.
LEMMA InitEstablishes == ASSUME Init PROVE IInv
<1>1. \A p \in Paths : file[p] \in OldFiles[p]
  BY DEF Init, FilesInit
<1>2. \A p \in Paths : file[p] \in File /\ Whole(file[p]) /\ (~file[p].there => file[p] = NoFile)
  <2> SUFFICES ASSUME NEW p \in Paths
               PROVE  file[p] \in File /\ Whole(file[p]) /\ (~file[p].there => file[p] = NoFile)
    OBVIOUS
  <2>1. file[p] \in OldFiles[p] /\ OldFiles[p] \in SUBSET File
    <3> HIDE DEF File
    <3> QED BY <1>1, OpeningAssumption DEF OpeningAssumption
  <2> QED BY <2>1, OldFilesAssumption DEF OldFilesAssumption
<1>3. FilesOK
  <2>1. DOMAIN file = Paths /\ file = [p \in Paths |-> file[p]]
    BY DEF Init, FilesInit
  <2> HIDE DEF File, NoFile
  <2> QED BY <1>2, <2>1 DEF FilesOK, FilesAreWhole, AbsentIsEmpty
<1>4. /\ opener \in [Openers -> OpenCall] /\ backup \in [Backups -> BackupCall]
      /\ \A o \in Openers : opener[o].pc = "closed" /\ opener[o].ans = "none"
      /\ \A b \in Backups : backup[b].pc = "idle"
  <2> HIDE DEF Closed, NoBackup
  <2> QED BY ClosedFields, NoBackupFields DEF Init, FilesInit
<1>5. LocksOK
  BY <1>4, LadderFacts DEF LocksOK, Init, FilesInit, At, Doing
<1>6. \A o \in Openers : OpenerOK(o)
  BY <1>4 DEF OpenerOK, At
<1>7. \A b \in Backups : BackupOK(b)
  BY <1>4 DEF BackupOK, Going, Doing
<1> QED BY <1>3, <1>4, <1>5, <1>6, <1>7 DEF IInv

\* Every step keeps the invariant, and puts only later files in the place of files.
LEMMA StepPreserves == ASSUME IInv, [Next]_vars PROVE IInv' /\ FilesMove
<1>1. FilesMove /\ OpenersOK' /\ LocksOK' /\ OpenersKeepAway
  BY FilesStep, OpenersStep, LocksStep, OpenersAway
<1>2. BackupsOK'
  BY <1>1, BackupsStep
<1>3. FilesOK'
  BY <1>1 DEF FilesMove, FilesGrow, FilesOK, FilesAreWhole, AbsentIsEmpty
<1> QED BY <1>1, <1>2, <1>3 DEF IInv, OpenersOK, BackupsOK

\* The invariant holds in every reachable state.
LEMMA Invariant == Spec => []IInv
<1>1. Init => IInv
  BY InitEstablishes
<1>2. IInv /\ [Next]_vars => IInv'
  BY StepPreserves
<1> QED BY <1>1, <1>2, PTL DEF Spec

\* The state has its shape, whatever builds, files and backups there are; a
\* process holds a lock just while it is in a step, and a copy its destination.
THEOREM TypeCorrect == Spec => []TypeOK
<1>1. IInv => TypeOK
  BY DEF IInv, FilesOK, LocksOK, TypeOK, FilesTypeOK
<1> QED BY <1>1, Invariant, PTL

\* The version of every file says what is in it, at every moment.
THEOREM FilesStayWhole == Spec => []FilesAreWhole
<1>1. IInv => FilesAreWhole
  BY DEF IInv, FilesOK
<1> QED BY <1>1, Invariant, PTL

\* A log that is open has the tables of its build, and its channel starts at no
\* position still to be given out and below no event that was there at the call.
THEOREM OpenLogsAreReady == Spec => []OpenIsReady
<1>1. ASSUME IInv, NEW o \in Openers, At(o, "open")
      PROVE  Reserved(o) \subseteq file[Its(o)].tables
  <2>1. /\ Its(o) \in Paths /\ file[Its(o)].version >= TargetOf[o]
        /\ Whole(file[Its(o)]) /\ file[Its(o)].version \in Nat /\ TargetOf[o] \in Nat
    BY <1>1, LadderFacts
       DEF IInv, OpenerOK, OpenCall, Its, FilesOK, FilesAreWhole, File, Versions
  <2>2. \A i \in 1..TargetOf[o] : Creates[i] \subseteq file[Its(o)].tables
    BY <2>1 DEF Whole
  <2> QED BY <2>2 DEF Reserved
<1>2. IInv => OpenIsReady
  BY <1>1 DEF IInv, OpenerOK, OpenIsReady
<1> QED BY <1>2, Invariant, PTL

\* Nobody but the copy itself ends it with success.
LEMMA CopyEnds ==
  ASSUME IInv, [Next]_vars, NEW b \in Backups, Doing(b, "copying"), backup'[b].pc = "ok"
  PROVE  FinishCopy(b)
<1>0. /\ backup \in [Backups -> BackupCall] /\ backup[b] \in BackupCall
      /\ backup'[b] # backup[b] /\ backup' # backup
  BY DEF IInv, Doing
<1>1. \A o \in Openers : ~Dies(o)
  BY <1>0, NoBackupFields DEF Dies
<1>2. \A c \in Backups \ {b} : \A new : ~Does(c, new)
  BY <1>0 DEF Does
<1>3. PICK c \in Backups :
        \/ StartCopy(c) \/ FinishCopy(c) \/ CopyFails(c) \/ Abandon(c) \/ Forget(c)
        \/ \E o \in Openers, p \in Paths : Claim(c, o, p)
  BY <1>0, <1>1 DEF Next, vars
<1>4. c = b
  BY <1>2, <1>3 DEF StartCopy, FinishCopy, CopyFails, Abandon, Forget, Claim
<1>5. ~StartCopy(b) /\ ~Forget(b) /\ \A o, p : ~Claim(b, o, p)
  BY DEF StartCopy, Forget, Claim, Doing
<1>6. ~CopyFails(b)
  BY <1>0, NoBackupFields DEF CopyFails, Does
<1>7. ~Abandon(b)
  BY <1>0 DEF Abandon, Does, Doing, BackupCall
<1> QED BY <1>3, <1>4, <1>5, <1>6, <1>7

\* A backup that returns has made one state of the source, as it was between the
\* call and the return.
THEOREM BackupsAreWhole == Spec => BackupIsWhole
<1>1. ASSUME IInv, [Next]_vars, NEW b \in Backups, Doing(b, "copying"), backup'[b].pc = "ok"
      PROVE  LET me == backup[b]
                 copy == file'[me.dest]
             IN  /\ Later(copy, me.from) /\ me.from.tables \subseteq copy.tables
                 /\ Later(file'[Its(me.by)], copy)
  <2> DEFINE me == backup[b]
  <2>1. /\ me \in BackupCall /\ me.dest \in Paths /\ me.by \in Openers
        /\ BackupOK(b) /\ Going(b) /\ Between(me)
    BY <1>1 DEF IInv, BackupCall, BackupOK, Going
  <2>2. file' = [file EXCEPT ![me.dest] = me.snap] /\ DOMAIN file = Paths
    BY <1>1, CopyEnds DEF FinishCopy, IInv, FilesOK
  <2>3. Its(me.by) # me.dest
    BY <2>1 DEF BackupOK, At
  <2>4. file'[me.dest] = me.snap /\ file'[Its(me.by)] = file[Its(me.by)]
    BY <2>1, <2>2, <2>3
  <2> QED BY <2>1, <2>4 DEF Between
<1>2. IInv /\ [Next]_vars =>
        [\A b \in Backups : Doing(b, "copying") /\ backup'[b].pc = "ok" =>
           LET me == backup[b]
               copy == file'[me.dest]
           IN  /\ Later(copy, me.from) /\ me.from.tables \subseteq copy.tables
               /\ Later(file'[Its(me.by)], copy)]_vars
  BY <1>1
<1> QED BY <1>2, Invariant, PTL DEF Spec, BackupIsWhole

\* No step takes anything out of a file but a statement of a log that is open there,
\* and none forgets a position that was given out.
THEOREM NothingIsLost == Spec => NothingLost
<1>1. IInv /\ [Next]_vars =>
        [\A p \in Paths :
           /\ Later(file'[p], file[p])
           /\ Holds(file'[p], file[p]) \/ \E o \in Openers : Its(o) = p /\ Removes(o)]_vars
  BY StepPreserves DEF FilesMove, FilesGrow, Follows, Shrinks
<1> QED BY <1>1, Invariant, PTL DEF Spec, NothingLost

\* An open that is in a step of the ladder gets out of it by that step, or fails.
LEMMA StepMoves ==
  ASSUME IInv, [Next]_vars, NEW o \in Openers, At(o, "step"), opener'[o] # opener[o]
  PROVE  Step(o) \/ Ends(o, "failed")
<1>0. opener \in [Openers -> OpenCall] /\ opener' # opener
  BY DEF IInv
<1>1. \A q \in Openers \ {o} : \A new : ~Goes(q, new)
  BY <1>0 DEF Goes
<1>2. ~UNCHANGED vars
  BY <1>0 DEF vars, fileVars
<1>3. \A b : ~(StartCopy(b) \/ FinishCopy(b) \/ CopyFails(b) \/ Abandon(b) \/ Forget(b))
  BY <1>0 DEF StartCopy, FinishCopy, CopyFails, Abandon, Forget, fileVars
<1>4. \A b, q, p : ~Claim(b, q, p)
  BY <1>0 DEF Claim
<1>5. \A p : ~(OutsideLocks(p) \/ OutsideLets(p))
  BY <1>0 DEF OutsideLocks, OutsideLets
<1>6. PICK q \in Openers : \/ LogStep(q) \/ Fails(q) \/ Close(q) \/ Dies(q)
                          \/ \E p \in Paths : Open(q, p)
  BY <1>2, <1>3, <1>4, <1>5 DEF Next
<1>7. \A r : ~AppendEvent(r) /\ ~Removes(r) /\ \A t : ~CreateTable(r, t)
  BY <1>0 DEF AppendEvent, Removes, Retain, DropTable, CreateTable
<1>8. \E new : Goes(q, new)
  <2>1. CASE LogStep(q)
    <3>1. OpenStep(q)
      BY <1>7, <2>1 DEF LogStep
    <3>2. CASE Step(q)
      BY <3>2 DEF Step, RefuseNewer, AlreadyApplied, RefuseForeign, Collide, Apply, NextStep, Ends
    <3> QED BY <3>1, <3>2 DEF OpenStep, ApplyPragmas, PragmasTimeOut, OpenReaders, BeginStep,
                              BeginTimesOut, Seed, Ends
  <2> QED BY <1>6, <2>1 DEF Fails, Close, Dies, Open, Ends
<1>9. q = o
  BY <1>1, <1>8
<1>10. ~Close(o) /\ \A p : ~Open(o, p)
  BY DEF Close, Open, At
<1>11. CASE LogStep(o)
  <2>1. OpenStep(o)
    BY <1>7, <1>11 DEF LogStep
  <2> QED BY <2>1 DEF OpenStep, ApplyPragmas, PragmasTimeOut, OpenReaders, BeginStep,
                      BeginTimesOut, Seed, At
<1> QED BY <1>6, <1>9, <1>10, <1>11 DEF Fails, Dies

\* A table that the next step of the ladder creates and that is there already is
\* none that the ladder created.
LEMMA TakenIsForeign ==
  ASSUME IInv, NEW o \in Openers, At(o, "step"),
         file[Its(o)].version = opener[o].step, Taken(o)
  PROVE  Foreign(file[Its(o)]) \cap Reserved(o) # {}
<1> DEFINE f == file[Its(o)]
           n == opener[o].step + 1
<1>1. /\ opener[o].step \in Nat /\ opener[o].step < TargetOf[o] /\ TargetOf[o] \in Nat
      /\ TargetOf[o] <= Len(Creates) /\ Len(Creates) \in Nat
  BY LadderFacts DEF IInv, OpenerOK, OpenCall, Versions
<1>2. PICK t \in f.tables : t \in Creates[n]
  BY DEF Taken
<1>3. t \notin Ladder(f)
  <2>1. n \in 1..Len(Creates) /\ \A i \in 1..f.version : i \in 1..Len(Creates) /\ i # n
    BY <1>1
  <2> QED BY <1>2, <2>1, LadderFacts DEF Ladder
<1>4. t \in Reserved(o)
  BY <1>1, <1>2 DEF Reserved
<1> QED BY <1>2, <1>3, <1>4 DEF Foreign

\* An open that gets out of a step refused is refused for what the file is.
LEMMA RefusedFor ==
  ASSUME IInv, [Next]_vars, NEW o \in Openers, At(o, "step")
  PROVE  /\ opener'[o].ans \in {"foreign", "exists"} =>
              Foreign(file[Its(o)]) \cap Reserved(o) # {}
         /\ opener'[o].ans = "newer" => file[Its(o)].version > TargetOf[o]
<1>0. /\ opener \in [Openers -> OpenCall] /\ opener[o] \in OpenCall
      /\ opener[o].ans = "none"
  BY DEF IInv, OpenerOK, At
<1>1. CASE opener'[o] = opener[o]
  BY <1>0, <1>1
<1>2. ASSUME NEW ans \in {"newer", "foreign", "exists", "failed"}, Ends(o, ans)
      PROVE  opener'[o].ans = ans
  <2>1. [Closed EXCEPT !.ans = ans].ans = ans
    BY EndedFields
  <2> QED BY <1>0, <1>2, <2>1 DEF Ends, Goes
<1>3. CASE Ends(o, "failed")
  BY <1>2, <1>3
<1>4. CASE RefuseNewer(o)
  BY <1>2, <1>4 DEF RefuseNewer, IsNewer, Current
<1>5. CASE AlreadyApplied(o) \/ Apply(o)
  <2>1. opener'[o].ans = opener[o].ans
    BY <1>0, <1>5 DEF AlreadyApplied, Apply, NextStep, Goes, OpenCall
  <2> QED BY <1>0, <2>1
<1>6. CASE RefuseForeign(o)
  <2>1. file[Its(o)].version = 0 /\ Reserved(o) \cap file[Its(o)].tables # {}
    BY <1>6 DEF RefuseForeign, Applies, HoldsForeign, Current
  <2>2. Foreign(file[Its(o)]) = file[Its(o)].tables
    BY <2>1 DEF Foreign, Ladder
  <2> QED BY <1>2, <1>6, <2>1, <2>2 DEF RefuseForeign
<1>7. CASE Collide(o)
  <2>1. Foreign(file[Its(o)]) \cap Reserved(o) # {}
    BY <1>7, TakenIsForeign DEF Collide, Applies, Current
  <2> QED BY <1>2, <1>7, <2>1 DEF Collide
<1> QED BY <1>1, <1>3, <1>4, <1>5, <1>6, <1>7, StepMoves DEF Step

\* No open is refused for what other opens do at the same time.
THEOREM RefusalsHaveCause == Spec => RefusedForCause
<1>1. IInv /\ [Next]_vars =>
        [\A o \in Openers : At(o, "step") =>
           LET f == file[Its(o)] IN
           /\ opener'[o].ans \in {"foreign", "exists"} => Foreign(f) \cap Reserved(o) # {}
           /\ opener'[o].ans = "newer" => f.version > TargetOf[o]]_fileVars
  BY RefusedFor
<1> QED BY <1>1, Invariant, PTL DEF Spec, RefusedForCause

\* A ladder that is left with success leaves the file at its own version.
LEMMA LadderEnds ==
  ASSUME IInv, [Next]_vars, NEW o \in Openers, At(o, "step"), opener'[o].pc = "seed"
  PROVE  file'[Its(o)].version = TargetOf[o]
<1> DEFINE f == file[Its(o)]
           n == opener[o].step + 1
<1>0. /\ Its(o) \in Paths /\ f \in File /\ f.version \in Nat /\ opener[o].step \in Nat
      /\ opener[o].step < TargetOf[o] /\ opener[o].step <= f.version /\ TargetOf[o] \in Nat
      /\ opener \in [Openers -> OpenCall] /\ opener[o] \in OpenCall
  BY LadderFacts DEF IInv, FilesOK, OpenerOK, OpenCall, Its, File, Versions, At
<1>1. opener'[o] # opener[o]
  BY DEF At
<1>2. \A ans \in {"newer", "foreign", "exists", "failed"} : ~Ends(o, ans)
  <2> SUFFICES ASSUME NEW ans \in {"newer", "foreign", "exists", "failed"}, Ends(o, ans)
               PROVE  FALSE
    OBVIOUS
  <2>1. [Closed EXCEPT !.ans = ans].pc = "closed"
    BY EndedFields
  <2> QED BY <1>0, <2>1 DEF Ends, Goes
<1>3. Step(o)
  BY <1>1, <1>2, StepMoves
<1>4. AlreadyApplied(o) \/ Apply(o)
  BY <1>2, <1>3 DEF Step, RefuseNewer, RefuseForeign, Collide
<1>5. NextStep(o)
  BY <1>4 DEF AlreadyApplied, Apply
<1>6. ~(n < TargetOf[o])
  <2> SUFFICES ASSUME n < TargetOf[o] PROVE FALSE
    OBVIOUS
  <2>1. opener'[o].pc = "begin"
    BY <1>0, <1>5 DEF NextStep, Goes, OpenCall
  <2> QED BY <2>1
<1>7. n = TargetOf[o]
  BY <1>0, <1>6
<1>8. CASE AlreadyApplied(o)
  <2>1. f.version <= TargetOf[o] /\ f.version # opener[o].step /\ UNCHANGED file
    BY <1>0, <1>8 DEF AlreadyApplied, IsNewer, Current
  <2> QED BY <1>0, <1>7, <2>1
<1>9. CASE Apply(o)
  <2>1. file'[Its(o)].version = n
    BY <1>0, <1>9 DEF Apply, Migrate, IInv, FilesOK, File
  <2> QED BY <1>7, <2>1
<1> QED BY <1>4, <1>8, <1>9

\* However ladders of several builds interleave, an open gets past its own only
\* on a file of its build's version.
THEOREM NewerStaysRefused == Spec => NewerIsRefused
<1>1. IInv /\ [Next]_vars =>
        [\A o \in Openers : At(o, "step") /\ opener'[o].pc = "seed" =>
           file'[Its(o)].version = TargetOf[o]]_fileVars
  BY LadderEnds
<1> QED BY <1>1, Invariant, PTL DEF Spec, NewerIsRefused
=============================================================================
