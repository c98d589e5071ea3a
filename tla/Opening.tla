------------------------------ MODULE Opening ------------------------------
(***************************************************************************)
(* Opening a file.  An open is a writer connection with its pragmas, the   *)
(* readers beside it, the migration ladder and the seed of the wake-up     *)
(* channel.  Each step of the ladder is one transaction, so any number of  *)
(* processes, of older and newer builds, may climb one file at a time, and *)
(* each may die between two steps.  Logs that are open append and retain,  *)
(* and their callers create and drop tables of their own, meanwhile; other *)
(* connections that are not of this crate hold the file's write lock for   *)
(* as long as they like.                                                   *)
(***************************************************************************)
EXTENDS Naturals, Sequences, FiniteSets, Functions

CONSTANTS
  Paths,
  Openers,      \* processes, each with one log at a time
  TargetOf,     \* TARGET_USER_VERSION of the build a process runs
  Creates,      \* LADDER: the tables each step creates
  UserTables,   \* tables callers create through an open log
  OldFiles,     \* per path: what may be there to begin with
  MaxEvents     \* bound: positions given out in a file

Names == UserTables \cup UNION Range(Creates)
Versions == 0..Len(Creates)

File == [there : BOOLEAN, wal : BOOLEAN, version : Versions, ran : Seq(Versions),
         tables : SUBSET Names, events : SUBSET Nat, counter : Nat]

NoFile == [there |-> FALSE, wal |-> FALSE, version |-> 0, ran |-> <<>>, tables |-> {},
           events |-> {}, counter |-> 0]

\* A file of zero bytes.
Empty == [NoFile EXCEPT !.there = TRUE]

ASSUME OpeningAssumption ==
  /\ Creates \in Seq(SUBSET Names)
  /\ \A i, j \in 1..Len(Creates) : i # j => Creates[i] \cap Creates[j] = {}
  /\ TargetOf \in [Openers -> Versions \ {0}]
  /\ OldFiles \in [Paths -> SUBSET File]
  /\ MaxEvents \in Nat
  /\ Paths # {} /\ Openers # {} /\ Openers \cap {"free", "outside", "copy"} = {}

\* The version of a file says which steps of the ladder ran on it, in order and
\* once each, and their tables are there; the counter is past every event.
Whole(f) ==
  /\ f.ran = [i \in 1..f.version |-> i]
  /\ \A i \in 1..f.version : Creates[i] \subseteq f.tables
  /\ f.events \subseteq 1..f.counter

\* What is there to begin with was left by some build, or is not this crate's.
ASSUME OldFilesAssumption ==
  \A p \in Paths : \A f \in OldFiles[p] : Whole(f) /\ (~f.there => f = NoFile)

VARIABLES
  file,      \* per path: what is committed there; `ran` is the steps that ran on it
  lock,      \* per path: who holds the write lock
  opener     \* per process: its open, or its open log

fileVars == <<file, lock, opener>>

\* pc: "closed", "pragmas", "readers", "begin", "step", "seed", "open".
\* `before` is the version before the ladder, `first` the last position given out
\* when the call began, `ans` why the last open of the process failed.
Closed == [pc |-> "closed", path |-> CHOOSE p \in Paths : TRUE, step |-> 0, before |-> 0,
           first |-> 0, seed |-> 0, ans |-> "none"]

FilesInit ==
  /\ file \in {f \in [Paths -> UNION Range(OldFiles)] : \A p \in Paths : f[p] \in OldFiles[p]}
  /\ lock = [p \in Paths |-> "free"]
  /\ opener = [o \in Openers |-> Closed]

At(o, pc) == opener[o].pc = pc
Its(o) == opener[o].path
Goes(o, new) == opener' = [opener EXCEPT ![o] = new]
Ends(o, ans) == Goes(o, [Closed EXCEPT !.ans = ans])
Frees(p) == lock' = [lock EXCEPT ![p] = "free"]

\* RESERVED_TABLES of a build: the names its ladder creates.
Reserved(o) == UNION {Creates[i] : i \in 1..TargetOf[o]}

\* What the ladder has created on a file, and what it has not.
Ladder(f) == UNION {Creates[i] : i \in 1..f.version}
Foreign(f) == f.tables \ Ladder(f)

\* g is f at a later time, or a copy of that: the ladder does not go back, no
\* position is given out twice, and what is gone does not come back.
Later(g, f) ==
  /\ f.version <= g.version /\ Ladder(f) \subseteq g.tables
  /\ f.counter <= g.counter /\ g.events \cap 1..f.counter \subseteq f.events

\* g holds everything that f holds.
Holds(g, f) ==
  f.tables \subseteq g.tables /\ f.events \subseteq g.events /\ f.version <= g.version

\* SELECT COALESCE(MAX(position), 0) FROM events: over the rows there are.
HeadPosition(f) ==
  IF f.events = {} THEN 0 ELSE CHOOSE e \in f.events : \A n \in f.events : n <= e

-----------------------------------------------------------------------------
\* The writer connection creates a file where there is none.
Open(o, p) ==
  /\ At(o, "closed")
  /\ file' = [file EXCEPT ![p].there = TRUE]
  /\ Goes(o, [Closed EXCEPT !.pc = "pragmas", !.path = p, !.first = file[p].counter])
  /\ UNCHANGED lock

\* apply_pragmas: a file in WAL mode needs no write, another is switched under
\* the lock, by retrying the batch.
ApplyPragmas(o) ==
  /\ At(o, "pragmas")
  /\ file[Its(o)].wal \/ lock[Its(o)] = "free"
  /\ file' = [file EXCEPT ![Its(o)].wal = TRUE]
  /\ Goes(o, [opener[o] EXCEPT !.pc = "readers"])
  /\ UNCHANGED lock

\* Faulty: the batch is retried for as long as it takes.
NeverGivesUp(o) == FALSE /\ UNCHANGED fileVars

\* ... until busy_timeout has passed.
PragmasTimeOut(o) ==
  /\ At(o, "pragmas")
  /\ ~file[Its(o)].wal /\ lock[Its(o)] # "free"
  /\ Ends(o, "failed")
  /\ UNCHANGED <<file, lock>>

OpenReaders(o) ==
  /\ At(o, "readers")
  /\ Goes(o, [opener[o] EXCEPT !.pc = "begin", !.before = file[Its(o)].version])
  /\ UNCHANGED <<file, lock>>

\* BEGIN IMMEDIATE of one step of the ladder.
BeginStep(o) ==
  /\ At(o, "begin") /\ lock[Its(o)] = "free"
  /\ lock' = [lock EXCEPT ![Its(o)] = o]
  /\ Goes(o, [opener[o] EXCEPT !.pc = "step"])
  /\ UNCHANGED file

BeginTimesOut(o) ==
  /\ At(o, "begin") /\ lock[Its(o)] # "free"
  /\ Ends(o, "failed")
  /\ UNCHANGED <<file, lock>>

\* Faulty: the version is read once, before the first step's transaction.
VersionUpFront(o) == opener[o].before

\* user_version, read inside the step's transaction.
Current(o) == file[Its(o)].version

\* Faulty: the last step of the ladder is left out.
NextButOne(o) ==
  Goes(o, [opener[o] EXCEPT !.step = @ + 1,
                            !.pc = IF opener[o].step + 2 < TargetOf[o] THEN "begin" ELSE "seed"])

NextStep(o) ==
  Goes(o, [opener[o] EXCEPT !.step = @ + 1,
                            !.pc = IF opener[o].step + 1 < TargetOf[o] THEN "begin" ELSE "seed"])

\* Faulty: a newer file is one whose steps have all been applied.
NotRefused(o) == FALSE

\* A file of a newer build.
IsNewer(o) == Current(o) > TargetOf[o]

\* Faulty: the version has a transaction of its own, which may not come.
BumpLater(o) ==
  \E bumped \in BOOLEAN :
    file' = [file EXCEPT ![Its(o)].tables = @ \cup Creates[opener[o].step + 1],
                         ![Its(o)].ran = Append(@, opener[o].step + 1),
                         ![Its(o)].version = IF bumped THEN opener[o].step + 1 ELSE @]

\* The step's statements and the new version, in one transaction.
Migrate(o) ==
  file' = [file EXCEPT ![Its(o)].tables = @ \cup Creates[opener[o].step + 1],
                       ![Its(o)].ran = Append(@, opener[o].step + 1),
                       ![Its(o)].version = opener[o].step + 1]

\* What a step finds, and does.
Applies(o) == Current(o) = opener[o].step /\ ~IsNewer(o)

RefuseNewer(o) == IsNewer(o) /\ Ends(o, "newer") /\ UNCHANGED file

AlreadyApplied(o) ==
  ~IsNewer(o) /\ Current(o) # opener[o].step /\ NextStep(o) /\ UNCHANGED file

\* refuse_a_foreign_table, asked at version 0 and only there.
HoldsForeign(o) == opener[o].step = 0 /\ Reserved(o) \cap file[Its(o)].tables # {}

RefuseForeign(o) == Applies(o) /\ HoldsForeign(o) /\ Ends(o, "foreign") /\ UNCHANGED file

\* CREATE TABLE fails: "table ... already exists".
Taken(o) == Creates[opener[o].step + 1] \cap file[Its(o)].tables # {}

Collide(o) ==
  Applies(o) /\ ~HoldsForeign(o) /\ Taken(o) /\ Ends(o, "exists") /\ UNCHANGED file

Apply(o) == Applies(o) /\ ~HoldsForeign(o) /\ ~Taken(o) /\ Migrate(o) /\ NextStep(o)

\* Faulty: a step that has nothing to do keeps its transaction open.
StepKeepsLock(o) ==
  /\ At(o, "step")
  /\ \/ AlreadyApplied(o) /\ UNCHANGED lock
     \/ Apply(o) /\ Frees(Its(o))
     \/ (RefuseNewer(o) \/ RefuseForeign(o) \/ Collide(o)) /\ Frees(Its(o))

\* One step of the ladder, to the end of its transaction.
Step(o) ==
  /\ At(o, "step")
  /\ RefuseNewer(o) \/ AlreadyApplied(o) \/ RefuseForeign(o) \/ Collide(o) \/ Apply(o)
  /\ Frees(Its(o))

\* The head, and the handle is the caller's.
Seed(o) ==
  /\ At(o, "seed")
  /\ Goes(o, [Closed EXCEPT !.pc = "open", !.path = Its(o), !.first = opener[o].first,
                            !.seed = HeadPosition(file[Its(o)])])
  /\ UNCHANGED <<file, lock>>

-----------------------------------------------------------------------------
\* An open log is appended to: the event and its counter, in one transaction.
AppendEvent(o) ==
  /\ At(o, "open") /\ lock[Its(o)] = "free" /\ file[Its(o)].counter < MaxEvents
  /\ file' = [file EXCEPT ![Its(o)].events = @ \cup {file[Its(o)].counter + 1},
                          ![Its(o)].counter = @ + 1]
  /\ UNCHANGED <<lock, opener>>

\* retain: the events a plan matches go, and the counter stays.
Retain(o) ==
  /\ At(o, "open") /\ lock[Its(o)] = "free"
  /\ \E gone \in SUBSET file[Its(o)].events :
       gone # {} /\ file' = [file EXCEPT ![Its(o)].events = @ \ gone]
  /\ UNCHANGED <<lock, opener>>

\* A caller creates a table, of any name the build does not reserve.
CreateTable(o, t) ==
  /\ At(o, "open") /\ lock[Its(o)] = "free"
  /\ t \notin Reserved(o) \cup file[Its(o)].tables
  /\ file' = [file EXCEPT ![Its(o)].tables = @ \cup {t}]
  /\ UNCHANGED <<lock, opener>>

\* A caller drops a table that callers created.  Nobody drops the tables that a
\* newer build's ladder put there: an older build's authorizer reserves only its
\* own names, and would let its callers.
DropTable(o, t) ==
  /\ At(o, "open") /\ lock[Its(o)] = "free"
  /\ t \in Foreign(file[Its(o)]) \ Reserved(o)
  /\ file' = [file EXCEPT ![Its(o)].tables = @ \ {t}]
  /\ UNCHANGED <<lock, opener>>

Close(o) == At(o, "open") /\ Goes(o, Closed) /\ UNCHANGED <<file, lock>>

\* A statement fails, or the process dies: an open transaction rolls back.
Fails(o) ==
  /\ ~At(o, "closed")
  /\ Ends(o, "failed")
  /\ IF At(o, "step") THEN Frees(Its(o)) ELSE UNCHANGED lock
  /\ UNCHANGED file

\* A connection that is not this crate's takes the lock, and lets go of it.
OutsideLocks(p) ==
  /\ file[p].there /\ lock[p] = "free"
  /\ lock' = [lock EXCEPT ![p] = "outside"]
  /\ UNCHANGED <<file, opener>>

OutsideLets(p) == lock[p] = "outside" /\ Frees(p) /\ UNCHANGED <<file, opener>>

-----------------------------------------------------------------------------
\* What an open does next; each of its waits is bounded by busy_timeout.
OpenStep(o) ==
  \/ ApplyPragmas(o) \/ PragmasTimeOut(o) \/ OpenReaders(o)
  \/ BeginStep(o) \/ BeginTimesOut(o) \/ Step(o) \/ Seed(o)

\* What takes events or tables out of a file: an open log's own statements.
Removes(o) == Retain(o) \/ \E t \in UserTables : DropTable(o, t)

LogStep(o) ==
  \/ OpenStep(o) \/ AppendEvent(o) \/ Removes(o)
  \/ \E t \in UserTables : CreateTable(o, t)

-----------------------------------------------------------------------------
(* What must hold.                                                         *)

OpenCall ==
  [pc : {"closed", "pragmas", "readers", "begin", "step", "seed", "open"},
   path : Paths, step : Versions, before : Versions, first : Nat, seed : Nat,
   ans : {"none", "newer", "foreign", "exists", "failed"}]

\* The shape of the state: a process holds a lock exactly while it is in a step.
FilesTypeOK ==
  /\ file \in [Paths -> File]
  /\ lock \in [Paths -> Openers \cup {"free", "outside", "copy"}]
  /\ opener \in [Openers -> OpenCall]
  /\ \A o \in Openers, p \in Paths : lock[p] = o <=> At(o, "step") /\ Its(o) = p

\* The version says what is in the file, at every moment and on every file,
\* copies included: the steps of the ladder ran once each, in order, up to it,
\* no file holds part of one, and no event is there whose position the counter
\* would give out again.
FilesAreWhole == \A p \in Paths : Whole(file[p])

\* An open is refused for what is in the file and never for what another open
\* did to it at the same time: only a table the ladder did not create is in its
\* way, and only a file of a newer build is newer.
RefusedForCause ==
  [][\A o \in Openers : At(o, "step") =>
       LET f == file[Its(o)] IN
       /\ opener'[o].ans \in {"foreign", "exists"} => Foreign(f) \cap Reserved(o) # {}
       /\ opener'[o].ans = "newer" => f.version > TargetOf[o]]_fileVars

\* A log that is open has every table of its build.  Its channel starts at no
\* position that is still to be given out, so the next commit wakes whoever waits,
\* and below none that was there when the call was made and still is, whatever
\* retention took before, during and after.
OpenIsReady ==
  \A o \in Openers : At(o, "open") => LET f == file[Its(o)] IN
    /\ f.version >= TargetOf[o] /\ Reserved(o) \subseteq f.tables
    /\ opener[o].seed <= f.counter
    /\ \A e \in f.events : e <= opener[o].first => e <= opener[o].seed

\* However the ladders of two builds interleave, none is left with success but
\* on a file that is at the version of its build at that moment.
NewerIsRefused ==
  [][\A o \in Openers :
       At(o, "step") /\ opener'[o].pc = "seed" => file'[Its(o)].version = TargetOf[o]]_fileVars

\* Every open ends, also on a file that somebody holds for good.
OpensEnd == \A o \in Openers : ~At(o, "closed") ~> At(o, "open") \/ At(o, "closed")

=============================================================================
