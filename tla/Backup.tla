------------------------------- MODULE Backup ------------------------------
(***************************************************************************)
(* backup_to: the destination is claimed by creating it, the whole source  *)
(* is copied there on a reader, in one read transaction, and a copy that   *)
(* failed is removed again.  Backups race for a path; the caller may be    *)
(* dropped and the process may die; the source is written meanwhile, and   *)
(* events and tables leave it.                                             *)
(* Nobody opens a path while a backup to it is going on.                   *)
(***************************************************************************)
EXTENDS Opening

CONSTANT Backups      \* tasks that make backups

VARIABLE backup       \* per task: its call

vars == <<file, lock, opener, backup>>

\* pc: "idle", "claimed", "copying", "ok".  `from` is the source when the call
\* was made, its tables those that are there still when the read transaction
\* begins; `snap` is what that sees, `caller` whether anybody waits.
NoBackup == [pc |-> "idle", by |-> CHOOSE o \in Openers : TRUE,
             dest |-> CHOOSE p \in Paths : TRUE, from |-> NoFile, snap |-> NoFile,
             caller |-> TRUE]

Init == FilesInit /\ backup = [b \in Backups |-> NoBackup]

Doing(b, pc) == backup[b].pc = pc
Does(b, new) == backup' = [backup EXCEPT ![b] = new]
Going(b) == Doing(b, "claimed") \/ Doing(b, "copying")
Claimed(p) == \E b \in Backups : Going(b) /\ backup[b].dest = p

-----------------------------------------------------------------------------
\* Faulty: a file that is there is opened all the same.
ClaimAnything(b, o, p) ==
  /\ Doing(b, "idle") /\ At(o, "open") /\ p # Its(o)
  /\ file' = [file EXCEPT ![p].there = TRUE]
  /\ Does(b, [NoBackup EXCEPT !.pc = "claimed", !.by = o, !.dest = p, !.from = file[Its(o)]])
  /\ UNCHANGED <<lock, opener>>

\* claim: looking and creating are one call.  A path that is taken is refused,
\* and nothing changes.
Claim(b, o, p) ==
  /\ Doing(b, "idle") /\ At(o, "open")
  /\ ~file[p].there
  /\ file' = [file EXCEPT ![p] = Empty]
  /\ Does(b, [NoBackup EXCEPT !.pc = "claimed", !.by = o, !.dest = p, !.from = file[Its(o)]])
  /\ UNCHANGED <<lock, opener>>

\* copy_pages opens the destination, locks it and begins to read the source.
StartCopy(b) ==
  LET me == backup[b] IN
  /\ Doing(b, "claimed") /\ lock[me.dest] = "free"
  /\ lock' = [lock EXCEPT ![me.dest] = "copy"]
  /\ Does(b, [me EXCEPT !.pc = "copying", !.snap = file[Its(me.by)],
                        !.from.tables = @ \cap file[Its(me.by)].tables])
  /\ UNCHANGED <<file, opener>>

\* Faulty: what the copy answered is not looked at.
DoneAnyway(b) ==
  LET me == backup[b] IN
  /\ Doing(b, "copying")
  /\ \/ file' = [file EXCEPT ![me.dest] = me.snap]
     \/ UNCHANGED file
  /\ Frees(me.dest)
  /\ Does(b, IF me.caller THEN [NoBackup EXCEPT !.pc = "ok"] ELSE NoBackup)
  /\ UNCHANGED opener

\* StepResult::Done.
FinishCopy(b) ==
  LET me == backup[b] IN
  /\ Doing(b, "copying")
  /\ file' = [file EXCEPT ![me.dest] = me.snap]
  /\ Frees(me.dest)
  /\ Does(b, IF me.caller THEN [NoBackup EXCEPT !.pc = "ok"] ELSE NoBackup)
  /\ UNCHANGED opener

\* The copy fails or is not whole.  The caller removes what it created, if it is
\* still there to do so and the removal succeeds.
CopyFails(b) ==
  LET me == backup[b] IN
  /\ Going(b)
  /\ \/ me.caller /\ file' = [file EXCEPT ![me.dest] = NoFile]
     \/ UNCHANGED file
  /\ IF Doing(b, "copying") THEN Frees(me.dest) ELSE UNCHANGED lock
  /\ Does(b, NoBackup)
  /\ UNCHANGED opener

\* The future is dropped: the job goes on, on its reader.
Abandon(b) ==
  /\ Going(b) /\ backup[b].caller
  /\ Does(b, [backup[b] EXCEPT !.caller = FALSE])
  /\ UNCHANGED fileVars

\* The caller has its answer, and may ask for another backup.
Forget(b) == Doing(b, "ok") /\ Does(b, NoBackup) /\ UNCHANGED fileVars

Of(o) == {b \in Backups : Going(b) /\ backup[b].by = o}

\* A process dies, with its backups: what they claimed stays, without pages.
Dies(o) ==
  /\ ~At(o, "closed")
  /\ Ends(o, "failed")
  /\ lock' = [p \in Paths |-> IF lock[p] = o \/ (\E b \in Of(o) : backup[b].dest = p)
                              THEN "free" ELSE lock[p]]
  /\ backup' = [b \in Backups |-> IF b \in Of(o) THEN NoBackup ELSE backup[b]]
  /\ UNCHANGED file

-----------------------------------------------------------------------------
Next ==
  \/ \E o \in Openers :
       \/ LogStep(o) /\ UNCHANGED backup
       \/ Fails(o) /\ ~At(o, "open") /\ UNCHANGED backup
       \/ Close(o) /\ Of(o) = {} /\ UNCHANGED backup
       \/ Dies(o)
       \/ \E p \in Paths : Open(o, p) /\ ~Claimed(p) /\ UNCHANGED backup
  \/ \E b \in Backups :
       \/ StartCopy(b) \/ FinishCopy(b) \/ CopyFails(b) \/ Abandon(b) \/ Forget(b)
       \/ \E o \in Openers, p \in Paths : Claim(b, o, p)
  \/ \E p \in Paths : (OutsideLocks(p) \/ OutsideLets(p)) /\ ~Claimed(p) /\ UNCHANGED backup

Spec == Init /\ [][Next]_vars

\* An open that is polled goes on, or its timeout passes.
FairSpec == Spec /\ \A o \in Openers : WF_fileVars(OpenStep(o))

-----------------------------------------------------------------------------
(* What must hold.                                                         *)

BackupCall == [pc : {"idle", "claimed", "copying", "ok"}, by : Openers, dest : Paths,
               from : File, snap : File, caller : BOOLEAN]

\* The shape of the state: a copy that is going on holds its destination.
TypeOK ==
  /\ FilesTypeOK
  /\ backup \in [Backups -> BackupCall]
  /\ \A p \in Paths :
       lock[p] = "copy" <=> \E b \in Backups : Doing(b, "copying") /\ backup[b].dest = p

\* A backup that returns has made one state of the source, as it was at some
\* moment between the call and the return: no event the source held at the call
\* and holds at the return is missing, none is there that retention had taken
\* before the call, no table that was there throughout is missing, and the copy
\* goes on from a counter past all of it.
BackupIsWhole ==
  [][\A b \in Backups : Doing(b, "copying") /\ backup'[b].pc = "ok" =>
       LET me == backup[b]
           copy == file'[me.dest]
       IN  /\ Later(copy, me.from) /\ me.from.tables \subseteq copy.tables
           /\ Later(file'[Its(me.by)], copy)]_vars

\* Nothing that is in a file is ever lost: no open, no copy over it, no removal
\* after a failed copy and no dead process takes an event, a table or a step of
\* the ladder away from any path.  Only a log that is open there does, by a
\* statement of its own, and no position that was given out is forgotten.
NothingLost ==
  [][\A p \in Paths :
       /\ Later(file'[p], file[p])
       /\ Holds(file'[p], file[p]) \/ \E o \in Openers : Its(o) = p /\ Removes(o)]_vars

=============================================================================
