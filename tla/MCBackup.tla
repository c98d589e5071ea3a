------------------------------ MODULE MCBackup -----------------------------
(* A process of an older build and one of a newer build, a live file and a  *)
(* path for its backups.                                                   *)
EXTENDS Backup, TLC

CONSTANTS live, spare, older, newer, b1, b2

TwoSteps == <<{"events"}, {"exports"}>>
Builds == (older :> 1) @@ (newer :> 2)

AFile(version) ==
  [Empty EXCEPT !.version = version, !.ran = [i \in 1..version |-> i],
                !.tables = UNION {Creates[i] : i \in 1..version}]
Adopted == [Empty EXCEPT !.tables = {"events"}]
AtStart == (live :> {NoFile, Adopted}) @@ (spare :> {NoFile})
=============================================================================
