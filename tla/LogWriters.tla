---------------------------- MODULE LogWriters -----------------------------
(***************************************************************************)
(* The log as its readers meet it: committed appends and committed         *)
(* removals, each in one step.  That an append is one step, that it lands  *)
(* above everything committed before it and that it leaves no gap is what  *)
(* WritePath establishes; the modules that extend this one build on it.    *)
(***************************************************************************)
EXTENDS LogTables

CONSTANTS
  Appends,     \* what is appended: [stream, run]
  Removals,    \* what retention is asked for: [plan, guard]
  MaxEvents    \* bound: events ever committed

AppendCall == [stream : Streams, run : Run]
Removal == [plan : Plan, guard : Guards]

ASSUME WritersAssumption ==
  Appends \subseteq AppendCall /\ Removals \subseteq Removal /\ MaxEvents \in Nat

VARIABLES
  db,        \* the committed tables
  history    \* every row ever committed

logVars == <<db, history>>

LogInit == db = EmptyTables /\ history = {}

\* An append commits.
Write(a) ==
  /\ db.autoinc + Len(a.run) <= MaxEvents
  /\ db' = AppendRun(db, a.stream, a.run)
  /\ history' = history \cup RunRows(db, a.stream, a.run)

\* retain: a plan its guard lets through, removed together with its ledger row.
Trim(r) ==
  /\ RetainAnswer(db, r.plan, r.guard) = "removed"
  /\ db' = RemoveMatching(db, r.plan)
  /\ UNCHANGED history

LogTypeOK == db \in Tables /\ history \subseteq Row

=============================================================================
