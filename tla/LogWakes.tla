----------------------------- MODULE LogWakes ------------------------------
(***************************************************************************)
(* The wake-up channel.  Each open log has one watch channel whose value   *)
(* only grows; a commit made through a log publishes its highest position  *)
(* there afterwards, as a step of its own, or never.  A receiver           *)
(* marks the value it has seen; since every send raises the value, the     *)
(* value stands for the channel's version as well.                         *)
(***************************************************************************)
EXTENDS LogWriters

CONSTANTS
  Handles,       \* open logs on the file
  Publishers     \* those whose callers append and await

ASSUME PublishersAssumption == Publishers \subseteq Handles

VARIABLES
  notify,        \* per log: the channel's value
  unpublished    \* per log: commits whose caller has not published yet

wakeVars == <<notify, unpublished>>

WakeInit ==
  /\ notify = [h \in Handles |-> 0]
  /\ unpublished = [h \in Handles |-> {}]

\* An append made through log h commits; its caller will publish the newest
\* position of the run.
Commit(h, a) ==
  /\ Write(a)
  /\ unpublished' = [unpublished EXCEPT ![h] = @ \cup {db.autoinc + Len(a.run)}]
  /\ UNCHANGED notify

\* An append commits that nobody will publish here: it was detached, or made by
\* another process.
CommitUnheard(a) == Write(a) /\ UNCHANGED wakeVars

\* The caller of one of the commits resumes and publishes, in whatever order
\* the callers are polled.
Announce(h, p) ==
  /\ p \in unpublished[h]
  /\ unpublished' = [unpublished EXCEPT ![h] = @ \ {p}]
  /\ notify' = [notify EXCEPT ![h] = MaxOrZero({notify[h], p})]
  /\ UNCHANGED logVars

\* It never does: its future was dropped.
Forgo(h, p) ==
  /\ p \in unpublished[h]
  /\ unpublished' = [unpublished EXCEPT ![h] = @ \ {p}]
  /\ UNCHANGED <<logVars, notify>>

Writers ==
  \/ \E h \in Publishers : \/ \E a \in Appends : Commit(h, a)
                           \/ \E p \in unpublished[h] : Announce(h, p) \/ Forgo(h, p)
  \/ \E a \in Appends : CommitUnheard(a)
  \/ \E r \in Removals : Trim(r) /\ UNCHANGED wakeVars

WakeTypeOK ==
  /\ LogTypeOK
  /\ notify \in [Handles -> Nat]
  /\ unpublished \in [Handles -> SUBSET Nat]

=============================================================================
