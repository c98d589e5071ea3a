-------------------------- MODULE WritePathLinear --------------------------
(***************************************************************************)
(* WritePath seen through LinearLog: queues, locks, retries and open       *)
(* transactions are forgotten, and what is left is calls that take effect  *)
(* at most once, at one instant, with their sequential meaning.            *)
(***************************************************************************)
EXTENDS WritePath

ASSUME NoCallAssumption ==
  None \notin [st : {"pending", "done"}, req : Requests \cup {None}, ans : Ans \cup {None}]

\* A call is pending until its answer is the one the caller will see.
AbstractCall(c) ==
  LET t == task[c] IN
  IF t.st = "idle" THEN None
  ELSE IF t.st = "answered" /\ ~WillRetry(t)
       THEN [st |-> "done", req |-> t.req, ans |-> t.ans]
       ELSE [st |-> "pending", req |-> t.req, ans |-> None]

Ownerless(h) ==
  LET queued == {queue[h][i] : i \in DOMAIN queue[h]}
      running == IF txn[h] = None THEN {} ELSE {txn[h].job}
  IN  {[id |-> j.id, req |-> j.req] : j \in {k \in queued \cup running : k.client = None}}

Linear == INSTANCE LinearLog WITH
  Idle    <- None,
  live    <- db.events,
  calls   <- [c \in Clients |-> AbstractCall(c)],
  orphans <- UNION {Ownerless(h) : h \in Handles}

\* Every append, compare-and-append, decision, transaction and removal takes
\* effect exactly as if the callers had taken turns, whatever was retried,
\* cancelled, detached or killed.
Linearizable == Linear!Spec

=============================================================================
