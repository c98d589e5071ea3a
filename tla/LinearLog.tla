----------------------------- MODULE LinearLog -----------------------------
(***************************************************************************)
(* What one eventsdb file promises its callers, with connections, queues,  *)
(* locks, retries and transactions out of sight.  Every event ever         *)
(* committed is in `history`; the ones retention has not removed are       *)
(* `live`.  A call takes effect at most once, at one instant between the   *)
(* moment it is made and the moment it returns, and what it then does is   *)
(* the sequential meaning of the call: positions and per-stream sequence   *)
(* numbers continue the whole history, removed events included.            *)
(***************************************************************************)
EXTENDS Integers, Sequences, FiniteSets, SequencesExt

CONSTANTS Clients, Idle

VARIABLES
  history,   \* every row ever committed
  live,      \* those still in the log
  calls,     \* per client: Idle, or its pending or finished call
  orphans    \* calls nobody waits for any more, or never did

vars == <<history, live, calls, orphans>>

Pending(req) == [st |-> "pending", req |-> req, ans |-> Idle]
Done(req, ans) == [st |-> "done", req |-> req, ans |-> ans]

Init ==
  /\ history = {}
  /\ live = {}
  /\ calls = [c \in Clients |-> Idle]
  /\ orphans = {}

(***************************************************************************)
(* The sequential meaning of a call.                                       *)
(***************************************************************************)
Written(s) == Cardinality({r \in history : r.stream = s})

\* The rows `items` become when they are appended now, in this order.
RowsFor(items) ==
  {[pos    |-> Cardinality(history) + i,
    stream |-> items[i].stream,
    seq    |-> Written(items[i].stream)
                 + Cardinality({j \in 1..i : items[j].stream = items[i].stream}),
    kind   |-> items[i].kind,
    at     |-> items[i].at] : i \in DOMAIN items}

Items(req) ==
  IF req.op = "txn" THEN FlattenSeq([i \in DOMAIN req.calls |-> req.calls[i].items])
  ELSE [i \in DOMAIN req.run |-> [stream |-> req.stream, kind |-> req.run[i].kind,
                                  at |-> req.run[i].at]]

Appends(items, ans) ==
  /\ history' = history \cup RowsFor(items)
  /\ live' = live \cup RowsFor(items)
  /\ ans = [tag |-> "ok", positions |-> {r.pos : r \in RowsFor(items)}]

Nothing(ans, tags) == UNCHANGED <<history, live>> /\ ans.tag \in tags

\* The head of a stream as all of history tells it; -1 when it was never written.
HeadOf(s) == IF Written(s) = 0 THEN -1 ELSE Written(s)

Selects(plan, r) ==
  \/ plan.shape = "Before" /\ r.pos <= plan.pos
  \/ plan.shape = "OlderThan" /\ r.at < plan.at
  \/ plan.shape = "Streams" /\ r.stream \in plan.names

\* The call takes effect with this answer.
Effect(req, ans) ==
  \/ /\ req.op \in {"append", "txn"}
     /\ Appends(Items(req), ans)
  \/ /\ req.op = "expect"
     /\ IF HeadOf(req.stream) = req.expected
        THEN Appends(Items(req), ans)
        ELSE Nothing(ans, {"mismatch"})
  \/ /\ req.op = "decide"
     /\ IF \E r \in live : r.stream = req.stream /\ r.kind \in req.kinds
        THEN Nothing(ans, {"none"})
        ELSE Appends(Items(req), ans)
  \/ /\ req.op = "retain"
     /\ live' = {r \in live : ~Selects(req.plan, r)}
     /\ ans.tag = IF live' = live THEN "nothing" ELSE "removed"
     /\ UNCHANGED history

\* The call is refused, or fails, and leaves no trace.
Refusals == {"busy", "failed", "closed", "err", "ConsumerBehind", "NotExported"}

Refused(req, ans) == Nothing(ans, Refusals)

(***************************************************************************)
(* Steps.                                                                  *)
(***************************************************************************)
Invoke(c) ==
  /\ calls[c] = Idle
  /\ calls'[c] # Idle /\ calls'[c].st = "pending"
  /\ calls' = [calls EXCEPT ![c] = Pending(calls'[c].req)]
  /\ UNCHANGED <<history, live, orphans>>

Finish(c) ==
  /\ calls[c] # Idle /\ calls[c].st = "pending"
  /\ calls'[c] # Idle /\ calls'[c].st = "done"
  /\ calls' = [calls EXCEPT ![c] = Done(calls[c].req, calls'[c].ans)]
  /\ \/ Effect(calls[c].req, calls'[c].ans)
     \/ Refused(calls[c].req, calls'[c].ans)
  /\ UNCHANGED orphans

Return(c) ==
  /\ calls[c] # Idle /\ calls[c].st = "done"
  /\ calls' = [calls EXCEPT ![c] = Idle]
  /\ UNCHANGED <<history, live, orphans>>

\* The caller stops waiting; what it asked for may still happen, once.
Abandon(c) ==
  /\ calls[c] # Idle
  /\ calls' = [calls EXCEPT ![c] = Idle]
  /\ \/ UNCHANGED orphans
     \/ \E o \in orphans' :
          orphans' = orphans \cup {o} /\ calls[c].st = "pending" /\ o.req = calls[c].req
  /\ UNCHANGED <<history, live>>

Detach ==
  /\ \E o \in orphans' : o \notin orphans /\ orphans' = orphans \cup {o}
  /\ UNCHANGED <<history, live, calls>>

OrphanStep(o) ==
  /\ orphans' = orphans \ {o}
  /\ \/ \E tag \in {"ok", "none", "mismatch", "removed", "nothing"} :
          Effect(o.req, [tag |-> tag, positions |-> {r.pos : r \in history' \ history}])
     \/ UNCHANGED <<history, live>>
  /\ UNCHANGED calls

\* A process dies: its calls are never answered and its queued work is gone.
Crash ==
  /\ orphans' \subseteq orphans
  /\ \A c \in Clients : calls'[c] \in {calls[c], Idle}
  /\ DOMAIN calls' = Clients
  /\ UNCHANGED <<history, live>>

Next ==
  \/ \E c \in Clients : Invoke(c) \/ Finish(c) \/ Return(c) \/ Abandon(c)
  \/ Detach
  \/ \E o \in orphans : OrphanStep(o)
  \/ Crash

Spec == Init /\ [][Next]_vars

=============================================================================
