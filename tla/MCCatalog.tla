----------------------------- MODULE MCCatalog -----------------------------
(* Names over three characters, one of them the last there is, with a gap. *)
EXTENDS Catalog

plain == <<1>>
longer == <<1, 3>>
highest == <<3>>
SomeStreams == {plain, longer, highest}

k1 == <<0>>
k2 == <<1>>
k3 == <<0, 0>>
SomeKinds == {k1, k2, k3}

c1 == <<0>>
c2 == <<0, 3>>
SomeConsumers == {c1, c2}

Ev(k, t) == [kind |-> k, at |-> t]
SomeAppends == {[stream |-> plain, run |-> <<Ev(k1, 0), Ev(k2, 1)>>],
                [stream |-> longer, run |-> <<Ev(k3, 1)>>],
                [stream |-> highest, run |-> <<Ev(k1, 0)>>]}
SomeDecisions == {[stream |-> plain, kinds |-> SomeKinds, event |-> Ev(k2, 0)]}

\* A kind that was renamed, and one whose step is wrong.
Upcasts(from, to) == [k \in SomeKinds \cup {Shapeless} |-> IF k = from THEN to ELSE k]
SomeChain == <<Upcasts(k1, k2), Upcasts(k3, Shapeless)>>

OlderThan(t) == [plan |-> [shape |-> "OlderThan", at |-> t], guard |-> "Force"]
Before(p) == [plan |-> [shape |-> "Before", pos |-> p], guard |-> "RegisteredConsumers"]
SomeRemovals == {OlderThan(1), Before(2)}

Asked(of, prefix, limit) == [of |-> of, prefix |-> prefix, limit |-> limit]
SomeListings ==
  {Asked("streams", prefix, 1) : prefix \in SomeStreams \cup {<<>>}}
    \cup {Asked(of, <<>>, 1) : of \in {"kinds", "checkpoints", "ledger", "receipts"}}
    \cup {Asked("streams", <<>>, 2), Asked("receipts", <<>>, 2)}

SomePages == {[from |-> 0, thr |-> 1, whole |-> TRUE], [from |-> 1, thr |-> 2, whole |-> TRUE]}
SomeSaves == {[consumer |-> c1, at |-> 1], [consumer |-> c2, at |-> 2]}

SomeReads == {[kinds |-> kinds, from |-> from, limit |-> limit] :
                kinds \in {{}, {k2}, {k1, k3}, SomeKinds}, from \in {0, 2}, limit \in {1, 15}}

\* A time a column cannot hold, next to one it can.
LateAppends == {[stream |-> plain, run |-> <<Ev(k1, t)>>] : t \in {0, 2, 15}}
LateTimes == {-1, 0, 2, 15}
LateRemovals == {OlderThan(1)}
None == {}
=============================================================================
