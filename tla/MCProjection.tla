--------------------------- MODULE MCProjection ----------------------------
(* Two logs on one file.  Each may run the projection `strict`. *)
EXTENDS Projection, TLC

CONSTANTS h1, h2, strict, loose, r1, r2, s1, s2, k1, k2

Ev(k) == [kind |-> k, at |-> 0]
OneWanted == [stream |-> s1, run |-> <<Ev(k1)>>]
OneOther  == [stream |-> s2, run |-> <<Ev(k2)>>]
SomeAppends == {OneWanted, OneOther}

ForgetOne == [plan |-> [shape |-> "Streams", names |-> {s1}], guard |-> "Force"]
TrimSeen  == [plan |-> [shape |-> "Before", pos |-> 2], guard |-> "RegisteredConsumers"]
TrimUnasked == [TrimSeen EXCEPT !.guard = "Force"]
SomeRemovals == {TrimUnasked, TrimSeen}
ForcedRemoval == {ForgetOne}

SameName == (r1 :> strict) @@ (r2 :> strict)
TwoNames == (r1 :> strict) @@ (r2 :> loose)
Calls == {"follow", "rebuild"}
FirstRebuilds == (r1 :> Calls) @@ (r2 :> {"run_once"})
Followers == (r1 :> {"follow"}) @@ (r2 :> {"rebuild"})
OneLog == (r1 :> h1) @@ (r2 :> h1)
TwoLogs == (r1 :> h1) @@ (r2 :> h2)
Kinds1 == (strict :> {k1}) @@ (loose :> {k1})
KindsStrict == strict :> {k1}
=============================================================================
