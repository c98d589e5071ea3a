-------------------------- MODULE MCSubscription ---------------------------
(* One consumer of one log, on a file other processes write to as well. *)
EXTENDS Subscription, TLC

CONSTANTS h1, r1, s1, s2, k1, k2

Ev(k) == [kind |-> k, at |-> 0]
OneWanted == [stream |-> s1, run |-> <<Ev(k1)>>]
OneOther  == [stream |-> s1, run |-> <<Ev(k2)>>]
TwoWanted == [stream |-> s2, run |-> <<Ev(k1), Ev(k1)>>]
SomeAppends == {OneWanted, OneOther, TwoWanted}
SingleAppends == {OneWanted, OneOther}

TrimTwo   == [plan |-> [shape |-> "Before", pos |-> 2], guard |-> "Force"]
ForgetOne == [plan |-> [shape |-> "Streams", names |-> {s1}], guard |-> "Force"]
SomeRemovals == {TrimTwo, ForgetOne}
OneRemoval == {ForgetOne}

OneLog == r1 :> h1
Narrow == r1 :> [kinds |-> {k1}, streams |-> {s1, s2}]
=============================================================================
