---------------------------- MODULE MCWritePath ----------------------------
(* Two handles, two streams, and at least one call of each shape. *)
EXTENDS WritePathLinear, TLC

CONSTANTS h1, h2, c1, c2, c3, s1, s2, k1, k2

Ev(k) == [kind |-> k, at |-> 0]
It(s, k, ok) == [stream |-> s, kind |-> k, at |-> 0, ok |-> ok]

AppendTwo  == [op |-> "append", stream |-> s1, run |-> <<Ev(k1), Ev(k1)>>]
AppendOne  == [op |-> "append", stream |-> s2, run |-> <<Ev(k1)>>]
ExpectNew  == [op |-> "expect", stream |-> s1, expected |-> Unwritten, run |-> <<Ev(k1)>>]
ExpectTwo  == [op |-> "expect", stream |-> s1, expected |-> 2, run |-> <<Ev(k1)>>]
Reserve    == [op |-> "decide", stream |-> s1, kinds |-> {k2}, run |-> <<Ev(k2)>>]
Trim       == [op |-> "retain", plan |-> [shape |-> "Before", pos |-> 2], guard |-> "Force"]
Forget     == [op |-> "retain", plan |-> [shape |-> "Streams", names |-> {s1}],
               guard |-> "RegisteredConsumers"]
Transfer   == [op |-> "txn", calls |-> <<
                 [verb |-> "append", items |-> <<It(s1, k1, TRUE)>>],
                 [verb |-> "import", items |-> <<It(s2, k1, TRUE), It(s1, k2, TRUE),
                                                 It(s2, k1, TRUE)>>]>>]
Malformed  == [op |-> "txn", calls |-> <<
                 [verb |-> "import", items |-> <<It(s1, k1, TRUE), It(s1, k1, FALSE)>>]>>]

\* Every shape of call, on two handles the first of which serves two clients.
AllRequests == {AppendTwo, AppendOne, ExpectNew, Reserve, Forget, Transfer, Malformed}
OneEach == {AppendOne}
SharedHandle == (c1 :> h1) @@ (c2 :> h1) @@ (c3 :> h2)

\* Fewer shapes and one call more, so that an append can follow a removal; the
\* two handles, each with its client, are interchangeable.
FewRequests == {AppendTwo, Trim, ExpectTwo, Transfer}
TwoEach == {AppendTwo}
OwnHandle == (c1 :> h1) @@ (c2 :> h2)
Swap == {(h1 :> h2) @@ (h2 :> h1) @@ (c1 :> c2) @@ (c2 :> c1)}

\* A closure that goes on after import_many refused an event.
SwallowRequests == {AppendOne, Malformed}
=============================================================================
