----------------------------- MODULE MCArchive -----------------------------
(* Two tasks that archive and export by hand, over one or two streams. *)
EXTENDS Archive

CONSTANTS a1, a2, s1, s2, k1, k2

Ev(k) == [kind |-> k, at |-> 0]
AppendOne == [stream |-> s1, run |-> <<Ev(k1)>>]
AppendTwo == [stream |-> s2, run |-> <<Ev(k2), Ev(k1)>>]
SomeAppends == {AppendOne, AppendTwo}

\* Two tasks without a power loss; one, into another log or into a writer that
\* syncs, with one.
Together == [tasks |-> {a1, a2}, calls |-> 2, losses |-> 0]
Alone == [tasks |-> {a1}, calls |-> 1, losses |-> 1]
Syncing == [tasks |-> {a2}, calls |-> 2, losses |-> 1]
SomeBounds == {Together, Alone, Syncing}

Forget == [shape |-> "Streams", names |-> {s1}]
Before(p) == [shape |-> "Before", pos |-> p]
SomePlans == {Forget, Before(2)}
TrimExported == [plan |-> Before(2), guard |-> "Exported"]
SomeRemovals == {TrimExported}

\* A filtered page, and a whole page that starts past the beginning.
SomeExports == {[from |-> 0, kinds |-> {k1}, whole |-> FALSE],
                [from |-> 1, kinds |-> Kinds, whole |-> TRUE]}
=============================================================================
