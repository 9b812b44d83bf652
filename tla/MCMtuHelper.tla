---------------------------- MODULE MCMtuHelper ----------------------------
\* Small instances of MtuHelper for TLC.
EXTENDS MtuHelper, TLC

CONSTANTS c1, c2, c3, a1, a2, before, desired, other

\* c1 and c2 ask for one attempt twice; c3 is the reversal of it.
Repeated == (c1 :> a1 @@ c2 :> a1 @@ c3 :> a2)

RepeatedFrom == (c1 :> before @@ c2 :> before @@ c3 :> desired)
RepeatedTo   == (c1 :> desired @@ c2 :> desired @@ c3 :> before)

\* The two calls of the one attempt carry the same values.
Alike == Permutations({c1, c2})
=============================================================================
