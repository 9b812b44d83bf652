--------------------------- MODULE MCChangeEngine ---------------------------
(* Small instances of the Change engine for TLC. *)
EXTENDS ChangeRefinement, TLC

CONSTANTS r1, r2, t1, q1, q2

\* Two Runs that compete for one target, or one Run alone on it.
SameTarget == (r1 :> t1 @@ r2 :> t1)
OneTarget  == (r1 :> t1)

\* Threads are interchangeable.
Threads == Permutations({q1, q2})
=============================================================================
