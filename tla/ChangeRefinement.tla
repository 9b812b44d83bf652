-------------------------- MODULE ChangeRefinement --------------------------
(* The Change engine keeps the promise of module ChangePromise. *)
EXTENDS ChangeEngine

\* What the records of r tell an operator: the Change row while there is one
\* in flight, and otherwise the state of the Run.
Told(r) ==
    CASE result[r] = "in_flight"              -> "in_flight"
      [] state[r] \in {"failed", "cancelled"} -> "nothing"
      [] state[r] = "succeeded"               -> "done"
      [] state[r] = "rolled_back"             -> "undone"
      [] state[r] = "recovery_required"       -> "person"
      [] OTHER                                -> "open"

Promise == INSTANCE ChangePromise WITH
    told  <- [r \in Runs |-> Told(r)],
    asked <- call,
    owner <- lock

\* Confirming, applying, verifying, rolling back, ending, crashing and settling
\* on restart, by any number of threads, amount to no more than this: a Run
\* takes its target, asks the host once, and ends by telling the truth, keeping
\* the target exactly when it cannot (changes.py apply, _finish,
\* settle_interrupted).
KeepsPromise == Promise!Spec
=============================================================================
