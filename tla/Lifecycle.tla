----------------------------- MODULE Lifecycle -----------------------------
(***************************************************************************)
(* The closed vocabularies of the Change engine and the row constraints    *)
(* the store puts on them: backend/domain/runs.py, backend/domain/         *)
(* changes.py and the CHECK clauses of migrations 0012 and 0015.           *)
(*                                                                         *)
(* A Change's mutation columns are one value here: "undispatched" while    *)
(* dispatch_began_at is NULL, "dispatched" once the marker is committed    *)
(* and no outcome is, and otherwise the recorded outcome.                  *)
(***************************************************************************)

\* REACHABLE_RUN_STATES, the thirteen the schema accepts.
RunStates ==
    {"preview", "awaiting_confirmation", "arming", "applying", "verifying",
     "guarded", "succeeded", "failed", "rolling_back", "rollback_verifying",
     "rolled_back", "recovery_required", "cancelled"}

\* CANCELLABLE_STATES, which is also what an apply and a confirmation accept.
Appliable == {"preview", "awaiting_confirmation"}

HostEffects == {"none", "written", "write_unknown"}

MutationOutcomes == {"not_written", "written", "write_unknown"}

MutationColumn == {"undispatched", "dispatched"} \cup MutationOutcomes

\* The read-back judgement. value_unreadable, observation_unavailable,
\* source_incompatible and target_absent are one value: the engine treats them
\* alike except for the recovery reason it words.
Judgements == {"verified", "mismatch", "unavailable"}

\* ChangeResult, with "none" for a Run that has no Change row.
Results == {"none", "in_flight", "succeeded", "failed", "rolled_back",
            "recovery_required"}

\* host_effect_for: what a record may claim, given what became of the mutation.
HostEffectFor(m) == IF m \in {"written", "write_unknown"} THEN m ELSE "none"

\* outcome_on_recovery: what a Change means on restart.
OutcomeOnRecovery(m) ==
    IF m \in MutationOutcomes THEN m
    ELSE IF m = "dispatched" THEN "write_unknown" ELSE "not_written"

\* The states in which a Run row may carry a host effect.
Effectful == {"applying", "verifying", "guarded", "succeeded", "rolling_back",
              "rollback_verifying", "rolled_back", "recovery_required"}

(* The CHECKs of the runs table, for an UPDATE of a row in state `old` to    *)
(* (st, eff). cancelled_at is written by the cancelling UPDATE and by no     *)
(* other, so `old = "cancelled"` says whether it is set.                     *)
RunRowAllowed(old, st, eff) ==
    /\ (old = "cancelled") = (st = "cancelled")
    /\ eff # "none" => st \in Effectful
    /\ st \in {"succeeded", "guarded"} => eff = "written"
    /\ st = "failed" => eff = "none"
    /\ st \in {"rolled_back", "recovery_required"} => eff # "none"

\* The CHECKs of the changes table that tie an ending to its evidence.
ChangeRowAllowed(res, mutation, verification, restored) ==
    /\ res = "failed" => mutation = "not_written"
    /\ res = "succeeded" => mutation = "written" /\ verification = "verified"
    /\ res = "rolled_back" => restored = "verified"
=============================================================================
