---------------------------- MODULE RecoveryHold ----------------------------
(***************************************************************************)
(* What may be done about a Change that ended in recovery_required:        *)
(* backend/changes.py, recovery_confirm, recovery_retry, recovery_resolve  *)
(* and settle_interrupted_recovery, over the table                         *)
(* change_recovery_attempts (migration 0009).                              *)
(*                                                                         *)
(* The hold is the write lock the Change ended with plus the append-only   *)
(* history of attempts. A retry reads first and completes on proof without *)
(* writing; failing that it spends a grant of its own and writes again. A  *)
(* resolution is a person's word. Every transaction is one atomic step and *)
(* requests interleave between them, as in module ChangeEngine.            *)
(*                                                                         *)
(* The target's state is a number. For a field it is the value: 0 what it  *)
(* was before the Change, 1 what the Change wants, 2 anything else. For an *)
(* action whose proof needs a baseline (a restart) it is how often the     *)
(* target has started since the Change was dispatched.                     *)
(***************************************************************************)
EXTENDS Naturals, FiniteSets, Lifecycle

CONSTANTS
    Requests,     \* request-serving threads
    MaxAttempts,  \* bound on recovery attempts
    MaxGrants,    \* bound on recovery confirmations
    MaxCrashes,   \* bound on backend crashes
    MaxMoves      \* bound on changes to the target by others

ASSUME RecoveryAssumption ==
    /\ MaxAttempts \in Nat
    /\ MaxGrants \in Nat
    /\ MaxCrashes \in Nat
    /\ MaxMoves \in Nat

Attempts == 1 .. MaxAttempts

VARIABLES
    lock,          \* the target's write lock: this Change's (held), free, other
    used,          \* attempts inserted: the sequence column
    kind,          \* retry or resolve
    evidence,      \* evidence_outcome, the reading before any write
    mutation,      \* dispatch_began_at and mutation_outcome
    verification,  \* verification_outcome, the reading after the write
    outcome,       \* outcome, "none" for an attempt that does not exist
    issued, spent, \* recovery_retry confirmations granted and consumed
    host,          \* the target
    observed,      \* its newest stored observation
    first,         \* the original apply message, which may be on its way still
    undo,          \* the original restoration's precondition while it is on its
                   \* way, else 0
    msg,           \* an attempt's message: idle, sent, written, not_written
    carry,         \* what it carries: expected_current, or the baseline
    pc, mine, got, val,
    phase,
    isField,       \* a field Change, or an action
    crashes, moves

rows   == <<lock, used, kind, evidence, mutation, verification, outcome, issued, spent>>
world  == <<host, observed, first, undo, msg, carry>>
thread == <<pc, mine, got, val>>
bounds == <<isField, crashes, moves>>
vars   == <<rows, world, thread, phase, bounds>>

Messages == {"idle", "sent", "written", "not_written"}
Outcomes == {"none", "in_flight", "proven", "verified", "not_written",
             "write_unknown", "not_proven", "refused", "interrupted", "resolved"}
\* _RELEASES_HOLD.
Releasing == {"proven", "verified", "resolved"}
Places == {"idle", "confirm", "open", "read", "evidence", "replan", "marker",
           "refuse", "mutate", "wait", "result", "vread", "vresult", "finish",
           "complete", "rread", "resolve"}

TypeOK ==
    /\ lock \in {"held", "free", "other"}
    /\ used \in 0 .. MaxAttempts
    /\ kind \in [Attempts -> {"none", "retry", "resolve"}]
    /\ evidence \in [Attempts -> Judgements \cup {"not_attempted"}]
    /\ mutation \in [Attempts -> MutationColumn]
    /\ verification \in [Attempts -> Judgements \cup {"not_attempted"}]
    /\ outcome \in [Attempts -> Outcomes]
    /\ issued \in 0 .. MaxGrants
    /\ spent \in 0 .. issued
    /\ host \in Nat
    /\ observed \in Nat
    /\ first \in Messages \ {"idle"}
    /\ undo \in 0 .. 2
    /\ msg \in [Attempts -> Messages]
    /\ carry \in [Attempts -> Nat]
    /\ pc \in [Requests -> Places]
    /\ mine \in [Requests -> 0 .. MaxAttempts]
    /\ got \in [Requests -> MutationOutcomes \cup Judgements \cup {"none"}]
    /\ val \in [Requests -> Nat]
    /\ phase \in {"up", "down", "settling"}
    /\ isField \in BOOLEAN
    /\ crashes \in 0 .. MaxCrashes
    /\ moves \in 0 .. MaxMoves

(* A Change that has just ended in recovery_required: it wrote, or nobody    *)
(* can say. A field may also have a restoration under way, which an ending   *)
(* by write_unknown leaves behind; what the field holds is then anybody's    *)
(* guess. An action has taken effect exactly if its message was carried out. *)
Init ==
    /\ lock = "held"
    /\ used = 0
    /\ kind = [a \in Attempts |-> "none"]
    /\ evidence = [a \in Attempts |-> "not_attempted"]
    /\ mutation = [a \in Attempts |-> "undispatched"]
    /\ verification = [a \in Attempts |-> "not_attempted"]
    /\ outcome = [a \in Attempts |-> "none"]
    /\ issued = 0
    /\ spent = 0
    /\ isField \in BOOLEAN
    /\ first \in {"sent", "written", "not_written"}
    /\ IF isField THEN host \in 0 .. 2 /\ undo \in 0 .. 2
       ELSE host = (IF first = "written" THEN 1 ELSE 0) /\ undo = 0
    /\ observed = 0
    /\ msg = [a \in Attempts |-> "idle"]
    /\ carry = [a \in Attempts |-> 0]
    /\ pc = [q \in Requests |-> "idle"]
    /\ mine = [q \in Requests |-> 0]
    /\ got = [q \in Requests |-> "none"]
    /\ val = [q \in Requests |-> 0]
    /\ phase = "up"
    /\ crashes = 0
    /\ moves = 0

-----------------------------------------------------------------------------
(* Helpers *)

Goto(q, next) ==
    /\ pc' = [pc EXCEPT ![q] = next]
    /\ UNCHANGED <<mine, got, val>>

Hold(q, next, answer) ==
    /\ pc' = [pc EXCEPT ![q] = next]
    /\ got' = [got EXCEPT ![q] = answer]
    /\ UNCHANGED <<mine, val>>

Return(q) ==
    /\ pc' = [pc EXCEPT ![q] = "idle"]
    /\ mine' = [mine EXCEPT ![q] = 0]
    /\ got' = [got EXCEPT ![q] = "none"]
    /\ val' = [val EXCEPT ![q] = 0]

\* release_of: some attempt has released the hold.
Released == \E a \in Attempts : outcome[a] \in Releasing

\* Faulty variant of OpenHold: an attempt under way is not looked for.
OpenHoldAnyAttempt(ignored) == ~Released /\ lock = "held"

\* _require_open_hold, with ignore_attempt_id: not released, still locked, and
\* no other attempt under way. The Change's result never moves.
OpenHold(ignored) ==
    /\ ~Released
    /\ lock = "held"
    /\ \A a \in Attempts : outcome[a] = "in_flight" => a = ignored

\* ConfirmationRepository.outstanding for recovery_retry.
Outstanding == spent < issued

\* executor.prove: a field holds the desired value; a restarted target has
\* started again since the baseline.
Proves(v, baseline) == IF isField THEN v = 1 ELSE v > baseline

\* _read_back: a sweep that is stored and judged, or no usable reading.
ReadBack(q, baseline, next) ==
    /\ \/ /\ observed' = host
          /\ pc' = [pc EXCEPT ![q] = next]
          /\ got' = [got EXCEPT ![q] = IF Proves(host, baseline) THEN "verified" ELSE "mismatch"]
          /\ val' = [val EXCEPT ![q] = host]
          /\ UNCHANGED mine
       \/ /\ Hold(q, next, "unavailable")
          /\ UNCHANGED observed
    /\ UNCHANGED <<rows, host, first, undo, msg, carry, phase, bounds>>

\* A request arrives and finds the hold open.
Arrive(q, at) ==
    /\ phase = "up"
    /\ pc[q] = "idle"
    /\ OpenHold(0)
    /\ Goto(q, at)
    /\ UNCHANGED <<rows, world, phase, bounds>>

-----------------------------------------------------------------------------
(* recovery_confirm *)

ConfirmBegin(q) == Arrive(q, "confirm")

\* Its transaction asks only whether a grant is outstanding.
Confirm(q) ==
    /\ pc[q] = "confirm"
    /\ Outstanding \/ issued < MaxGrants
    /\ issued' = IF Outstanding THEN issued ELSE issued + 1
    /\ Return(q)
    /\ UNCHANGED <<lock, used, kind, evidence, mutation, verification, outcome,
                   spent, world, phase, bounds>>

-----------------------------------------------------------------------------
(* recovery_retry *)

RetryBegin(q) == used < MaxAttempts /\ Arrive(q, "open")

\* _open_recovery_attempt: re-check, and insert the row that serialises.
Open(q) ==
    /\ pc[q] = "open"
    /\ used < MaxAttempts
    /\ OpenHold(0)
    /\ used' = used + 1
    /\ kind' = [kind EXCEPT ![used + 1] = "retry"]
    /\ outcome' = [outcome EXCEPT ![used + 1] = "in_flight"]
    /\ pc' = [pc EXCEPT ![q] = "read"]
    /\ mine' = [mine EXCEPT ![q] = used + 1]
    /\ UNCHANGED <<got, val, lock, evidence, mutation, verification, issued, spent,
                   world, phase, bounds>>

\* The transaction of a retry or of a resolution finds the hold no longer open.
HoldGone(q) ==
    /\ pc[q] \in {"open", "resolve"}
    /\ ~OpenHold(0)
    /\ Return(q)
    /\ UNCHANGED <<rows, world, phase, bounds>>

\* Does the target already hold what the Change wanted? The baseline is the
\* Change's own.
EvidenceRead(q) ==
    /\ pc[q] = "read"
    /\ ReadBack(q, 0, "evidence")

\* _recovery_evidence.
Evidence(q) ==
    /\ pc[q] = "evidence"
    /\ evidence' = [evidence EXCEPT ![mine[q]] = got[q]]
    /\ Goto(q, IF got[q] = "verified" THEN "complete" ELSE "replan")
    /\ UNCHANGED <<lock, used, kind, mutation, verification, outcome, issued, spent,
                   world, phase, bounds>>

(* _recovery_plan_now and _recovery_request. Any gate may refuse (intent,    *)
(* policy, ownership and freshness are other components' state). A field is  *)
(* guarded on the reading just taken and needs one; an action's baseline is  *)
(* correlated again from the newest stored observation.                      *)
Replan(q) ==
    /\ pc[q] = "replan"
    /\ \/ /\ isField => got[q] = "mismatch"
          /\ carry' = [carry EXCEPT ![mine[q]] = IF isField THEN val[q] ELSE observed]
          /\ Goto(q, "marker")
       \/ /\ Goto(q, "refuse")
          /\ UNCHANGED carry
    /\ UNCHANGED <<rows, host, observed, first, undo, msg, phase, bounds>>

\* Faulty variant of Marker: the grant is looked up and not consumed.
MarkerUnspent(q) ==
    /\ pc[q] = "marker"
    /\ OpenHold(mine[q])
    /\ IF Outstanding
       THEN /\ mutation' = [mutation EXCEPT ![mine[q]] = "dispatched"]
            /\ Goto(q, "mutate")
       ELSE Goto(q, "refuse") /\ UNCHANGED mutation
    /\ UNCHANGED <<lock, used, kind, evidence, verification, outcome, issued, spent,
                   world, phase, bounds>>

\* _recovery_dispatch_marker: the grant is consumed and the dispatch recorded
\* in one transaction; without a grant it refuses.
Marker(q) ==
    /\ pc[q] = "marker"
    /\ OpenHold(mine[q])
    /\ IF Outstanding
       THEN /\ spent' = spent + 1
            /\ mutation' = [mutation EXCEPT ![mine[q]] = "dispatched"]
            /\ Goto(q, "mutate")
       ELSE Goto(q, "refuse") /\ UNCHANGED <<spent, mutation>>
    /\ UNCHANGED <<lock, used, kind, evidence, verification, outcome, issued,
                   world, phase, bounds>>

\* Settling an attempt that proved nothing: the hold is kept.
EndAttempt(q, how) ==
    /\ outcome' = [outcome EXCEPT ![mine[q]] = how]
    /\ Return(q)
    /\ UNCHANGED <<lock, used, kind, evidence, mutation, verification, issued, spent,
                   world, phase, bounds>>

\* _refuse_recovery.
Refuse(q) == pc[q] = "refuse" /\ EndAttempt(q, "refused")

\* executor.mutate: sent, or known not to have left.
Send(q) ==
    /\ pc[q] = "mutate"
    /\ \/ msg' = [msg EXCEPT ![mine[q]] = "sent"] /\ Goto(q, "wait")
       \/ Hold(q, "result", "not_written") /\ UNCHANGED msg
    /\ UNCHANGED <<rows, host, observed, first, undo, carry, phase, bounds>>

\* Faulty variant of AnswerTo: a call that timed out is read as not written.
AnswerToTimeoutAsFailure(message) ==
    ({message} \cap {"written", "not_written"}) \cup {"not_written"}

\* What the helper's caller reads: what happened, or write_unknown.
AnswerTo(message) == ({message} \cap {"written", "not_written"}) \cup {"write_unknown"}

Answer(q) ==
    /\ pc[q] = "wait"
    /\ \E a \in AnswerTo(msg[mine[q]]) : Hold(q, "result", a)
    /\ UNCHANGED <<rows, world, phase, bounds>>

\* _recovery_result. Only a write that happened is worth a reading.
Result(q) ==
    /\ pc[q] = "result"
    /\ mutation' = [mutation EXCEPT ![mine[q]] = got[q]]
    /\ Goto(q, IF got[q] = "written" THEN "vread" ELSE "finish")
    /\ UNCHANGED <<lock, used, kind, evidence, verification, outcome, issued, spent,
                   world, phase, bounds>>

\* The baseline is the one this attempt correlated, not the Change's.
VerifyRead(q) ==
    /\ pc[q] = "vread"
    /\ ReadBack(q, carry[mine[q]], "vresult")

\* _recovery_verification.
VerifyResult(q) ==
    /\ pc[q] = "vresult"
    /\ verification' = [verification EXCEPT ![mine[q]] = got[q]]
    /\ Goto(q, IF got[q] = "verified" THEN "complete" ELSE "finish")
    /\ UNCHANGED <<lock, used, kind, evidence, mutation, outcome, issued, spent,
                   world, phase, bounds>>

\* recovery_outcome_for.
RecoveryOutcomeFor(m, v) ==
    IF m # "written" THEN m ELSE IF v = "verified" THEN "verified" ELSE "not_proven"

\* Faulty variant of Finish: a retry that wrote gives the target back, proof or
\* no proof.
FinishReleasing(q) ==
    /\ pc[q] = "finish"
    /\ outcome' = [outcome EXCEPT ![mine[q]] =
                     RecoveryOutcomeFor(mutation[mine[q]], verification[mine[q]])]
    /\ lock' = "free"
    /\ Return(q)
    /\ UNCHANGED <<used, kind, evidence, mutation, verification, issued, spent,
                   world, phase, bounds>>

\* _settle_retry.
Finish(q) ==
    /\ pc[q] = "finish"
    /\ EndAttempt(q, RecoveryOutcomeFor(mutation[mine[q]], verification[mine[q]]))

\* _complete_recovery: re-check, settle, release.
Complete(q) ==
    LET a == mine[q] IN
    /\ pc[q] = "complete"
    /\ OpenHold(a)
    /\ outcome' = [outcome EXCEPT ![a] =
                     IF mutation[a] = "undispatched" THEN "proven" ELSE "verified"]
    /\ lock' = "free"
    /\ Return(q)
    /\ UNCHANGED <<used, kind, evidence, mutation, verification, issued, spent,
                   world, phase, bounds>>

-----------------------------------------------------------------------------
(* recovery_resolve *)

ResolveBegin(q) == used < MaxAttempts /\ Arrive(q, "rread")

\* A best-effort reading, recorded beside the decision.
ResolveRead(q) ==
    /\ pc[q] = "rread"
    /\ ReadBack(q, 0, "resolve")

\* Its transaction: re-check, one settled row, release.
Resolve(q) ==
    /\ pc[q] = "resolve"
    /\ used < MaxAttempts
    /\ OpenHold(0)
    /\ used' = used + 1
    /\ kind' = [kind EXCEPT ![used + 1] = "resolve"]
    /\ evidence' = [evidence EXCEPT ![used + 1] = got[q]]
    /\ outcome' = [outcome EXCEPT ![used + 1] = "resolved"]
    /\ lock' = "free"
    /\ Return(q)
    /\ UNCHANGED <<mutation, verification, issued, spent, world, phase, bounds>>

-----------------------------------------------------------------------------
(* Death and restart of the backend *)

Crash ==
    /\ phase # "down"
    /\ crashes < MaxCrashes
    /\ phase' = "down"
    /\ crashes' = crashes + 1
    /\ pc' = [q \in Requests |-> "idle"]
    /\ mine' = [q \in Requests |-> 0]
    /\ got' = [q \in Requests |-> "none"]
    /\ val' = [q \in Requests |-> 0]
    /\ UNCHANGED <<rows, world, isField, moves>>

Restart ==
    /\ phase = "down"
    /\ phase' = "settling"
    /\ UNCHANGED <<rows, world, thread, bounds>>

\* settle_interrupted_recovery: the hold is kept, a recorded outcome stands.
SettleInterrupted(a) ==
    /\ phase = "settling"
    /\ outcome[a] = "in_flight"
    /\ outcome' = [outcome EXCEPT ![a] = "interrupted"]
    /\ mutation' = [mutation EXCEPT ![a] =
                      IF @ = "dispatched" THEN OutcomeOnRecovery(@) ELSE @]
    /\ UNCHANGED <<lock, used, kind, evidence, verification, issued, spent,
                   world, thread, phase, bounds>>

\* Faulty variant of SettleDone: the backend serves before it has settled.
SettleDoneEarly ==
    /\ phase = "settling"
    /\ phase' = "up"
    /\ UNCHANGED <<rows, world, thread, bounds>>

SettleDone ==
    /\ phase = "settling"
    /\ \A a \in Attempts : outcome[a] # "in_flight"
    /\ phase' = "up"
    /\ UNCHANGED <<rows, world, thread, bounds>>

-----------------------------------------------------------------------------
(* The helper, the host and the other Runs *)

\* A field is written only over the value the message expects; an action just
\* happens. Either may be rejected.
Carried(from, next) ==
    \/ /\ isField => host = from /\ from # 1
       /\ host' = IF isField THEN 1 ELSE host + 1
       /\ next = "written"
    \/ host' = host /\ next = "not_written"

Land(a) ==
    /\ msg[a] = "sent"
    /\ \E next \in {"written", "not_written"} :
          /\ Carried(carry[a], next)
          /\ msg' = [msg EXCEPT ![a] = next]
    /\ UNCHANGED <<rows, observed, first, undo, carry, thread, phase, bounds>>

\* The original apply arrives late.
LandFirst ==
    /\ first = "sent"
    /\ \E next \in {"written", "not_written"} : Carried(0, next) /\ first' = next
    /\ UNCHANGED <<rows, observed, undo, msg, carry, thread, phase, bounds>>

\* The original restoration arrives late.
LandUndo ==
    /\ undo # 0
    /\ undo' = 0
    /\ host' \in {host} \cup (IF host = undo THEN {0} ELSE {})
    /\ UNCHANGED <<rows, observed, first, msg, carry, thread, phase, bounds>>

\* Somebody else changes the target.
HostMoves ==
    /\ moves < MaxMoves
    /\ moves' = moves + 1
    /\ host' \in IF isField THEN (0 .. 2) \ {host} ELSE {host + 1}
    /\ UNCHANGED <<rows, observed, first, undo, msg, carry, thread, phase, isField, crashes>>

\* The ordinary observation sweep.
Observe ==
    /\ phase = "up"
    /\ observed' = host
    /\ UNCHANGED <<rows, host, first, undo, msg, carry, thread, phase, bounds>>

\* Another Run takes the target once it is free, and gives it back.
OtherLocks ==
    /\ phase = "up"
    /\ lock # "held"
    /\ lock' = IF lock = "free" THEN "other" ELSE "free"
    /\ UNCHANGED <<used, kind, evidence, mutation, verification, outcome, issued,
                   spent, world, thread, phase, bounds>>

-----------------------------------------------------------------------------

\* One step of the handler serving request q.
Handle(q) ==
    \/ Confirm(q)
    \/ Open(q) \/ HoldGone(q) \/ EvidenceRead(q) \/ Evidence(q) \/ Replan(q)
    \/ Marker(q) \/ Refuse(q) \/ Send(q) \/ Answer(q) \/ Result(q)
    \/ VerifyRead(q) \/ VerifyResult(q) \/ Finish(q) \/ Complete(q)
    \/ ResolveRead(q) \/ Resolve(q)

Settlement == SettleDone \/ \E a \in Attempts : SettleInterrupted(a)

Next ==
    \/ \E q \in Requests : Handle(q) \/ ConfirmBegin(q) \/ RetryBegin(q) \/ ResolveBegin(q)
    \/ \E a \in Attempts : Land(a)
    \/ LandFirst \/ LandUndo \/ HostMoves \/ Observe \/ OtherLocks
    \/ Crash \/ Restart \/ Settlement

Spec == Init /\ [][Next]_vars

-----------------------------------------------------------------------------
(* Properties *)

\* The hold is given back exactly by an attempt that says so, and by one only:
\* the lock is this Change's as long as no attempt has released it, through
\* every refusal, failure, crash and race of a retry with a resolution, and
\* what comes after the release is not the Change's (recovery_hold, which
\* derives the hold from these two facts).
HoldIsReleasedOnce ==
    /\ (lock = "held") = ~Released
    /\ Cardinality({a \in Attempts : outcome[a] \in Releasing}) <= 1

\* Once the hold is released nothing more is sent on the Change's behalf, and
\* its history is closed: no retry is caught between its dispatch marker and
\* its write by a resolution (_require_open_hold_locked).
ReleaseIsFinal ==
    [][Released => \A a \in Attempts :
          /\ outcome'[a] = outcome[a]
          /\ msg[a] = "idle" => msg'[a] = "idle"]_vars

\* Every attempt's record is what became of its message: a refusal, a proof or
\* a resolution sent nothing, not_written was not and cannot be carried out,
\* and a hold released as verified was written by that very attempt.
AttemptsAreTruthful ==
    \A a \in Attempts :
        /\ outcome[a] \in {"refused", "proven", "resolved"} => msg[a] = "idle"
        /\ mutation[a] = "undispatched" => msg[a] = "idle"
        /\ mutation[a] = "written" => msg[a] = "written"
        /\ mutation[a] = "not_written" => msg[a] \in {"idle", "not_written"}
        /\ outcome[a] = "verified" => mutation[a] = "written" /\ verification[a] = "verified"
        /\ outcome[a] = "proven" => evidence[a] = "verified"

\* A grant authorises one dispatch: however requests, retries and crashes
\* interleave, no more messages leave than grants were consumed, and no more
\* grants are consumed than a person made (_recovery_dispatch_marker).
GrantPerDispatch ==
    /\ Cardinality({a \in Attempts : mutation[a] # "undispatched"}) <= spent
    /\ spent <= issued

\* An attempt in flight is one somebody is working on: a served backend never
\* holds an orphan that would shut every later retry and resolution out.
InFlightIsServed ==
    \A a \in Attempts :
        phase = "up" /\ outcome[a] = "in_flight" => \E q \in Requests : mine[q] = a

=============================================================================
