---------------------------- MODULE ChangeEngine ----------------------------
(***************************************************************************)
(* backend/changes.py: how an unguarded Run is confirmed, applied,         *)
(* verified, rolled back, ended and, after a crash, settled.               *)
(*                                                                         *)
(* Every `with self._db.transaction()` and every `_step` is one atomic     *)
(* step; between two of them, and around every call to the agent, the      *)
(* worker threads serving other requests interleave, the host moves and    *)
(* the process may die. A request is a thread: pc is where its handler     *)
(* stands, job the Run it serves, seen the state `_acquire` returned, got  *)
(* the last answer (a mutation report or a reading) it holds in memory.    *)
(*                                                                         *)
(* A target is an object together with its lock aspect (_lock_aspect). Its *)
(* value is "before" (what the plan was made against), "desired" or        *)
(* "other". A field Run reconciles a controlled field and has a            *)
(* checkpoint; the other Runs are lifecycle actions and have no inverse.   *)
(* Guarded Runs are the subject of module GuardedChange, the recovery hold *)
(* left by an ending here that of module RecoveryHold.                     *)
(***************************************************************************)
EXTENDS Naturals, Lifecycle

CONSTANTS
    Runs,               \* Runs with an executable published plan
    Targets,            \* object and aspect pairs
    Requests,           \* request-serving threads
    Target,             \* which target each Run changes
    Fields,             \* the Runs that change a field
    Overridden,         \* the Runs whose plan rests on a self-impact override
    NoRun,              \* nobody: the value of a free lock
    ConcurrentApplies,  \* may clients apply one Run twice at the same time?
    MaxCrashes,         \* bound on backend crashes
    MaxMoves            \* bound on changes to the host by others

ASSUME EngineAssumption ==
    /\ Target \in [Runs -> Targets]
    /\ Fields \subseteq Runs
    /\ Overridden \subseteq Runs
    /\ NoRun \notin Runs
    /\ ConcurrentApplies \in BOOLEAN
    /\ MaxCrashes \in Nat
    /\ MaxMoves \in Nat

VARIABLES
    state,          \* runs.state, "absent" before the Run is created
    effect,         \* runs.host_effect
    conf,           \* the apply confirmation: none, granted, spent
    override,       \* the self-impact override: none, granted, spent
    checkpoint,     \* the Runs whose run_checkpoints row exists
    result,         \* changes.result
    mutation,       \* changes.dispatch_began_at and mutation_outcome
    verification,   \* changes.verification_outcome
    rollback,       \* changes.rollback_* : idle, required, dispatched, outcome
    restored,       \* changes.rollback_verification_outcome
    lock,           \* object_write_locks: target -> the Run holding it
    host,           \* the value the host really holds
    observed,       \* the value of the newest stored observation
    call,           \* the apply message: idle, sent, written, not_written
    sends,          \* how often an apply message was sent for the Run
    undo,           \* the rollback message, like call
    undoFrom,       \* the rollback message's expected_current
    pc, job, seen, got,
    phase,          \* the backend process: up, down, settling
    crashes, moves

rows   == <<state, effect, conf, override, checkpoint, result, mutation,
            verification, rollback, restored, lock>>
world  == <<host, observed, call, sends, undo, undoFrom>>
thread == <<pc, job, seen, got>>
bounds == <<crashes, moves>>
vars   == <<rows, world, thread, phase, bounds>>

Values   == {"before", "desired", "other"}
Messages == {"idle", "sent", "written", "not_written"}
Answers  == MutationOutcomes \cup Judgements \cup Values \cup {"none"}

\* Where a handler stands. Acquired: it has taken the lock and may refuse.
\* Owner: it has consumed the Run's authority.
Acquired == {"plan", "awaiting", "consume", "refuse"}
Owner    == {"prepare", "cross", "dispatch", "mutate", "wait", "settle",
             "verify", "vread", "vresult", "rollback", "rbread", "rbmark",
             "rbmutate", "rbwait", "rbresult", "rbverify", "rbvread",
             "rbvresult", "failed", "succeeded", "rolled_back",
             "recovery_required"}
Applying == Acquired \cup Owner
\* The pcs at which _finish is the next step, named for the ending.
Endings  == {"failed", "succeeded", "rolled_back", "recovery_required"}
Counters == Applying \cup {"idle", "confirm", "override"}

TypeOK ==
    /\ state \in [Runs -> RunStates \cup {"absent"}]
    /\ effect \in [Runs -> HostEffects]
    /\ conf \in [Runs -> {"none", "granted", "spent"}]
    /\ override \in [Runs -> {"none", "granted", "spent"}]
    /\ checkpoint \in SUBSET Fields
    /\ result \in [Runs -> Results]
    /\ mutation \in [Runs -> MutationColumn]
    /\ verification \in [Runs -> Judgements \cup {"not_attempted"}]
    /\ rollback \in [Runs -> {"idle", "required", "dispatched"} \cup MutationOutcomes]
    /\ restored \in [Runs -> Judgements \cup {"not_attempted"}]
    /\ lock \in [Targets -> Runs \cup {NoRun}]
    /\ host \in [Targets -> Values]
    /\ observed \in [Targets -> Values]
    /\ call \in [Runs -> Messages]
    /\ sends \in [Runs -> Nat]
    /\ undo \in [Runs -> Messages]
    /\ undoFrom \in [Runs -> Values]
    /\ pc \in [Requests -> Counters]
    /\ job \in [Requests -> Runs \cup {NoRun}]
    /\ seen \in [Requests -> Appliable]
    /\ got \in [Requests -> Answers]
    /\ phase \in {"up", "down", "settling"}
    /\ crashes \in 0 .. MaxCrashes
    /\ moves \in 0 .. MaxMoves

Init ==
    /\ state = [r \in Runs |-> "absent"]
    /\ effect = [r \in Runs |-> "none"]
    /\ conf = [r \in Runs |-> "none"]
    /\ override = [r \in Runs |-> "none"]
    /\ checkpoint = {}
    /\ result = [r \in Runs |-> "none"]
    /\ mutation = [r \in Runs |-> "undispatched"]
    /\ verification = [r \in Runs |-> "not_attempted"]
    /\ rollback = [r \in Runs |-> "idle"]
    /\ restored = [r \in Runs |-> "not_attempted"]
    /\ lock = [t \in Targets |-> NoRun]
    /\ host = [t \in Targets |-> "before"]
    /\ observed = [t \in Targets |-> "before"]
    /\ call = [r \in Runs |-> "idle"]
    /\ sends = [r \in Runs |-> 0]
    /\ undo = [r \in Runs |-> "idle"]
    /\ undoFrom = [r \in Runs |-> "before"]
    /\ pc = [q \in Requests |-> "idle"]
    /\ job = [q \in Requests |-> NoRun]
    /\ seen = [q \in Requests |-> "preview"]
    /\ got = [q \in Requests |-> "none"]
    /\ phase = "up"
    /\ crashes = 0
    /\ moves = 0

-----------------------------------------------------------------------------
(* Helpers *)

\* The handler of q continues at `next`, holding nothing new in memory.
Goto(q, next) ==
    /\ pc' = [pc EXCEPT ![q] = next]
    /\ UNCHANGED <<job, seen, got>>

\* The handler continues at `next` with the answer `a`.
Hold(q, next, a) ==
    /\ pc' = [pc EXCEPT ![q] = next]
    /\ got' = [got EXCEPT ![q] = a]
    /\ UNCHANGED <<job, seen>>

\* The request is over, whether it was answered or raised.
Return(q) ==
    /\ pc' = [pc EXCEPT ![q] = "idle"]
    /\ job' = [job EXCEPT ![q] = NoRun]
    /\ seen' = [seen EXCEPT ![q] = "preview"]
    /\ got' = [got EXCEPT ![q] = "none"]

\* WriteLockRepository.release: DELETE ... WHERE run_id = r.
Released(r) == [t \in Targets |-> IF lock[t] = r THEN NoRun ELSE lock[t]]

\* Does _plan_now come out as the published document? The plan was made
\* against "before"; the newest stored observation is what it is redone from.
PlanStands(r) == observed[Target[r]] = "before"

\* Both authorities the published plan requires are on record and unspent.
Authorised(r) ==
    /\ conf[r] = "granted"
    /\ r \in Overridden => override[r] = "granted"

\* The triggers and the UNIQUE run_id of INSERT INTO changes.
ChangeInsertAllowed(r) ==
    /\ result[r] = "none"
    /\ conf[r] = "spent"
    /\ r \in Overridden => override[r] = "spent"
    /\ r \in Fields => r \in checkpoint

\* The state the pending step of a handler moves its Run to.
StepTo(at) ==
    CASE at = "awaiting" -> "awaiting_confirmation"
      [] at = "consume"  -> "arming"
      [] at = "cross"    -> "applying"
      [] at = "verify"   -> "verifying"
      [] at = "rollback" -> "rolling_back"
      [] at = "rbverify" -> "rollback_verifying"
      [] at = "prepare"  -> "failed"
      [] OTHER           -> at

(* Would the store commit the step pending at q? set_state rewrites the Run *)
(* row and the CHECKs are evaluated on the result; a violation is an        *)
(* IntegrityError, which no handler catches.                                *)
StoreAccepts(q) ==
    LET r == job[q] IN
    CASE pc[q] = "consume" ->
            r \in Fields => RunRowAllowed(state[r], "arming", effect[r])
      [] pc[q] = "prepare" -> RunRowAllowed(state[r], "failed", "none")
      [] pc[q] = "cross" ->
            /\ RunRowAllowed(state[r], "applying", effect[r])
            /\ ChangeInsertAllowed(r)
      [] pc[q] = "settle" ->
            RunRowAllowed(state[r], state[r], HostEffectFor(got[q]))
      [] pc[q] \in Endings ->
            /\ RunRowAllowed(state[r], pc[q], HostEffectFor(mutation[r]))
            /\ ChangeRowAllowed(pc[q], mutation[r], verification[r], restored[r])
      [] pc[q] \in {"awaiting", "verify", "rollback", "rbverify"} ->
            RunRowAllowed(state[r], StepTo(pc[q]), effect[r])
      [] OTHER -> TRUE

\* A _step that moves the Run's state and nothing else modelled.
MoveState(q, next) ==
    /\ StoreAccepts(q)
    /\ state' = [state EXCEPT ![job[q]] = StepTo(pc[q])]
    /\ Goto(q, next)

-----------------------------------------------------------------------------
(* Planning, confirming, cancelling *)

\* RunService.create: publish a plan for a target that is not as desired.
Create(r) ==
    /\ phase = "up"
    /\ state[r] = "absent"
    /\ PlanStands(r)
    /\ state' = [state EXCEPT ![r] = "preview"]
    /\ UNCHANGED <<effect, conf, override, checkpoint, result, mutation,
                   verification, rollback, restored, lock, world, thread,
                   phase, bounds>>

\* A request arrives: the checks its handler makes before its transaction.
Arrive(q, r, at) ==
    /\ phase = "up"
    /\ pc[q] = "idle"
    /\ state[r] \in Appliable
    /\ pc' = [pc EXCEPT ![q] = at]
    /\ job' = [job EXCEPT ![q] = r]
    /\ seen' = [seen EXCEPT ![q] = state[r]]
    /\ UNCHANGED got

\* ChangeService.confirm up to and including _plan_now. Reads only.
ConfirmBegin(q, r) ==
    /\ Arrive(q, r, "confirm")
    /\ PlanStands(r)
    /\ UNCHANGED <<rows, world, phase, bounds>>

\* ... and its transaction, which re-checks only that no confirmation exists.
Confirm(q) ==
    /\ pc[q] = "confirm"
    /\ conf' = [conf EXCEPT ![job[q]] = IF @ = "none" THEN "granted" ELSE @]
    /\ Return(q)
    /\ UNCHANGED <<state, effect, override, checkpoint, result, mutation,
                   verification, rollback, restored, lock, world, phase, bounds>>

\* grant_self_impact_override, in the same two parts.
OverrideBegin(q, r) ==
    /\ r \in Overridden
    /\ Arrive(q, r, "override")
    /\ PlanStands(r)
    /\ UNCHANGED <<rows, world, phase, bounds>>

Override(q) ==
    /\ pc[q] = "override"
    /\ override' = [override EXCEPT ![job[q]] = IF @ = "none" THEN "granted" ELSE @]
    /\ Return(q)
    /\ UNCHANGED <<state, effect, conf, checkpoint, result, mutation,
                   verification, rollback, restored, lock, world, phase, bounds>>

\* Faulty variant of Cancel: the state is not checked inside the transaction.
CancelUnchecked(r) ==
    /\ phase = "up"
    /\ state[r] # "absent"
    /\ state' = [state EXCEPT ![r] = "cancelled"]
    /\ UNCHANGED <<effect, conf, override, checkpoint, result, mutation,
                   verification, rollback, restored, lock, world, thread,
                   phase, bounds>>

\* RunService.cancel: one transaction, which neither reads nor frees the lock.
Cancel(r) ==
    /\ phase = "up"
    /\ state[r] \in Appliable
    /\ state' = [state EXCEPT ![r] = "cancelled"]
    /\ UNCHANGED <<effect, conf, override, checkpoint, result, mutation,
                   verification, rollback, restored, lock, world, thread,
                   phase, bounds>>

-----------------------------------------------------------------------------
(* ChangeService.apply up to the boundary *)

\* _acquire. A Run that already holds its lock is let in again.
Acquire(q, r) ==
    /\ ConcurrentApplies \/ \A p \in Requests : job[p] # r \/ pc[p] \notin Applying
    /\ lock[Target[r]] \in {NoRun, r}
    /\ Arrive(q, r, "plan")
    /\ lock' = [lock EXCEPT ![Target[r]] = r]
    /\ UNCHANGED <<state, effect, conf, override, checkpoint, result, mutation,
                   verification, rollback, restored, world, phase, bounds>>

\* _require_target, _require_executable_preview and _plan_now. The gates on
\* this request's own evidence (management path, lifecycle context) may refuse
\* a plan that still stands.
Plan(q) ==
    /\ pc[q] = "plan"
    /\ \/ /\ PlanStands(job[q])
          /\ Goto(q, IF seen[q] = "preview" THEN "awaiting" ELSE "consume")
       \/ Goto(q, "refuse")
    /\ UNCHANGED <<rows, world, phase, bounds>>

\* _consume_confirmation's own first commit, on the state `_acquire` saw.
AwaitConfirmation(q) ==
    /\ pc[q] = "awaiting"
    /\ MoveState(q, "consume")
    /\ UNCHANGED <<effect, conf, override, checkpoint, result, mutation,
                   verification, rollback, restored, lock, world, phase, bounds>>

\* _consume_confirmation and _consume_self_impact_override, one transaction.
Consume(q) ==
    LET r == job[q] IN
    /\ pc[q] = "consume"
    /\ Authorised(r)
    /\ StoreAccepts(q)
    /\ conf' = [conf EXCEPT ![r] = "spent"]
    /\ override' = [override EXCEPT ![r] = IF r \in Overridden THEN "spent" ELSE @]
    /\ state' = [state EXCEPT ![r] = IF r \in Fields THEN "arming" ELSE @]
    /\ Goto(q, "prepare")
    /\ UNCHANGED <<effect, checkpoint, result, mutation, verification,
                   rollback, restored, lock, world, phase, bounds>>

\* The same transaction raising RunRefused.
ConsumeRefuses(q) ==
    /\ pc[q] = "consume"
    /\ ~Authorised(job[q])
    /\ Goto(q, "refuse")
    /\ UNCHANGED <<rows, world, phase, bounds>>

\* apply's refusal handler: append the event and release the Run's lock.
Refuse(q) ==
    /\ pc[q] = "refuse"
    /\ lock' = Released(job[q])
    /\ Return(q)
    /\ UNCHANGED <<state, effect, conf, override, checkpoint, result, mutation,
                   verification, rollback, restored, world, phase, bounds>>

\* _prepare: _arm writes the checkpoint of a field Run; _correlate writes
\* nothing but an event.
Prepare(q) ==
    /\ pc[q] = "prepare"
    /\ checkpoint' = checkpoint \cup ({job[q]} \cap Fields)
    /\ Goto(q, "cross")
    /\ UNCHANGED <<state, effect, conf, override, result, mutation,
                   verification, rollback, restored, lock, world, phase, bounds>>

\* _arm or _correlate fails: the Run ends before the boundary.
PrepareFails(q) ==
    LET r == job[q] IN
    /\ pc[q] = "prepare"
    /\ StoreAccepts(q)
    /\ state' = [state EXCEPT ![r] = "failed"]
    /\ effect' = [effect EXCEPT ![r] = "none"]
    /\ lock' = Released(r)
    /\ Return(q)
    /\ UNCHANGED <<conf, override, checkpoint, result, mutation, verification,
                   rollback, restored, world, phase, bounds>>

\* _cross: the write boundary. The Change exists and nothing was dispatched.
Cross(q) ==
    LET r == job[q] IN
    /\ pc[q] = "cross"
    /\ MoveState(q, "dispatch")
    /\ result' = [result EXCEPT ![r] = "in_flight"]
    /\ mutation' = [mutation EXCEPT ![r] = "undispatched"]
    /\ UNCHANGED <<effect, conf, override, checkpoint, verification, rollback,
                   restored, lock, world, phase, bounds>>

-----------------------------------------------------------------------------
(* Dispatching the mutation and recording what came back *)

\* _dispatch's commit: the dispatch marker, before anything is sent.
Dispatch(q) ==
    /\ pc[q] = "dispatch"
    /\ mutation' = [mutation EXCEPT ![job[q]] = "dispatched"]
    /\ Goto(q, "mutate")
    /\ UNCHANGED <<state, effect, conf, override, checkpoint, result,
                   verification, rollback, restored, lock, world, phase, bounds>>

\* executor.mutate: the request leaves this process.
Send(q) ==
    /\ pc[q] = "mutate"
    /\ call' = [call EXCEPT ![job[q]] = "sent"]
    /\ sends' = [sends EXCEPT ![job[q]] = @ + 1]
    /\ Goto(q, "wait")
    /\ UNCHANGED <<rows, host, observed, undo, undoFrom, phase, bounds>>

\* AgentError with dispatched = False: it never left.
NotSent(q) ==
    /\ pc[q] = "mutate"
    /\ Hold(q, "settle", "not_written")
    /\ UNCHANGED <<rows, world, phase, bounds>>

(* The agent carries the request out, at any time after it was sent: the    *)
(* caller may have timed out or died. An MTU write compares before it sets  *)
(* (helper/mtu.py), and the kernel may still reject it; an action carries   *)
(* no precondition and may be refused by its daemon.                        *)
Land(r) ==
    LET t == Target[r] IN
    /\ call[r] = "sent"
    /\ \/ /\ r \in Fields => host[t] = "before"
          /\ host' = [host EXCEPT ![t] = "desired"]
          /\ call' = [call EXCEPT ![r] = "written"]
       \/ /\ call' = [call EXCEPT ![r] = "not_written"]
          /\ UNCHANGED host
    /\ UNCHANGED <<rows, observed, sends, undo, undoFrom, thread, phase, bounds>>

\* Faulty variant of AnswerTo: a call that timed out is read as not written.
AnswerToTimeoutAsFailure(message) ==
    ({message} \cap {"written", "not_written"}) \cup {"not_written"}

\* The answer to a message as its sender reads it: what happened, or
\* write_unknown when the call timed out, the agent could not say, or its
\* answer was unreadable.
AnswerTo(message) == ({message} \cap {"written", "not_written"}) \cup {"write_unknown"}

\* Faulty variant of Answer: a call that timed out is made again.
AnswerRetrying(q) ==
    /\ pc[q] = "wait"
    /\ \E a \in AnswerTo(call[job[q]]) :
          Hold(q, IF a = "write_unknown" THEN "mutate" ELSE "settle", a)
    /\ UNCHANGED <<rows, world, phase, bounds>>

\* executor.mutate returns.
Answer(q) ==
    /\ pc[q] = "wait"
    /\ \E a \in AnswerTo(call[job[q]]) : Hold(q, "settle", a)
    /\ UNCHANGED <<rows, world, phase, bounds>>

\* Where apply goes with a settled outcome.
AfterSettle(r, outcome) ==
    CASE outcome = "not_written" -> "failed"
      [] outcome = "written"     -> "verify"
      [] OTHER                   -> IF r \in Fields THEN "rollback"
                                    ELSE "recovery_required"

\* _settle: the outcome and the effect it allows, on the Run and the Change.
Settle(q) ==
    LET r == job[q] IN
    /\ pc[q] = "settle"
    /\ StoreAccepts(q)
    /\ mutation' = [mutation EXCEPT ![r] = got[q]]
    /\ effect' = [effect EXCEPT ![r] = HostEffectFor(got[q])]
    /\ Goto(q, AfterSettle(r, got[q]))
    /\ UNCHANGED <<state, conf, override, checkpoint, result, verification,
                   rollback, restored, lock, world, phase, bounds>>

-----------------------------------------------------------------------------
(* Verifying and rolling back *)

\* _verify's first commit.
VerifyStart(q) ==
    /\ pc[q] = "verify"
    /\ MoveState(q, "vread")
    /\ UNCHANGED <<effect, conf, override, checkpoint, result, mutation,
                   verification, rollback, restored, lock, world, phase, bounds>>

\* executor.observe succeeds: a sweep stores what the host holds.
Reading(t) == observed' = [observed EXCEPT ![t] = host[t]]

(* _read_back against an expectation: verified, mismatch, or no usable      *)
(* reading at all. The reading goes through the ordinary observation path   *)
(* and is stored there.                                                     *)
ReadBack(q, expected, next) ==
    LET t == Target[job[q]] IN
    /\ \/ /\ Reading(t)
          /\ Hold(q, next, IF host[t] = expected THEN "verified" ELSE "mismatch")
       \/ /\ Hold(q, next, "unavailable")
          /\ UNCHANGED observed
    /\ UNCHANGED <<rows, host, call, sends, undo, undoFrom, phase, bounds>>

VerifyRead(q) ==
    /\ pc[q] = "vread"
    /\ ReadBack(q, "desired", "vresult")

\* _verify's second commit, then apply's choice: success, or _unproven.
VerifyResult(q) ==
    LET r == job[q] IN
    /\ pc[q] = "vresult"
    /\ verification' = [verification EXCEPT ![r] = got[q]]
    /\ Goto(q, IF got[q] = "verified" THEN "succeeded"
               ELSE IF r \in Fields THEN "rollback" ELSE "recovery_required")
    /\ UNCHANGED <<state, effect, conf, override, checkpoint, result, mutation,
                   rollback, restored, lock, world, phase, bounds>>

\* _roll_back's first commit.
RollBack(q) ==
    /\ pc[q] = "rollback"
    /\ MoveState(q, "rbread")
    /\ rollback' = [rollback EXCEPT ![job[q]] = "required"]
    /\ UNCHANGED <<effect, conf, override, checkpoint, result, mutation,
                   verification, restored, lock, world, phase, bounds>>

\* The reading that becomes the restoration's precondition. No value: recovery.
RollBackRead(q) ==
    LET t == Target[job[q]] IN
    /\ pc[q] = "rbread"
    /\ \/ /\ Reading(t)
          /\ Hold(q, "rbmark", host[t])
       \/ /\ Goto(q, "recovery_required")
          /\ UNCHANGED observed
    /\ UNCHANGED <<rows, host, call, sends, undo, undoFrom, phase, bounds>>

\* The restoration's own dispatch marker.
RollBackMark(q) ==
    /\ pc[q] = "rbmark"
    /\ rollback' = [rollback EXCEPT ![job[q]] = "dispatched"]
    /\ Goto(q, "rbmutate")
    /\ UNCHANGED <<state, effect, conf, override, checkpoint, result, mutation,
                   verification, restored, lock, world, phase, bounds>>

\* The restoration is sent, or fails before it leaves.
RollBackSend(q) ==
    LET r == job[q] IN
    /\ pc[q] = "rbmutate"
    /\ \/ /\ undo' = [undo EXCEPT ![r] = "sent"]
          /\ undoFrom' = [undoFrom EXCEPT ![r] = got[q]]
          /\ Goto(q, "rbwait")
       \/ /\ Hold(q, "rbresult", "not_written")
          /\ UNCHANGED <<undo, undoFrom>>
    /\ UNCHANGED <<rows, host, observed, call, sends, phase, bounds>>

\* The helper carries the restoration out. It refuses to write the value it
\* expects to find (desired_equals_current) and any value it does not.
RollBackLand(r) ==
    LET t == Target[r] IN
    /\ undo[r] = "sent"
    /\ \/ /\ host[t] = undoFrom[r]
          /\ undoFrom[r] # "before"
          /\ host' = [host EXCEPT ![t] = "before"]
          /\ undo' = [undo EXCEPT ![r] = "written"]
       \/ /\ undo' = [undo EXCEPT ![r] = "not_written"]
          /\ UNCHANGED host
    /\ UNCHANGED <<rows, observed, call, sends, undoFrom, thread, phase, bounds>>

RollBackAnswer(q) ==
    /\ pc[q] = "rbwait"
    /\ \E a \in AnswerTo(undo[job[q]]) : Hold(q, "rbresult", a)
    /\ UNCHANGED <<rows, world, phase, bounds>>

\* The restoration's outcome. write_unknown is never followed by a reading.
RollBackResult(q) ==
    /\ pc[q] = "rbresult"
    /\ rollback' = [rollback EXCEPT ![job[q]] = got[q]]
    /\ Goto(q, IF got[q] = "write_unknown" THEN "recovery_required" ELSE "rbverify")
    /\ UNCHANGED <<state, effect, conf, override, checkpoint, result, mutation,
                   verification, restored, lock, world, phase, bounds>>

RollBackVerifyStart(q) ==
    /\ pc[q] = "rbverify"
    /\ MoveState(q, "rbvread")
    /\ UNCHANGED <<effect, conf, override, checkpoint, result, mutation,
                   verification, rollback, restored, lock, world, phase, bounds>>

RollBackVerifyRead(q) ==
    /\ pc[q] = "rbvread"
    /\ ReadBack(q, "before", "rbvresult")

RollBackVerifyResult(q) ==
    /\ pc[q] = "rbvresult"
    /\ restored' = [restored EXCEPT ![job[q]] = got[q]]
    /\ Goto(q, IF got[q] = "verified" THEN "rolled_back" ELSE "recovery_required")
    /\ UNCHANGED <<state, effect, conf, override, checkpoint, result, mutation,
                   verification, rollback, lock, world, phase, bounds>>

-----------------------------------------------------------------------------
(* Endings *)

\* Faulty variants of End: the lock is released whatever the ending; never
\* released.
EndReleasingAlways(r, ending) ==
    /\ state' = [state EXCEPT ![r] = ending]
    /\ effect' = [effect EXCEPT ![r] = HostEffectFor(mutation[r])]
    /\ result' = [result EXCEPT ![r] = ending]
    /\ lock' = Released(r)
    /\ UNCHANGED <<conf, override, checkpoint, mutation, verification, rollback,
                   restored>>

EndHoldingAlways(r, ending) ==
    /\ state' = [state EXCEPT ![r] = ending]
    /\ effect' = [effect EXCEPT ![r] = HostEffectFor(mutation[r])]
    /\ result' = [result EXCEPT ![r] = ending]
    /\ UNCHANGED <<conf, override, checkpoint, mutation, verification, rollback,
                   restored, lock>>

\* _finish: Run and Change end together; only recovery_required keeps the lock.
End(r, ending) ==
    /\ state' = [state EXCEPT ![r] = ending]
    /\ effect' = [effect EXCEPT ![r] = HostEffectFor(mutation[r])]
    /\ result' = [result EXCEPT ![r] = ending]
    /\ lock' = IF ending = "recovery_required" THEN lock ELSE Released(r)
    /\ UNCHANGED <<conf, override, checkpoint, mutation, verification, rollback,
                   restored>>

\* _finish or _recover, called by a request.
Finish(q) ==
    /\ pc[q] \in Endings
    /\ StoreAccepts(q)
    /\ End(job[q], pc[q])
    /\ Return(q)
    /\ UNCHANGED <<world, phase, bounds>>

(* The pending transaction violates a CHECK: it is rolled back and the      *)
(* IntegrityError ends the request. It is not a RunRefused, so the refusal  *)
(* handler does not run and the lock stays where it is.                     *)
StoreRefuses(q) ==
    /\ pc[q] = "consume" => Authorised(job[q])
    /\ pc[q] # "idle"
    /\ ~StoreAccepts(q)
    /\ Return(q)
    /\ UNCHANGED <<rows, world, phase, bounds>>

-----------------------------------------------------------------------------
(* Death and restart of the backend; app.py settles before it serves *)

Crash ==
    /\ phase # "down"
    /\ crashes < MaxCrashes
    /\ phase' = "down"
    /\ crashes' = crashes + 1
    /\ pc' = [q \in Requests |-> "idle"]
    /\ job' = [q \in Requests |-> NoRun]
    /\ seen' = [q \in Requests |-> "preview"]
    /\ got' = [q \in Requests |-> "none"]
    /\ UNCHANGED <<rows, world, moves>>

Restart ==
    /\ phase = "down"
    /\ phase' = "settling"
    /\ UNCHANGED <<rows, world, thread, bounds>>

\* Faulty variant of Interrupted: only a dispatched Change is looked at.
InterruptedDispatched(r) == result[r] = "in_flight" /\ mutation[r] # "undispatched"

\* A Change settle_interrupted has to interpret. Where a CHECK refuses the row it
\* would write, the transaction raises, startup exits having changed nothing and is
\* tried again: settlement does not get past that Change.
Interrupted(r) == result[r] = "in_flight"

\* Faulty variant of SettleOutcome: a recorded outcome gets a second opinion.
SettleOutcomeAgain(r) ==
    LET outcome == OutcomeOnRecovery("dispatched") IN
    /\ phase = "settling"
    /\ Interrupted(r)
    /\ RunRowAllowed(state[r], state[r], HostEffectFor(outcome))
    /\ mutation' = [mutation EXCEPT ![r] = outcome]
    /\ effect' = [effect EXCEPT ![r] = HostEffectFor(outcome)]
    /\ UNCHANGED <<state, conf, override, checkpoint, result, verification,
                   rollback, restored, lock, world, thread, phase, bounds>>

\* settle_interrupted for a Change with no recorded outcome.
SettleOutcome(r) ==
    LET outcome == OutcomeOnRecovery(mutation[r]) IN
    /\ phase = "settling"
    /\ Interrupted(r)
    /\ mutation[r] \notin MutationOutcomes
    /\ RunRowAllowed(state[r], state[r], HostEffectFor(outcome))
    /\ mutation' = [mutation EXCEPT ![r] = outcome]
    /\ effect' = [effect EXCEPT ![r] = HostEffectFor(outcome)]
    /\ UNCHANGED <<state, conf, override, checkpoint, result, verification,
                   rollback, restored, lock, world, thread, phase, bounds>>

\* Where settle_interrupted ends a Run whose outcome is on disk.
SettledEnding(r) ==
    CASE mutation[r] = "not_written" -> "failed"
      [] mutation[r] = "written" /\ verification[r] = "verified" -> "succeeded"
      [] OTHER -> "recovery_required"

SettleFinish(r) ==
    /\ phase = "settling"
    /\ Interrupted(r)
    /\ mutation[r] \in MutationOutcomes
    /\ RunRowAllowed(state[r], SettledEnding(r), HostEffectFor(mutation[r]))
    /\ End(r, SettledEnding(r))
    /\ UNCHANGED <<world, thread, phase, bounds>>

\* Faulty variant of SettleDone: the backend serves before it has settled.
SettleDoneEarly ==
    /\ phase = "settling"
    /\ phase' = "up"
    /\ UNCHANGED <<rows, world, thread, bounds>>

SettleDone ==
    /\ phase = "settling"
    /\ \A r \in Runs : ~Interrupted(r)
    /\ phase' = "up"
    /\ UNCHANGED <<rows, world, thread, bounds>>

-----------------------------------------------------------------------------
(* The host and the sweep *)

\* Somebody else changes the host.
HostMoves(t) ==
    /\ moves < MaxMoves
    /\ moves' = moves + 1
    /\ \E v \in Values \ {host[t]} : host' = [host EXCEPT ![t] = v]
    /\ UNCHANGED <<rows, observed, call, sends, undo, undoFrom, thread, phase, crashes>>

\* The ordinary observation sweep stores what the host holds.
Observe(t) ==
    /\ phase = "up"
    /\ Reading(t)
    /\ UNCHANGED <<rows, host, call, sends, undo, undoFrom, thread, phase, bounds>>

-----------------------------------------------------------------------------

\* One step of the handler serving request q.
Handle(q) ==
    \/ Confirm(q) \/ Override(q)
    \/ Plan(q) \/ AwaitConfirmation(q) \/ Consume(q) \/ ConsumeRefuses(q) \/ Refuse(q)
    \/ Prepare(q) \/ PrepareFails(q) \/ Cross(q)
    \/ Dispatch(q) \/ Send(q) \/ NotSent(q) \/ Answer(q) \/ Settle(q)
    \/ VerifyStart(q) \/ VerifyRead(q) \/ VerifyResult(q)
    \/ RollBack(q) \/ RollBackRead(q) \/ RollBackMark(q) \/ RollBackSend(q)
    \/ RollBackAnswer(q) \/ RollBackResult(q)
    \/ RollBackVerifyStart(q) \/ RollBackVerifyRead(q) \/ RollBackVerifyResult(q)
    \/ Finish(q) \/ StoreRefuses(q)

SettleStep == SettleDone \/ \E r \in Runs : SettleOutcome(r) \/ SettleFinish(r)

Next ==
    \/ \E q \in Requests : Handle(q)
    \/ \E q \in Requests, r \in Runs :
          ConfirmBegin(q, r) \/ OverrideBegin(q, r) \/ Acquire(q, r)
    \/ \E r \in Runs : Create(r) \/ Cancel(r) \/ Land(r) \/ RollBackLand(r)
    \/ Crash \/ Restart \/ SettleStep
    \/ \E t \in Targets : HostMoves(t) \/ Observe(t)

Spec == Init /\ [][Next]_vars

(* A started handler runs to its end (every agent call has a timeout, every *)
(* transaction is short), the service manager restarts the backend, and     *)
(* startup settles before it serves. Nothing obliges a client to ask, the   *)
(* agent to carry a request out, or the host to hold still.                 *)
Fairness ==
    /\ \A q \in Requests : WF_vars(Handle(q))
    /\ WF_vars(Restart)
    /\ WF_vars(SettleStep)

FairSpec == Spec /\ Fairness

-----------------------------------------------------------------------------
(* Properties *)

\* What a Change records about its mutation is what became of the message,
\* through timeouts, late landings and crashes: `written` only if it was
\* carried out, `not_written` only if it was not and no longer can be
\* (_settle, outcome_on_recovery).
OutcomeIsTruthful ==
    \A r \in Runs :
        /\ mutation[r] = "written" => call[r] = "written"
        /\ mutation[r] = "not_written" => call[r] \in {"idle", "not_written"}

\* One confirmation, and one override where the plan rests on it, authorise at
\* most one dispatch, and a field is dispatched only with its checkpoint on
\* disk (_consume_confirmation, _prepare, _dispatch), through retries of an apply
\* and restarts; where ConcurrentApplies, through applies that overlap as well.
OneDispatchPerAuthority ==
    \A r \in Runs :
        /\ sends[r] <= 1
        /\ sends[r] > 0 =>
              /\ conf[r] = "spent"
              /\ r \in Overridden => override[r] = "spent"
              /\ r \in Fields => r \in checkpoint

\* A Run that ended `failed` or `cancelled` changed nothing, has not changed
\* anything since, and cannot any more (PrepareFails, _finish, cancel).
FailureTouchedNothing ==
    \A r \in Runs :
        state[r] \in {"failed", "cancelled"} => call[r] \in {"idle", "not_written"}

\* The write lock is held from the boundary to the ending, and through it where
\* the ending is recovery_required, crash or no crash (_acquire, _finish).
LockCoversWindow ==
    \A r \in Runs :
        result[r] = "in_flight" \/ state[r] = "recovery_required" => lock[Target[r]] = r

\* A lock that no live handler is working under is a recovery hold, or belongs
\* to a Run interrupted before the boundary: every crossed Run whose backend is
\* up has either released its target or admitted that it cannot.
IdleLockIsBeforeBoundary ==
    \A t \in Targets :
        (phase = "up" /\ lock[t] # NoRun /\ \A q \in Requests : job[q] # lock[t])
        => \/ state[lock[t]] = "recovery_required"
           \/ result[lock[t]] = "none" /\ sends[lock[t]] = 0

\* A recorded outcome is never rewritten, by a later step of its own handler,
\* by another request or by settlement on restart (settle_interrupted).
RecordedOutcomeStands ==
    [][\A r \in Runs : mutation[r] \in MutationOutcomes => mutation'[r] = mutation[r]]_vars

\* A Run that has ended stays ended (TERMINAL_RUN_STATES).
EndedStaysEnded ==
    [][\A r \in Runs :
          state[r] \in Endings \cup {"cancelled"} => state'[r] = state[r]]_vars

\* A crossed Change reaches an ending, whatever the agent, the host or a crash
\* does: nothing stays in flight for ever (apply, settle_interrupted).
CrossedEnds ==
    \A r \in Runs : (result[r] = "in_flight") ~> (result[r] # "in_flight")

\* "One mutating Run at a time per object and controlled field, enforced by the
\* database" (0007_write_boundary.sql); "A second concurrent apply against the
\* same object and field is refused" (routes.py apply_run).
ExclusiveMutation ==
    \A r, s \in Runs :
        r # s /\ Target[r] = Target[s] => ~(result[r] = "in_flight" /\ result[s] = "in_flight")

=============================================================================
