--------------------------- MODULE GuardedChange ---------------------------
(***************************************************************************)
(* A guarded change: a Run whose target carries the operator's own         *)
(* connection. Before the write the backend (backend/changes.py) has the   *)
(* agent (agent/guard.py, GuardRegistry) hold a timed reversal; after it   *)
(* the Run waits in `guarded` until a request proves the connection        *)
(* (guard_keep), or the timer fires and puts the old value back.           *)
(*                                                                         *)
(* Three processes share nothing but messages: the backend and its store,  *)
(* the agent and its in-memory registry, and the privileged helper that    *)
(* carries the writes out. Each may stall, the first two may die.          *)
(*                                                                         *)
(* All Runs change one interface, from "before" to "desired". A handler is *)
(* a Run (its apply) or a settler: a keeper (a guard_keep request) or Boot *)
(* (settle_interrupted_guards at startup). pc is where it stands, job the  *)
(* Run a settler serves, got and told the last answer it holds (a report's *)
(* phase and reversal outcome), proof whether its request proved the path. *)
(* What happens before the guard is asked for is module ChangeEngine.      *)
(***************************************************************************)
EXTENDS Naturals, Lifecycle

CONSTANTS
    Runs,              \* guarded Runs, all for the same interface
    Keepers,           \* threads serving guard_keep
    Boot,              \* the startup settlement
    NoRun,             \* nobody
    MaxCrashes,        \* bound on backend crashes
    MaxAgentRestarts,  \* bound on agent restarts
    MaxMoves           \* bound on changes to the interface by others

ASSUME GuardAssumption ==
    /\ Runs \cap Keepers = {}
    /\ Boot \notin Runs \cup Keepers
    /\ NoRun \notin Runs
    /\ MaxCrashes \in Nat
    /\ MaxAgentRestarts \in Nat
    /\ MaxMoves \in Nat

VARIABLES
    state, effect,                    \* the Run row
    result, mutation, verification,   \* the Change row
    rollback, restored,
    lock,        \* the Run holding the interface's write lock
    armed,       \* run_guards: none, asked (arm_began_at), armed (armed_at)
    settled,     \* run_guards.settled_phase, "none" while NULL
    kept,        \* run_guards.kept_at
    reversal,    \* run_guards.reversal_outcome
    host,        \* the interface's MTU
    observed,    \* the newest stored observation of it
    call,        \* the apply message to the helper
    undo, undoFrom,  \* the backend's restoration and its precondition
    rev,         \* the guard's reversal message
    guard,       \* the agent's registry
    verdict,     \* what the agent learned of the reversal
    mail,        \* requests the agent has not served yet
    pc, job, got, told, proof,
    phase,       \* the backend process: up, down, settling
    asked,       \* the guards this startup has asked about
    crashes, restarts, moves

runRows   == <<state, effect, result, mutation, verification, rollback, restored, lock>>
guardRows == <<armed, settled, kept, reversal>>
rows      == <<runRows, guardRows>>
wire      == <<host, observed, call, undo, undoFrom, rev>>
agent     == <<guard, verdict, mail>>
thread    == <<pc, job, got, told, proof>>
process   == <<phase, asked, crashes>>
bounds    == <<restarts, moves>>
vars      == <<rows, wire, agent, thread, process, bounds>>

Settlers == Keepers \cup {Boot}
Handlers == Runs \cup Settlers
Values   == {"before", "desired", "other"}
Messages == {"idle", "sent", "written", "not_written"}
\* GuardPhase as a report may carry it, and the two answers to an arming.
Phases   == {"armed", "disarmed", "fired", "lost", "unreachable"}
Held     == {"absent", "armed", "firing", "fired", "disarmed"}
Requests == [from : Handlers, kind : {"arm", "disarm", "status"}, run : Runs,
             proved : BOOLEAN]
Endings  == {"failed", "succeeded", "rolled_back", "recovery_required"}
Places   == Endings \cup
            {"idle", "arm", "armwait", "confirmed", "abandon", "abandonwait",
             "abandonrow", "abandonfail", "cross", "dispatch", "mutate", "wait",
             "settle", "verify", "vread", "vresult", "hold", "rollback", "rbread",
             "rbmark", "rbmutate", "rbwait", "rbresult", "rbverify", "rbvread",
             "rbvresult", "release", "releasewait", "record", "ask", "askwait",
             "answered", "keep", "rolling", "rolled", "lapsed"}

TypeOK ==
    /\ state \in [Runs -> RunStates]
    /\ effect \in [Runs -> HostEffects]
    /\ result \in [Runs -> Results]
    /\ mutation \in [Runs -> MutationColumn]
    /\ verification \in [Runs -> Judgements \cup {"not_attempted"}]
    /\ rollback \in [Runs -> {"idle", "required", "dispatched"} \cup MutationOutcomes]
    /\ restored \in [Runs -> Judgements \cup {"not_attempted"}]
    /\ lock \in Runs \cup {NoRun}
    /\ armed \in [Runs -> {"none", "asked", "armed"}]
    /\ settled \in [Runs -> {"none", "disarmed", "fired", "lost", "unreachable"}]
    /\ kept \in SUBSET Runs
    /\ reversal \in [Runs -> MutationOutcomes \cup {"none"}]
    /\ host \in Values
    /\ observed \in Values
    /\ call \in [Runs -> Messages]
    /\ undo \in [Runs -> Messages]
    /\ undoFrom \in [Runs -> Values]
    /\ rev \in [Runs -> Messages]
    /\ guard \in [Runs -> Held]
    /\ verdict \in [Runs -> MutationOutcomes \cup {"none"}]
    /\ mail \in SUBSET Requests
    /\ pc \in [Handlers -> Places]
    /\ job \in [Settlers -> Runs \cup {NoRun}]
    /\ got \in [Handlers -> Phases \cup MutationOutcomes \cup Judgements \cup Values
                            \cup {"none"}]
    /\ told \in [Handlers -> MutationOutcomes \cup {"none"}]
    /\ proof \in [Settlers -> BOOLEAN]
    /\ phase \in {"up", "down", "settling"}
    /\ asked \in SUBSET Runs
    /\ crashes \in 0 .. MaxCrashes
    /\ restarts \in 0 .. MaxAgentRestarts
    /\ moves \in 0 .. MaxMoves

Init ==
    /\ state = [r \in Runs |-> "awaiting_confirmation"]
    /\ effect = [r \in Runs |-> "none"]
    /\ result = [r \in Runs |-> "none"]
    /\ mutation = [r \in Runs |-> "undispatched"]
    /\ verification = [r \in Runs |-> "not_attempted"]
    /\ rollback = [r \in Runs |-> "idle"]
    /\ restored = [r \in Runs |-> "not_attempted"]
    /\ lock = NoRun
    /\ armed = [r \in Runs |-> "none"]
    /\ settled = [r \in Runs |-> "none"]
    /\ kept = {}
    /\ reversal = [r \in Runs |-> "none"]
    /\ host = "before"
    /\ observed = "before"
    /\ call = [r \in Runs |-> "idle"]
    /\ undo = [r \in Runs |-> "idle"]
    /\ undoFrom = [r \in Runs |-> "before"]
    /\ rev = [r \in Runs |-> "idle"]
    /\ guard = [r \in Runs |-> "absent"]
    /\ verdict = [r \in Runs |-> "none"]
    /\ mail = {}
    /\ pc = [h \in Handlers |-> "idle"]
    /\ job = [s \in Settlers |-> NoRun]
    /\ got = [h \in Handlers |-> "none"]
    /\ told = [h \in Handlers |-> "none"]
    /\ proof = [s \in Settlers |-> FALSE]
    /\ phase = "up"
    /\ asked = {}
    /\ crashes = 0
    /\ restarts = 0
    /\ moves = 0

-----------------------------------------------------------------------------
(* Helpers *)

\* The Run a handler serves.
RunOf(h) == IF h \in Runs THEN h ELSE job[h]

Goto(h, next) ==
    /\ pc' = [pc EXCEPT ![h] = next]
    /\ UNCHANGED <<job, got, told, proof>>

Hold(h, next, answer) ==
    /\ pc' = [pc EXCEPT ![h] = next]
    /\ got' = [got EXCEPT ![h] = answer]
    /\ UNCHANGED <<job, told, proof>>

\* The request is over. A Run's apply answers once and is not asked again.
Return(h) ==
    /\ pc' = [pc EXCEPT ![h] = "idle"]
    /\ got' = [got EXCEPT ![h] = "none"]
    /\ told' = [told EXCEPT ![h] = "none"]
    /\ IF h \in Settlers
       THEN /\ job' = [job EXCEPT ![h] = NoRun]
            /\ proof' = [proof EXCEPT ![h] = FALSE]
       ELSE UNCHANGED <<job, proof>>

\* A step that moves the Run's state and no other row.
MoveState(h, to, next) ==
    /\ state' = [state EXCEPT ![RunOf(h)] = to]
    /\ Goto(h, next)
    /\ UNCHANGED <<effect, result, mutation, verification, restored, lock, guardRows,
                   wire, agent, process, bounds>>

\* Faulty variant of AnswerTo: a call that timed out is read as not written.
AnswerToTimeoutAsFailure(message) ==
    ({message} \cap {"written", "not_written"}) \cup {"not_written"}

\* What the helper's caller reads: what happened, or write_unknown.
AnswerTo(message) == ({message} \cap {"written", "not_written"}) \cup {"write_unknown"}

\* The CHECKs and the settle-once trigger of run_guards, for an UPDATE that
\* settles the guard of r in `to` with armed_at as `arm` says.
GuardRowAllowed(r, to, arm) ==
    /\ settled[r] = "none"
    /\ to = "fired" => arm = "armed"

-----------------------------------------------------------------------------
(* apply, from the consumed confirmation to the boundary *)

\* _acquire, _plan_now, _consume_confirmation, _arm and _arm_guard's insert: the
\* lock is held, the plan still stands on the stored observation, the Run is
\* arming, and run_guards says only that a guard was asked for. A death between
\* these commits is module ChangeEngine's subject.
Begin(r) ==
    /\ phase = "up"
    /\ pc[r] = "idle"
    /\ state[r] = "awaiting_confirmation"
    /\ lock = NoRun
    /\ observed = "before"
    /\ lock' = r
    /\ state' = [state EXCEPT ![r] = "arming"]
    /\ armed' = [armed EXCEPT ![r] = "asked"]
    /\ Goto(r, "arm")
    /\ UNCHANGED <<effect, result, mutation, verification, rollback, restored,
                   settled, kept, reversal, wire, agent, process, bounds>>

\* A request leaves for the agent. The handler waits at `next`.
SendTo(h, kind, next) ==
    /\ mail' = mail \cup {[from |-> h, kind |-> kind, run |-> RunOf(h),
                           proved |-> h \in Settlers /\ proof[h]]}
    /\ Goto(h, next)
    /\ UNCHANGED <<rows, wire, guard, verdict, process, bounds>>

\* executor.arm_guard.
ArmSend(r) == pc[r] = "arm" /\ SendTo(r, "arm", "armwait")

\* GuardRefused: it never left, it timed out, or the answer could not be read.
\* The request may still be on its way.
ArmUnheard(r) ==
    /\ pc[r] \in {"arm", "armwait"}
    /\ Goto(r, "abandon")
    /\ UNCHANGED <<rows, wire, agent, process, bounds>>

\* _arm_guard's second commit.
ArmConfirmed(r) ==
    /\ pc[r] = "confirmed"
    /\ armed' = [armed EXCEPT ![r] = "armed"]
    /\ Goto(r, "cross")
    /\ UNCHANGED <<runRows, settled, kept, reversal, wire, agent, process, bounds>>

\* _abandon_guard asks the holder to release whatever it may be holding.
AbandonSend(r) == pc[r] = "abandon" /\ SendTo(r, "disarm", "abandonwait")

\* Whatever it answered is the row's settlement, arming included.
AbandonRow(r) ==
    /\ pc[r] = "abandonrow"
    /\ settled' = [settled EXCEPT ![r] = got[r]]
    /\ armed' = [armed EXCEPT ![r] = IF got[r] \in {"disarmed", "fired"} THEN "armed" ELSE @]
    /\ reversal' = [reversal EXCEPT ![r] = told[r]]
    /\ Goto(r, "abandonfail")
    /\ UNCHANGED <<runRows, kept, wire, agent, process, bounds>>

\* ... and in a commit of its own the Run ends before the boundary.
AbandonFail(r) ==
    /\ pc[r] = "abandonfail"
    /\ state' = [state EXCEPT ![r] = "failed"]
    /\ lock' = IF lock = r THEN NoRun ELSE lock
    /\ Return(r)
    /\ UNCHANGED <<effect, result, mutation, verification, rollback, restored,
                   guardRows, wire, agent, process, bounds>>

\* Faulty variant of Cross: the boundary does not ask for a guard.
CrossUnguarded(r) ==
    /\ pc[r] \in {"cross", "abandon"}
    /\ state' = [state EXCEPT ![r] = "applying"]
    /\ result' = [result EXCEPT ![r] = "in_flight"]
    /\ Goto(r, "dispatch")
    /\ UNCHANGED <<effect, mutation, verification, rollback, restored, lock,
                   guardRows, wire, agent, process, bounds>>

\* _cross. The trigger on changes wants armed_at set and the guard unsettled.
Cross(r) ==
    /\ pc[r] = "cross"
    /\ armed[r] = "armed"
    /\ settled[r] = "none"
    /\ state' = [state EXCEPT ![r] = "applying"]
    /\ result' = [result EXCEPT ![r] = "in_flight"]
    /\ Goto(r, "dispatch")
    /\ UNCHANGED <<effect, mutation, verification, rollback, restored, lock,
                   guardRows, wire, agent, process, bounds>>

-----------------------------------------------------------------------------
(* apply past the boundary *)

\* _dispatch's marker.
Dispatch(r) ==
    /\ pc[r] = "dispatch"
    /\ mutation' = [mutation EXCEPT ![r] = "dispatched"]
    /\ Goto(r, "mutate")
    /\ UNCHANGED <<state, effect, result, verification, rollback, restored, lock,
                   guardRows, wire, agent, process, bounds>>

\* executor.mutate: sent, or known not to have left.
Send(r) ==
    /\ pc[r] = "mutate"
    /\ \/ call' = [call EXCEPT ![r] = "sent"] /\ Goto(r, "wait")
       \/ Hold(r, "settle", "not_written") /\ UNCHANGED call
    /\ UNCHANGED <<rows, host, observed, undo, undoFrom, rev, agent, process, bounds>>

Answer(r) ==
    /\ pc[r] = "wait"
    /\ \E a \in AnswerTo(call[r]) : Hold(r, "settle", a)
    /\ UNCHANGED <<rows, wire, agent, process, bounds>>

\* _settle, and where apply goes with the outcome.
Settle(r) ==
    /\ pc[r] = "settle"
    /\ mutation' = [mutation EXCEPT ![r] = got[r]]
    /\ effect' = [effect EXCEPT ![r] = HostEffectFor(got[r])]
    /\ Goto(r, IF got[r] = "not_written" THEN "failed"
               ELSE IF got[r] = "written" THEN "verify" ELSE "rollback")
    /\ UNCHANGED <<state, result, verification, rollback, restored, lock, guardRows,
                   wire, agent, process, bounds>>

VerifyStart(r) ==
    /\ pc[r] = "verify"
    /\ MoveState(r, "verifying", "vread")
    /\ UNCHANGED rollback

\* _read_back: a reading, stored and judged, or none that could be used.
ReadBack(h, expected, next) ==
    /\ \/ /\ observed' = host
          /\ Hold(h, next, IF host = expected THEN "verified" ELSE "mismatch")
       \/ /\ Hold(h, next, "unavailable")
          /\ UNCHANGED observed
    /\ UNCHANGED <<rows, host, call, undo, undoFrom, rev, agent, process, bounds>>

VerifyRead(r) ==
    /\ pc[r] = "vread"
    /\ ReadBack(r, "desired", "vresult")

\* A proved value is held for the connection's own proof; anything else undone.
VerifyResult(r) ==
    /\ pc[r] = "vresult"
    /\ verification' = [verification EXCEPT ![r] = got[r]]
    /\ Goto(r, IF got[r] = "verified" THEN "hold" ELSE "rollback")
    /\ UNCHANGED <<state, effect, result, mutation, rollback, restored, lock,
                   guardRows, wire, agent, process, bounds>>

\* _hold: the Run is guarded and the request answered.
HoldStart(r) ==
    /\ pc[r] = "hold"
    /\ state' = [state EXCEPT ![r] = "guarded"]
    /\ Return(r)
    /\ UNCHANGED <<effect, result, mutation, verification, rollback, restored, lock,
                   guardRows, wire, agent, process, bounds>>

\* _roll_back, as in ChangeEngine.
RollBack(r) ==
    /\ pc[r] = "rollback"
    /\ MoveState(r, "rolling_back", "rbread")
    /\ rollback' = [rollback EXCEPT ![r] = "required"]

RollBackRead(r) ==
    /\ pc[r] = "rbread"
    /\ \/ observed' = host /\ Hold(r, "rbmark", host)
       \/ Goto(r, "recovery_required") /\ UNCHANGED observed
    /\ UNCHANGED <<rows, host, call, undo, undoFrom, rev, agent, process, bounds>>

RollBackMark(r) ==
    /\ pc[r] = "rbmark"
    /\ rollback' = [rollback EXCEPT ![r] = "dispatched"]
    /\ Goto(r, "rbmutate")
    /\ UNCHANGED <<state, effect, result, mutation, verification, restored, lock,
                   guardRows, wire, agent, process, bounds>>

RollBackSend(r) ==
    /\ pc[r] = "rbmutate"
    /\ \/ /\ undo' = [undo EXCEPT ![r] = "sent"]
          /\ undoFrom' = [undoFrom EXCEPT ![r] = got[r]]
          /\ Goto(r, "rbwait")
       \/ /\ Hold(r, "rbresult", "not_written")
          /\ UNCHANGED <<undo, undoFrom>>
    /\ UNCHANGED <<rows, host, observed, call, rev, agent, process, bounds>>

RollBackAnswer(r) ==
    /\ pc[r] = "rbwait"
    /\ \E a \in AnswerTo(undo[r]) : Hold(r, "rbresult", a)
    /\ UNCHANGED <<rows, wire, agent, process, bounds>>

RollBackResult(r) ==
    /\ pc[r] = "rbresult"
    /\ rollback' = [rollback EXCEPT ![r] = got[r]]
    /\ Goto(r, IF got[r] = "write_unknown" THEN "recovery_required" ELSE "rbverify")
    /\ UNCHANGED <<state, effect, result, mutation, verification, restored, lock,
                   guardRows, wire, agent, process, bounds>>

-----------------------------------------------------------------------------
(* Verification of a restoration, endings, and the guard's release *)

\* ROLLBACK_VERIFICATION_STARTED, in _roll_back and in _settle_lapsed.
RollBackVerifyStart(h) ==
    /\ pc[h] = "rbverify"
    /\ MoveState(h, "rollback_verifying", "rbvread")
    /\ UNCHANGED rollback

RollBackVerifyRead(h) ==
    /\ pc[h] = "rbvread"
    /\ ReadBack(h, "before", "rbvresult")

RollBackVerifyResult(h) ==
    /\ pc[h] = "rbvresult"
    /\ restored' = [restored EXCEPT ![RunOf(h)] = got[h]]
    /\ Goto(h, IF got[h] = "verified" THEN "rolled_back" ELSE "recovery_required")
    /\ UNCHANGED <<state, effect, result, mutation, verification, rollback, lock,
                   guardRows, wire, agent, process, bounds>>

\* _finish on a Run's rows.
End(r, ending) ==
    /\ state' = [state EXCEPT ![r] = ending]
    /\ effect' = [effect EXCEPT ![r] = HostEffectFor(mutation[r])]
    /\ result' = [result EXCEPT ![r] = ending]
    /\ lock' = IF ending # "recovery_required" /\ lock = r THEN NoRun ELSE lock
    /\ UNCHANGED <<mutation, verification, rollback, restored, guardRows>>

\* _finish and _recover. apply then releases the guard: never before the ending.
Finish(h) ==
    /\ pc[h] \in Endings
    /\ End(RunOf(h), pc[h])
    /\ IF h \in Runs THEN Goto(h, "release") ELSE Return(h)
    /\ UNCHANGED <<wire, agent, process, bounds>>

\* _release_guard.
ReleaseSend(r) == pc[r] = "release" /\ SendTo(r, "disarm", "releasewait")

\* _record_guard_settlement, by _release_guard and by settle_interrupted_guards
\* for a Run that is not guarded.
Record(h) ==
    LET r == RunOf(h) IN
    /\ pc[h] = "record"
    /\ GuardRowAllowed(r, got[h], armed[r])
    /\ settled' = [settled EXCEPT ![r] = got[h]]
    /\ reversal' = [reversal EXCEPT ![r] = told[h]]
    /\ Return(h)
    /\ UNCHANGED <<runRows, armed, kept, wire, agent, process, bounds>>

-----------------------------------------------------------------------------
(* guard_keep, and the same settlement at startup *)

\* guard_keep's checks and the verdict on this request's own path.
KeepBegin(k, r) ==
    /\ phase = "up"
    /\ pc[k] = "idle"
    /\ state[r] = "guarded"
    /\ settled[r] = "none"
    /\ pc' = [pc EXCEPT ![k] = "ask"]
    /\ job' = [job EXCEPT ![k] = r]
    /\ \E proved \in BOOLEAN : proof' = [proof EXCEPT ![k] = proved]
    /\ UNCHANGED <<got, told, rows, wire, agent, process, bounds>>

\* Faulty variant of AskSend: every request releases.
AskSendReleasing(s) == pc[s] = "ask" /\ SendTo(s, "disarm", "askwait")

\* disarm_guard for a request that proved the connection, guard_status otherwise.
AskSend(s) ==
    /\ pc[s] = "ask"
    /\ SendTo(s, IF proof[s] THEN "disarm" ELSE "status", "askwait")

\* _guard_report: an agent that could not be asked, or not heard, is unreachable.
Unheard(h) ==
    /\ pc[h] \in {"ask", "askwait", "abandon", "abandonwait", "release", "releasewait"}
    /\ Hold(h, CASE pc[h] \in {"ask", "askwait"} -> "answered"
                 [] pc[h] \in {"abandon", "abandonwait"} -> "abandonrow"
                 [] OTHER -> "record", "unreachable")
    /\ UNCHANGED <<rows, wire, agent, process, bounds>>

\* Faulty variant of AfterReport: a proved connection is enough to keep.
AfterReportTrusting(s) ==
    IF proof[s] THEN "keep"
    ELSE IF got[s] = "armed" \/ (s = Boot /\ got[s] = "unreachable") THEN "idle"
    ELSE IF s = Boot /\ state[job[s]] # "guarded" THEN "record"
    ELSE IF got[s] = "fired" THEN "rolling" ELSE "lapsed"

(* What a settler does with a report. A keeper refuses while the guard is    *)
(* still armed, keeps what it proved and released, and otherwise settles a   *)
(* lapsed window. Boot leaves an armed or unreachable guard alone, settles a *)
(* guarded Run, and for any other Run only records the guard's own account.  *)
AfterReport(s) ==
    IF got[s] = "armed" \/ (s = Boot /\ got[s] = "unreachable") THEN "idle"
    ELSE IF s \in Keepers /\ proof[s] /\ got[s] = "disarmed" THEN "keep"
    ELSE IF s = Boot /\ state[job[s]] # "guarded" THEN "record"
    ELSE IF got[s] = "fired" THEN "rolling" ELSE "lapsed"

Decide(s) ==
    /\ pc[s] = "answered"
    /\ IF AfterReport(s) = "idle" THEN Return(s) ELSE Goto(s, AfterReport(s))
    /\ UNCHANGED <<rows, wire, agent, process, bounds>>

\* _keep's transaction: the proof and the settlement, together.
Keep(k) ==
    LET r == job[k] IN
    /\ pc[k] = "keep"
    /\ GuardRowAllowed(r, "disarmed", armed[r])
    /\ settled' = [settled EXCEPT ![r] = "disarmed"]
    /\ kept' = kept \cup {r}
    /\ Goto(k, "succeeded")
    /\ UNCHANGED <<runRows, armed, reversal, wire, agent, process, bounds>>

\* _settle_lapsed for a guard that fired: ROLLBACK_STARTED ...
Rolling(s) ==
    /\ pc[s] = "rolling"
    /\ MoveState(s, "rolling_back", "rolled")
    /\ rollback' = [rollback EXCEPT ![job[s]] = "required"]

\* ... and ROLLBACK_MUTATION_RESULT, with the outcome the agent reported.
Rolled(s) ==
    /\ pc[s] = "rolled"
    /\ rollback' = [rollback EXCEPT ![job[s]] = told[s]]
    /\ Goto(s, "lapsed")
    /\ UNCHANGED <<state, effect, result, mutation, verification, restored, lock,
                   guardRows, wire, agent, process, bounds>>

\* _settle_lapsed's _record_guard_settlement. Only a reversal reported written
\* is worth reading back; everything else is recovery.
Lapsed(s) ==
    LET r == job[s] IN
    /\ pc[s] = "lapsed"
    /\ GuardRowAllowed(r, got[s], armed[r])
    /\ settled' = [settled EXCEPT ![r] = got[s]]
    /\ reversal' = [reversal EXCEPT ![r] = told[s]]
    /\ Goto(s, IF told[s] = "written" THEN "rbverify" ELSE "recovery_required")
    /\ UNCHANGED <<runRows, armed, kept, wire, agent, process, bounds>>

(* The store refuses the settlement (settled already, or fired and never     *)
(* confirmed): the exception ends the request, or the startup.               *)
Raise(h) ==
    /\ pc[h] \in {"keep", "record", "lapsed"}
    /\ ~GuardRowAllowed(RunOf(h), got[h], armed[RunOf(h)])
    /\ Return(h)
    /\ phase' = IF h = Boot THEN "down" ELSE phase
    /\ UNCHANGED <<rows, wire, agent, asked, crashes, bounds>>

-----------------------------------------------------------------------------
(* The agent: GuardRegistry under its one lock *)

\* The registry lock is held for the whole of a firing.
RegistryFree == \A r \in Runs : guard[r] # "firing"

\* What the registry says of a guard: one it does not know is lost.
PhaseOf(g) == IF g = "absent" THEN "lost" ELSE g

\* The answer reaches its handler, if that is still waiting for it.
Reply(m, at, next, answer, outcome) ==
    IF pc[m.from] = at /\ RunOf(m.from) = m.run
    THEN /\ pc' = [pc EXCEPT ![m.from] = next]
         /\ got' = [got EXCEPT ![m.from] = answer]
         /\ told' = [told EXCEPT ![m.from] = outcome]
         /\ UNCHANGED <<job, proof>>
    ELSE UNCHANGED thread

\* arm: refused for a known guard id and while another guard holds the target.
ServeArm(m) ==
    /\ m \in mail /\ m.kind = "arm" /\ RegistryFree
    /\ IF guard[m.run] = "absent" /\ \A r \in Runs : guard[r] # "armed"
       THEN /\ guard' = [guard EXCEPT ![m.run] = "armed"]
            /\ Reply(m, "armwait", "confirmed", "armed", "none")
       ELSE /\ Reply(m, "armwait", "abandon", "none", "none")
            /\ UNCHANGED guard
    /\ mail' = mail \ {m}
    /\ UNCHANGED <<rows, wire, verdict, process, bounds>>

\* disarm: releases what is armed, reports what is settled, knows no other.
ServeDisarm(m) ==
    LET now == IF guard[m.run] = "armed" THEN "disarmed" ELSE guard[m.run]
        at  == IF m.from \in Settlers THEN "askwait"
               ELSE IF pc[m.from] = "abandonwait" THEN "abandonwait" ELSE "releasewait"
        next == CASE at = "askwait" -> "answered"
                  [] at = "abandonwait" -> "abandonrow"
                  [] OTHER -> "record"
    IN
    /\ m \in mail /\ m.kind = "disarm" /\ RegistryFree
    /\ guard' = [guard EXCEPT ![m.run] = now]
    /\ Reply(m, at, next, PhaseOf(now), verdict[m.run])
    /\ mail' = mail \ {m}
    /\ UNCHANGED <<rows, wire, verdict, process, bounds>>

\* status: reads, and never releases.
ServeStatus(m) ==
    /\ m \in mail /\ m.kind = "status" /\ RegistryFree
    /\ Reply(m, "askwait", "answered", PhaseOf(guard[m.run]), verdict[m.run])
    /\ mail' = mail \ {m}
    /\ UNCHANGED <<rows, wire, guard, verdict, process, bounds>>

\* _fire: the timer takes the registry lock and sends the reversal, unless the
\* helper's socket cannot be reached ...
Fire(r) ==
    /\ guard[r] = "armed"
    /\ RegistryFree
    /\ guard' = [guard EXCEPT ![r] = "firing"]
    /\ \E m \in {"sent", "not_written"} : rev' = [rev EXCEPT ![r] = m]
    /\ UNCHANGED <<rows, host, observed, call, undo, undoFrom, verdict, mail, thread,
                   process, bounds>>

\* ... and settles with what the helper answered, or write_unknown.
FireDone(r) ==
    /\ guard[r] = "firing"
    /\ guard' = [guard EXCEPT ![r] = "fired"]
    /\ \E a \in AnswerTo(rev[r]) : verdict' = [verdict EXCEPT ![r] = a]
    /\ UNCHANGED <<rows, wire, mail, thread, process, bounds>>

\* _settle's eviction: SETTLED_MEMORY guards of other Runs have settled since, and
\* this one is forgotten.
Evict(r) ==
    /\ guard[r] \in {"fired", "disarmed"}
    /\ RegistryFree
    /\ guard' = [guard EXCEPT ![r] = "absent"]
    /\ verdict' = [verdict EXCEPT ![r] = "none"]
    /\ UNCHANGED <<rows, wire, mail, thread, process, bounds>>

\* The agent dies and comes back: the registry is memory, its timers and the
\* requests it was serving are gone. What it had sent the helper is not.
AgentRestart ==
    /\ restarts < MaxAgentRestarts
    /\ restarts' = restarts + 1
    /\ guard' = [r \in Runs |-> "absent"]
    /\ verdict' = [r \in Runs |-> "none"]
    /\ mail' = {}
    /\ UNCHANGED <<rows, wire, thread, process, moves>>

-----------------------------------------------------------------------------
(* The helper and the host. Every write compares before it sets. *)

Land(r) ==
    /\ call[r] = "sent"
    /\ \/ /\ host = "before"
          /\ host' = "desired"
          /\ call' = [call EXCEPT ![r] = "written"]
       \/ /\ call' = [call EXCEPT ![r] = "not_written"]
          /\ UNCHANGED host
    /\ UNCHANGED <<rows, observed, undo, undoFrom, rev, agent, thread, process, bounds>>

RollBackLand(r) ==
    /\ undo[r] = "sent"
    /\ \/ /\ host = undoFrom[r]
          /\ undoFrom[r] # "before"
          /\ host' = "before"
          /\ undo' = [undo EXCEPT ![r] = "written"]
       \/ /\ undo' = [undo EXCEPT ![r] = "not_written"]
          /\ UNCHANGED host
    /\ UNCHANGED <<rows, observed, call, undoFrom, rev, agent, thread, process, bounds>>

\* The reversal expects the value the change was to leave behind.
ReversalLand(r) ==
    /\ rev[r] = "sent"
    /\ \/ /\ host = "desired"
          /\ host' = "before"
          /\ rev' = [rev EXCEPT ![r] = "written"]
       \/ /\ rev' = [rev EXCEPT ![r] = "not_written"]
          /\ UNCHANGED host
    /\ UNCHANGED <<rows, observed, call, undo, undoFrom, agent, thread, process, bounds>>

\* Somebody else changes the interface.
HostMoves ==
    /\ moves < MaxMoves
    /\ moves' = moves + 1
    /\ \E v \in Values \ {host} : host' = v
    /\ UNCHANGED <<rows, observed, call, undo, undoFrom, rev, agent, thread, process,
                   restarts>>

\* The ordinary observation sweep.
Observe ==
    /\ phase = "up"
    /\ observed' = host
    /\ UNCHANGED <<rows, host, call, undo, undoFrom, rev, agent, thread, process, bounds>>

-----------------------------------------------------------------------------
(* Death and restart of the backend *)

Crash ==
    /\ phase # "down"
    /\ crashes < MaxCrashes
    /\ phase' = "down"
    /\ crashes' = crashes + 1
    /\ pc' = [h \in Handlers |-> "idle"]
    /\ job' = [s \in Settlers |-> NoRun]
    /\ got' = [h \in Handlers |-> "none"]
    /\ told' = [h \in Handlers |-> "none"]
    /\ proof' = [s \in Settlers |-> FALSE]
    /\ UNCHANGED <<rows, wire, agent, asked, bounds>>

Restart ==
    /\ phase = "down"
    /\ phase' = "settling"
    /\ asked' = {}
    /\ UNCHANGED <<rows, wire, agent, thread, crashes, bounds>>

\* settle_interrupted_guards takes the next unsettled guard and asks about it.
BootAsk(r) ==
    /\ phase = "settling"
    /\ pc[Boot] = "idle"
    /\ armed[r] # "none" /\ settled[r] = "none" /\ r \notin asked
    /\ asked' = asked \cup {r}
    /\ pc' = [pc EXCEPT ![Boot] = "ask"]
    /\ job' = [job EXCEPT ![Boot] = r]
    /\ UNCHANGED <<got, told, proof, rows, wire, agent, phase, crashes, bounds>>

\* Every unsettled guard has been asked about: settle_interrupted may begin.
GuardsAsked ==
    /\ phase = "settling"
    /\ pc[Boot] = "idle"
    /\ \A r \in Runs : armed[r] # "none" /\ settled[r] = "none" => r \in asked

\* Faulty variant of Interrupted: only a dispatched Change is looked at.
InterruptedDispatched(r) ==
    result[r] = "in_flight" /\ state[r] # "guarded" /\ mutation[r] # "undispatched"

\* A guarded Run is never concluded by settle_interrupted.
Interrupted(r) == result[r] = "in_flight" /\ state[r] # "guarded"

SettleOutcome(r) ==
    LET outcome == OutcomeOnRecovery(mutation[r]) IN
    /\ GuardsAsked
    /\ Interrupted(r)
    /\ mutation[r] \notin MutationOutcomes
    /\ mutation' = [mutation EXCEPT ![r] = outcome]
    /\ effect' = [effect EXCEPT ![r] = HostEffectFor(outcome)]
    /\ UNCHANGED <<state, result, verification, rollback, restored, lock, guardRows,
                   wire, agent, thread, process, bounds>>

\* A guarded Run that wrote is never `succeeded` here, whatever was verified.
SettleFinish(r) ==
    /\ GuardsAsked
    /\ Interrupted(r)
    /\ mutation[r] \in MutationOutcomes
    /\ End(r, IF mutation[r] = "not_written" THEN "failed" ELSE "recovery_required")
    /\ UNCHANGED <<wire, agent, thread, process, bounds>>

SettleDone ==
    /\ GuardsAsked
    /\ \A r \in Runs : ~Interrupted(r)
    /\ phase' = "up"
    /\ UNCHANGED <<rows, wire, agent, thread, asked, crashes, bounds>>

-----------------------------------------------------------------------------

\* One step of the apply of Run r.
Apply(r) ==
    \/ ArmSend(r) \/ ArmUnheard(r) \/ ArmConfirmed(r)
    \/ AbandonSend(r) \/ AbandonRow(r) \/ AbandonFail(r)
    \/ Cross(r) \/ Dispatch(r) \/ Send(r) \/ Answer(r) \/ Settle(r)
    \/ VerifyStart(r) \/ VerifyRead(r) \/ VerifyResult(r) \/ HoldStart(r)
    \/ RollBack(r) \/ RollBackRead(r) \/ RollBackMark(r) \/ RollBackSend(r)
    \/ RollBackAnswer(r) \/ RollBackResult(r) \/ ReleaseSend(r)

\* One step of a settler.
Collect(s) == AskSend(s) \/ Decide(s) \/ Keep(s) \/ Rolling(s) \/ Rolled(s) \/ Lapsed(s)

\* One step that applies and settlers share.
Either(h) ==
    \/ RollBackVerifyStart(h) \/ RollBackVerifyRead(h) \/ RollBackVerifyResult(h)
    \/ Finish(h) \/ Unheard(h) \/ Record(h) \/ Raise(h)

Handle(h) == Either(h) \/ (h \in Runs /\ Apply(h)) \/ (h \in Settlers /\ Collect(h))

Serve == \E m \in mail : ServeArm(m) \/ ServeDisarm(m) \/ ServeStatus(m)

Startup == SettleDone \/ \E r \in Runs : BootAsk(r) \/ SettleOutcome(r) \/ SettleFinish(r)

Next ==
    \/ \E h \in Handlers : Handle(h)
    \/ \E r \in Runs : Begin(r) \/ \E k \in Keepers : KeepBegin(k, r)
    \/ Serve
    \/ \E r \in Runs : Fire(r) \/ FireDone(r) \/ Evict(r)
    \/ AgentRestart
    \/ \E r \in Runs : Land(r) \/ RollBackLand(r) \/ ReversalLand(r)
    \/ HostMoves \/ Observe
    \/ Crash \/ Restart \/ Startup

Spec == Init /\ [][Next]_vars

(* Handlers run to their end, since every wait has a timeout; the service    *)
(* manager restarts the backend, whose startup settles; a timer thread runs. *)
(* The agent need not answer, the helper need not carry anything out, and no *)
(* operator need ever ask to keep a change.                                  *)
Fairness ==
    /\ \A h \in Handlers : WF_vars(Handle(h))
    /\ WF_vars(Restart)
    /\ WF_vars(Startup)
    /\ \A r \in Runs : WF_vars(Fire(r)) /\ WF_vars(FireDone(r))

FairSpec == Spec /\ Fairness

-----------------------------------------------------------------------------
(* Properties *)

\* A guarded change is `succeeded` only with both proofs on record, and then its
\* reversal never leaves the agent: what was kept stays kept, however late the
\* timer, the disarm or a restart comes (_keep, disarm, settle_interrupted).
KeptStaysKept ==
    \A r \in Runs :
        state[r] = "succeeded" =>
            /\ r \in kept /\ settled[r] = "disarmed" /\ verification[r] = "verified"
            /\ rev[r] = "idle" /\ guard[r] \in {"disarmed", "absent"}

\* The recorded outcomes are what became of the messages, the guard's reversal
\* included, which the backend only hears of through the agent.
RecordsAreTruthful ==
    \A r \in Runs :
        /\ mutation[r] = "written" => call[r] = "written"
        /\ mutation[r] = "not_written" => call[r] \in {"idle", "not_written"}
        /\ rollback[r] = "written" => "written" \in {undo[r], rev[r]}
        /\ reversal[r] = "written" => rev[r] = "written"
        /\ reversal[r] = "not_written" => rev[r] = "not_written"

\* No write without a guard: while the apply may be under way the store knows a
\* holder confirmed the guard, and the write itself is never sent otherwise.
WriteNeedsConfirmedGuard ==
    \A r \in Runs :
        result[r] # "none" \/ call[r] # "idle" => armed[r] = "armed"

\* An armed guard over a change in flight is released only by a request that
\* proved the connection: not by a restart, by a request over another path, or
\* by an apply that has not yet ended (guard_keep, settle_interrupted_guards,
\* _release_guard).
OnlyProofReleases ==
    [][\A r \in Runs :
          guard[r] = "armed" /\ guard'[r] = "disarmed" /\ result[r] = "in_flight"
          => \E m \in mail : m.run = r /\ m.kind = "disarm" /\ m.proved]_vars

\* A crossed change ends or is held for its operator, whatever dies or stalls.
CrossedSettles ==
    \A r \in Runs :
        (result[r] = "in_flight" /\ state[r] # "guarded")
        ~> (result[r] # "in_flight" \/ state[r] = "guarded")

=============================================================================
