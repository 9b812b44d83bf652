----------------------------- MODULE ServiceJob -----------------------------
(***************************************************************************)
(* One service job, end to end: SystemdLifecycleExecutor                   *)
(* (backend/systemd_operations.py) asks the agent, the agent's             *)
(* dispatch_service_lifecycle and its job watch (agent/providers/          *)
(* systemd.py) ask systemd and wait for the end of their own job, and a    *)
(* later reading is judged against the one the plan was made on.           *)
(*                                                                         *)
(* systemd serves others too: they queue jobs on the same unit, the unit   *)
(* restarts by itself, signals of other jobs flood the watch, and the      *)
(* manager itself may be replaced, after which job numbers begin again.    *)
(***************************************************************************)
EXTENDS Naturals, Sequences

CONSTANTS
    Verbs,        \* the verbs asked for: start, stop, restart
    Buffer,       \* JOB_SIGNAL_BUFFER: signals the watch holds, the oldest evicted
    MaxJobs,      \* bound on the jobs a manager numbers
    MaxManagers,  \* bound on managers
    MaxInvocation \* bound on executions of the service

ASSUME ServiceJobAssumption ==
    /\ Verbs \subseteq {"start", "stop", "restart"}
    /\ Buffer \in Nat \ {0} /\ MaxJobs \in Nat /\ MaxManagers \in Nat /\ MaxInvocation \in Nat

VARIABLES
    verb,         \* the executor's verb
    svc,          \* host truth: the service: state, inv (its execution)
    manager,      \* systemd: gen, next job number, the job queued on the service
    call,         \* the dispatch call: "none", "sent", "queued" (enqueued and not answered yet),
                  \* "job" or "error" (the answer), and that job's number
    signals,      \* JobRemoved signals the watch holds
    agent,        \* the dispatch: pc, owner, inv, path, outcome, and whether closing failed
    backend,      \* the executor: pc, baseline, report, verdict, seen
    truth         \* history: what became of the call: accepted, its answer lost, done, and
                  \* the execution when it was accepted

hostvars == <<svc, manager>>
vars     == <<verb, svc, manager, call, signals, agent, backend, truth>>

NoJob == [id |-> 0, kind |-> "none"]
Call(s, id) == [is |-> s, id |-> id]

Init ==
    /\ verb \in Verbs
    /\ svc = [state |-> IF verb = "start" THEN "inactive" ELSE "running", inv |-> 1]
    /\ manager = [gen |-> 1, next |-> 1, job |-> NoJob]
    /\ call = Call("none", 0) /\ signals = <<>>
    /\ agent = [pc |-> "idle", owner |-> 0, changed |-> FALSE, inv |-> 0, path |-> 0, outcome |-> "none",
               torn |-> FALSE]
    /\ backend = [pc |-> "idle", baseline |-> 0, report |-> "none", verdict |-> "none", seen |-> 0]
    /\ truth = [accepted |-> FALSE, lost |-> FALSE, gen |-> 0, id |-> 0, done |-> FALSE, inv |-> 0]

-----------------------------------------------------------------------------
(* systemd and its other clients (external).                               *)

Watching == agent.pc \in {"watching", "read", "checked", "called", "waiting"}

\* A signal of the watched owner is held; the oldest makes room.
Signalled(s) ==
    IF ~Watching \/ manager.gen # agent.owner THEN signals
    ELSE IF Len(signals) < Buffer THEN Append(signals, s) ELSE Append(Tail(signals), s)

\* Mode "fail": a job of the same kind is joined, any other refuses the request.
Admits(kind) == manager.job = NoJob \/ manager.job.kind = kind
Queued(kind) ==
    IF manager.job = NoJob
    THEN [manager EXCEPT !.next = @ + 1, !.job = [id |-> manager.next, kind |-> kind]]
    ELSE manager

OthersQueue(kind) ==
    /\ manager.next <= MaxJobs /\ manager.job = NoJob
    /\ manager' = Queued(kind)
    /\ UNCHANGED <<verb, svc, call, signals, agent, backend, truth>>

\* The job on the service ends. Done, it had its effect; otherwise anything may
\* have happened to the service on the way.
JobEnds(result, to) ==
    /\ manager.job # NoJob
    /\ to.inv \in {svc.inv, svc.inv + 1} /\ to.inv <= MaxInvocation
    /\ result = "done" =>
         CASE manager.job.kind = "stop"    -> to.state = "inactive" /\ to.inv = svc.inv
           [] manager.job.kind = "restart" -> to.state = "running" /\ to.inv = svc.inv + 1
           [] manager.job.kind = "start"   ->
                to.state = "running" /\ (svc.state \in {"running", "settling"} <=> to.inv = svc.inv)
    /\ svc' = to
    /\ manager' = [manager EXCEPT !.job = NoJob]
    /\ signals' = Signalled([id |-> manager.job.id, unit |-> "target", result |-> result])
    /\ truth' = [truth EXCEPT !.done = @ \/ (/\ result = "done" /\ truth.accepted
                                             /\ truth.gen = manager.gen /\ truth.id = manager.job.id)]
    /\ UNCHANGED <<verb, call, agent, backend>>

\* A job on another unit ends.
ElsewhereEnds ==
    /\ manager.next <= MaxJobs
    /\ manager' = [manager EXCEPT !.next = @ + 1]
    /\ signals' = Signalled([id |-> manager.next, unit |-> "other", result |-> "done"])
    /\ UNCHANGED <<verb, svc, call, agent, backend, truth>>

\* The service restarts or fails by itself.
RestartsItself ==
    /\ svc.inv < MaxInvocation /\ svc.state = "running"
    /\ \E s \in {"running", "settling", "failed"} :
         svc' = [state |-> s, inv |-> IF s = "failed" THEN svc.inv ELSE svc.inv + 1]
    /\ UNCHANGED <<verb, manager, call, signals, agent, backend, truth>>

Settles ==
    /\ svc.state = "settling" /\ svc' = [svc EXCEPT !.state = "running"]
    /\ UNCHANGED <<verb, manager, call, signals, agent, backend, truth>>

\* The bus answers a call its callee did not live to answer with an error, also one
\* that had enqueued its job.
ManagerReplaced ==
    /\ manager.gen < MaxManagers
    /\ manager' = [gen |-> manager.gen + 1, next |-> 1, job |-> NoJob]
    /\ call' = IF call.is \in {"sent", "queued"} THEN Call("error", 0) ELSE call
    /\ agent' = [agent EXCEPT !.changed = @ \/ Watching]
    /\ truth' = [truth EXCEPT !.lost = @ \/ call.is = "queued"]
    /\ UNCHANGED <<verb, svc, signals, backend>>

\* The dispatch call reaches the manager, also after its caller gave up.
Accept ==
    /\ call.is = "sent" /\ Admits(verb) /\ manager.next <= MaxJobs
    /\ manager' = Queued(verb)
    /\ call' = Call("queued", manager'.job.id)
    /\ truth' = [truth EXCEPT !.accepted = TRUE, !.gen = manager.gen, !.id = manager'.job.id, !.inv = svc.inv]
    /\ UNCHANGED <<verb, svc, signals, agent, backend>>

\* ... and the job's path leaves it.
AnswerCall ==
    /\ call.is = "queued" /\ call' = Call("job", call.id)
    /\ UNCHANGED <<verb, hostvars, signals, agent, backend, truth>>

Decline ==
    /\ call.is = "sent" /\ call' = Call("error", 0)
    /\ UNCHANGED <<verb, hostvars, signals, agent, backend, truth>>

-----------------------------------------------------------------------------
(* The agent: dispatch_service_lifecycle.                                  *)

At(step) == agent.pc = step
AgentOnly == UNCHANGED <<verb, hostvars, signals, backend, truth>>

\* What an exception says: a job path in hand is the boundary.
Unclosed == IF agent.path # 0 THEN "write_unknown" ELSE "not_written"

\* The dispatch returns out of the job watch and the connection. Either may fail to
\* close, and then the exception's answer replaces the one that was returned.
Result(outcome) ==
    \E failed \in BOOLEAN :
        agent' = [agent EXCEPT !.pc = "answered", !.torn = failed,
                    !.outcome = IF failed THEN Unclosed ELSE outcome]

\* Subscribe and job_watch: the owner is noted and its signals are held from here on.
Watch ==
    /\ At("asked")
    /\ agent' = [agent EXCEPT !.pc = "watching", !.owner = manager.gen, !.changed = FALSE]
    /\ UNCHANGED call /\ AgentOnly

\* GetUnit and the unit's own Id, LoadState, InvocationID
ReadUnit ==
    /\ At("watching")
    /\ \/ agent' = [agent EXCEPT !.pc = "read", !.inv = svc.inv]
       \/ Result("not_written")                         \* not loaded, or an alias
    /\ UNCHANGED call /\ AgentOnly

\* check_owner
SameOwner == ~agent.changed /\ manager.gen = agent.owner

CheckOwner ==
    /\ At("read")
    /\ IF SameOwner THEN agent' = [agent EXCEPT !.pc = "checked"] ELSE Result("not_written")
    /\ UNCHANGED call /\ AgentOnly

Send ==
    /\ At("checked")
    /\ agent' = [agent EXCEPT !.pc = "called"] /\ call' = Call("sent", 0)
    /\ AgentOnly

\* An error reply is a refusal; a job path is waited for.
Reply ==
    /\ At("called") /\ call.is \in {"error", "job"}
    /\ IF call.is = "error" THEN Result("not_written")
       ELSE agent' = [agent EXCEPT !.pc = "waiting", !.path = call.id]
    /\ UNCHANGED call /\ AgentOnly

\* Faulty variant of Interrupted: whatever stops the dispatch early stops it cleanly.
InterruptedIsNothing ==
    /\ At("asked") \/ Watching
    /\ Result("not_written")
    /\ UNCHANGED call /\ AgentOnly

\* The connection breaks, or none is had, or a call times out: the side of the
\* boundary decides.
Interrupted ==
    /\ At("asked") \/ Watching
    /\ Result(IF agent.pc \in {"called", "waiting"} THEN "write_unknown" ELSE "not_written")
    /\ UNCHANGED call /\ AgentOnly

\* Faulty variant of Hear: the first signal for that path and unit is the answer.
HearAnybody ==
    /\ At("waiting") /\ signals # <<>>
    /\ LET s == Head(signals)
       IN IF s.id = agent.path /\ s.unit = "target"
          THEN Result(IF s.result = "done" THEN "written" ELSE "write_unknown")
          ELSE UNCHANGED agent
    /\ signals' = Tail(signals)
    /\ UNCHANGED <<verb, hostvars, call, backend, truth>>

\* Faulty variant of Hear: any end of the job is a write.
HearAnyEnd ==
    /\ At("waiting") /\ signals # <<>>
    /\ LET s == Head(signals)
       IN IF s.id = agent.path /\ s.unit = "target"
          THEN Result(IF SameOwner THEN "written" ELSE "write_unknown")
          ELSE UNCHANGED agent
    /\ signals' = Tail(signals)
    /\ UNCHANGED <<verb, hostvars, call, backend, truth>>

\* result_for: only the signal for this path and unit, from the owner that was called.
Hear ==
    /\ At("waiting") /\ signals # <<>>
    /\ LET s == Head(signals)
       IN IF s.id = agent.path /\ s.unit = "target"
          THEN Result(IF SameOwner /\ s.result = "done" THEN "written" ELSE "write_unknown")
          ELSE UNCHANGED agent
    /\ signals' = Tail(signals)
    /\ UNCHANGED <<verb, hostvars, call, backend, truth>>

-----------------------------------------------------------------------------
(* The backend: SystemdLifecycleExecutor.                                  *)

BackendOnly == UNCHANGED <<verb, hostvars, call, signals, truth>>

\* correlate: the newest reading's execution
Correlate ==
    /\ backend.pc = "idle"
    /\ backend' = [backend EXCEPT !.pc = "correlated", !.baseline = svc.inv]
    /\ UNCHANGED agent /\ BackendOnly

\* mutate: the request reaches the agent, or provably does not
Ask ==
    /\ backend.pc = "correlated"
    /\ \/ backend' = [backend EXCEPT !.pc = "asked"] /\ agent' = [agent EXCEPT !.pc = "asked"]
       \/ backend' = [backend EXCEPT !.pc = "reported", !.report = "not_written"] /\ UNCHANGED agent
    /\ BackendOnly

\* The agent's answer is taken as given; one that does not come, or cannot be read,
\* is unknown.
Report ==
    /\ backend.pc = "asked"
    /\ \E r \in {"write_unknown"} \cup (IF agent.pc = "answered" THEN {agent.outcome} ELSE {}) :
         backend' = [backend EXCEPT !.pc = "reported", !.report = r]
    /\ UNCHANGED agent /\ BackendOnly

\* prove
Proves(state, inv) ==
    /\ state = (IF verb = "stop" THEN "inactive" ELSE "running")
    /\ verb = "restart" => inv # backend.baseline

\* observe and prove: the verification of a write, or the evidence of a resolution
Look ==
    /\ backend.pc = "reported" /\ backend.report # "not_written"
    /\ backend' = [backend EXCEPT !.pc = "judged", !.seen = svc.inv,
                     !.verdict = IF Proves(svc.state, svc.inv) THEN "verified" ELSE "mismatch"]
    /\ UNCHANGED agent /\ BackendOnly

Systemd ==
    \/ \E k \in {"start", "stop", "restart"} : OthersQueue(k)
    \/ \E r \in {"done", "failed"}, s \in {"running", "settling", "inactive", "failed"}, i \in 1..MaxInvocation :
         JobEnds(r, [state |-> s, inv |-> i])
    \/ ElsewhereEnds \/ RestartsItself \/ Settles \/ ManagerReplaced \/ Accept \/ AnswerCall \/ Decline

Agent   == Watch \/ ReadUnit \/ CheckOwner \/ Send \/ Reply \/ Interrupted \/ Hear
Backend == Correlate \/ Ask \/ Report \/ Look

Next == Systemd \/ Agent \/ Backend
Spec == Init /\ [][Next]_vars

-----------------------------------------------------------------------------
(* Properties.                                                             *)

\* "written" is said only of a job this very call was given and that systemd carried
\* out: not of a namesake of another manager, nor of a job that ended otherwise
\* (result_for and its owner check).
WrittenWasDone == "written" \in {agent.outcome, backend.report} => truth.done

\* What the docstring of dispatch_service_lifecycle says of "not_written" ("which is a
\* proof"): the call enqueued no job, then or later. It does not hold in the two cases
\* the next property names, and no run of this project checks it.
NotWrittenIsProof ==
    "not_written" \in {agent.outcome, backend.report} => ~truth.accepted

\* What of that holds: a job is enqueued behind a "not_written", then or later, only if
\* its manager was replaced before it answered, or the watch or the connection failed to
\* close. No timeout, no broken connection and no refusal alone produces one, wherever
\* the request is (dispatch_service_lifecycle, SystemdLifecycleExecutor.mutate).
NotWrittenErrsOnlyUnanswered ==
    "not_written" \in {agent.outcome, backend.report} /\ truth.accepted =>
        truth.lost \/ agent.torn

\* A restart verified after a write is a restart of this dispatch: the execution seen
\* began after systemd accepted the call, although prove compares with a reading that
\* may be older than the dispatch.
VerifiedRestartIsOurs ==
    (verb = "restart" /\ backend.report = "written" /\ backend.verdict = "verified") =>
        backend.seen > truth.inv
=============================================================================
