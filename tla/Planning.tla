------------------------------ MODULE Planning ------------------------------
(***************************************************************************)
(* One Run from plan to dispatch, under evidence that ages and a host that *)
(* moves: create_run, confirm_run, self-impact-override and apply_run each *)
(* judge the request's own connection, observe what they need, plan again  *)
(* and compare (routes.py, runs.py, changes.py _plan_now); an apply then   *)
(* consumes the authority it needs, prepares, and crosses the boundary,    *)
(* each in a transaction of its own. Interfaces and routes change under    *)
(* it, two connections reach the console over different interfaces,        *)
(* services are restarted or re-wired, and the operator and the providers  *)
(* go on while an apply is under way.                                      *)
(*                                                                         *)
(* What follows a dispatch is ChangeEngine's and GuardedChange's matter.   *)
(***************************************************************************)
EXTENDS Gates

CONSTANTS
    Scenes,       \* where a behaviour may begin: start, op, address, host, stand, known
    Stands,       \* what may be held of the target: its standing (stance, intent,
                  \* desired), its owner (block, gaps) and the agent's capabilities
    Readings,     \* what an observation of the target may say, for each kind
    Hosts,        \* how services may be wired: see the comment at ObservedContext
    Blind,        \* what one look at a service may fail to read: sets of names
    LookupTime,   \* bound on a route lookup: the agent client's deadline
    RequestTime,  \* bound on a request from its verdict to its decision
    MaxTime,      \* bound on the clock
    MaxMoves      \* bound on changes of routes, wiring, stance, owners, capabilities

ASSUME PlanningAssumption ==
    /\ {LookupTime, RequestTime, MaxTime, MaxMoves} \subseteq Nat
    /\ \A s \in Scenes : s.start \in Nat \ {0} /\ s.address \in [Connections -> Interfaces]

VARIABLES
    now,          \* the clock
    op,           \* the operation this behaviour is about
    address,      \* host truth: the interface that holds a connection's local address
    route,        \* host truth: the interface the kernel routes a connection's peer over
    host,         \* host truth: how services are wired
    swept,        \* the newest observation of each interface: when, and what it holds
    lookups,      \* the newest management-path observation of each connection
    lookup,       \* a lookup the kernel has answered and nobody has stored yet
    seen,         \* the newest observation of the target
    standing,     \* the target's stance and intent
    owner,        \* what the providers' newest readings make of the target
    caps,         \* what the agent last declared
    published,    \* the preview the Run published: its digest and eligibility
    granted,      \* the digest each confirmation is bound to
    spent,        \* an apply has consumed the authority
    request,      \* the request under way
    dispatched,   \* history: what an apply let through
    routed,       \* history: when the kernel last routed a connection over an interface
    moves         \* how many moves the host and its operators have made

truth    == <<address, route, host, routed>>
evidence == <<swept, lookups, lookup, seen, standing, owner, caps>>
work     == <<published, granted, spent, request, dispatched>>
vars     == <<now, op, truth, evidence, work, moves>>

NoDigest  == [refused |-> "nothing_planned"]
NoPreview == [digest |-> NoDigest, eligibility |-> "none"]
NoContext == [at |-> 0]
NoLookup  == [at |-> 0, oif |-> "none"]
Idle      == [pc |-> "idle"]

Init ==
    /\ \E s \in Scenes :
         /\ now = s.start
         /\ op = s.op
         /\ address = s.address /\ route = s.address
         /\ host = s.host
         /\ standing = s.stand.standing /\ owner = s.stand.owner /\ caps = s.stand.caps
         /\ swept = [i \in Interfaces |->
                       IF s.known = {} THEN [at |-> 0, holds |-> {}]
                       ELSE [at |-> now, holds |-> {c \in Connections : address[c] = i}]]
         /\ lookups = [c \in Connections |->
                         IF c \in s.known THEN [at |-> now, oif |-> address[c]] ELSE NoLookup]
    /\ lookup = Idle
    /\ seen = [at |-> 0, reading |-> "unreadable"]
    /\ published = NoPreview
    /\ granted = [p \in {"apply", "override"} |-> NoDigest]
    /\ spent = FALSE
    /\ request = Idle
    /\ dispatched = Idle
    /\ routed = [c \in Connections |-> [i \in Interfaces |-> IF route[c] = i THEN now ELSE 0]]
    /\ moves = 0

-----------------------------------------------------------------------------
(* Time and the host. A Run is followed to its dispatch, or to an apply    *)
(* that ends it after consuming its authority.                             *)

Followed == dispatched = Idle /\ (spent => request # Idle)

\* What the kernel routes now it also routes at the next instant.
Tick ==
    /\ Followed /\ now < MaxTime
    /\ lookup # Idle => now - lookup.asked < LookupTime
    /\ request # Idle => now - request.at < RequestTime
    /\ now' = now + 1
    /\ routed' = [c \in Connections |-> [routed[c] EXCEPT ![route[c]] = now + 1]]
    /\ UNCHANGED <<op, address, route, host, evidence, work, moves>>

Moves == Followed /\ moves < MaxMoves /\ moves' = moves + 1

\* A route changes, with or without the address following it.
Reroute(c, i, follows) ==
    /\ op.kind = "mtu" /\ request = Idle /\ Moves
    /\ i # route[c]
    /\ route' = [route EXCEPT ![c] = i]
    /\ address' = IF follows THEN [address EXCEPT ![c] = i] ELSE address
    /\ routed' = [routed EXCEPT ![c][i] = now]
    /\ UNCHANGED <<now, op, host, evidence, work>>

Rewire(h) ==
    /\ op.kind = "service" /\ Moves
    /\ host' = h
    /\ UNCHANGED <<now, op, address, route, routed, evidence, work>>

\* The operator manages, revises or releases; a provider starts to claim; the
\* agent declares anew.
Stand(s) ==
    /\ Moves
    /\ s # [standing |-> standing, owner |-> owner, caps |-> caps]
    /\ standing' = s.standing /\ owner' = s.owner /\ caps' = s.caps
    /\ UNCHANGED <<now, op, truth, swept, lookups, lookup, seen, work>>

\* A network sweep: every interface, and the target's MTU with them. For the other
\* operations the network stays as the scene has it.
Sweep(reading) ==
    /\ Followed /\ op.kind = "mtu"
    /\ swept' = [i \in Interfaces |->
                    [at |-> now, holds |-> {c \in Connections : address[c] = i}]]
    /\ seen' = [at |-> now, reading |-> reading]
    /\ UNCHANGED <<now, op, truth, lookups, lookup, standing, owner, caps, work, moves>>

\* A container or systemd sweep.
ObserveTarget(reading) ==
    /\ Followed /\ op.kind # "mtu"
    /\ seen' = [at |-> now, reading |-> reading]
    /\ UNCHANGED <<now, op, truth, swept, lookups, lookup, standing, owner, caps, work, moves>>

-----------------------------------------------------------------------------
(* ManagementPathService.observe: the kernel answers, and the answer is    *)
(* stored under the time it arrived. Once judged, a request reads no       *)
(* lookup: lookups and reroutes commute with the rest of it, and are taken *)
(* between requests.                                                       *)

Lookup(c) ==
    /\ Followed /\ op.kind = "mtu" /\ request = Idle
    /\ lookup = Idle /\ c \in Usable
    /\ \E oif \in {route[c], "none"} :
         lookup' = [pc |-> "answered", conn |-> c, oif |-> oif, asked |-> now]
    /\ UNCHANGED <<now, op, truth, swept, lookups, seen, standing, owner, caps, work, moves>>

StoreLookup ==
    /\ lookup # Idle /\ request = Idle
    /\ lookups' = [lookups EXCEPT ![lookup.conn] = [at |-> now, oif |-> lookup.oif]]
    /\ lookup' = Idle
    /\ UNCHANGED <<now, op, truth, swept, seen, standing, owner, caps, work, moves>>

-----------------------------------------------------------------------------
(* A request.                                                              *)

\* ManagementPathRepository.newest_matching
NewestMatching(c) == lookups[c]

\* The interfaces the kernel can be said to have routed connection c over, as lately
\* as the evidence may be old.
LatelyOver(c) == {i \in Interfaces : routed[c][i] > 0 /\ now - routed[c][i] <= TTL + LookupTime}

\* _management_path: every request judges its own connection, first of all.
Ask(c, kind) ==
    /\ Followed /\ request = Idle /\ lookup = Idle
    /\ kind = "create" <=> published = NoPreview
    /\ request' = [pc |-> "judged", conn |-> c, kind |-> kind, at |-> now, host |-> host,
                   over |-> LatelyOver(c), verdict |-> DerivePath(c, NewestMatching(c), swept, now),
                   context |-> NoContext]
    /\ UNCHANGED <<now, op, truth, evidence, published, granted, spent, dispatched, moves>>

\* The units one request depends on to keep running, in truth: what holds its
\* connection, what runs that, and what configures the interface it came over.
ManagementUnits(h, path) ==
    ({h.connection} \cup (IF h.connectionType = "service" THEN {} ELSE {h.runtime})
       \cup (IF path = "none" THEN {} ELSE {ConfiguredBy[path]})) \ {"none"}

\* SystemdLifecycleContextReader.observe over a host h at some time, when what is named
\* in `blind` could not be read. h: effects (the units the action reaches),
\* connection and connectionType (the unit that holds the accepted socket),
\* runtime (the container runtime's unit), agent, agentType, facts.
ObservedContext(h, path, blind, at) ==
    LET socket == ~(blind \cap {"netns", "socket"} # {})
        owned  == socket /\ h.connectionType # "service"
        found  == owned /\ "owner" \notin blind
        units  == IF path = "none" THEN {} ELSE {ConfiguredBy[path]} \ {"none"}
        named  == IF "provider" \in blind THEN {} ELSE units
        gaps   == {g \in blind : g \in {"graph", "netns", "socket", "agent"}}
                    \cup (IF owned /\ ~found THEN {"runtime_owner"} ELSE {})
                    \cup (IF path = "none" \/ "claims" \in blind THEN {"provider_evidence"} ELSE {})
                    \cup (IF named # units THEN {"provider_owner"} ELSE {})
    IN [at |-> at, facts |-> h.facts,
        effects |-> IF "graph" \in blind THEN {"target"} ELSE h.effects,
        effectComplete |-> "graph" \notin blind,
        connection |-> IF socket THEN h.connection ELSE "none",
        connectionType |-> IF socket THEN h.connectionType ELSE "none",
        owner |-> IF found THEN h.runtime ELSE "none",
        management |-> (IF socket THEN {h.connection} ELSE {})
                         \cup (IF found THEN {h.runtime} ELSE {}) \cup named,
        managementComplete |-> gaps \subseteq {"graph", "agent"},
        agent |-> IF "agent" \in blind THEN "none" ELSE h.agent,
        agentType |-> IF "agent" \in blind THEN "none" ELSE h.agentType,
        agentComplete |-> "agent" \notin blind,
        gaps |-> gaps]

\* SystemdLifecycleContextService._unavailable: the agent could not be asked.
UnavailableContext(h, at) ==
    [at |-> at, facts |-> h.facts, effects |-> {"target"}, effectComplete |-> FALSE,
     connection |-> "none", connectionType |-> "none", owner |-> "none", management |-> {},
     managementComplete |-> FALSE, agent |-> "none", agentType |-> "none",
     agentComplete |-> FALSE, gaps |-> {"unavailable"}]

\* SystemdLifecycleContextService.observe: asked for every service request, and
\* what it read of the target is stored as an observation of it.
ObserveContext(blind) ==
    /\ op.kind = "service" /\ request.pc = "judged"
    /\ request' = [request EXCEPT !.pc = "ready", !.host = host,
                      !.context = ObservedContext(host, request.verdict.path, blind, now)]
    /\ seen' = [at |-> now, reading |-> host.facts.state]
    /\ UNCHANGED <<now, op, truth, swept, lookups, lookup, standing, owner, caps,
                   published, granted, spent, dispatched, moves>>

ContextUnavailable ==
    /\ op.kind = "service" /\ request.pc = "judged"
    /\ request' = [request EXCEPT !.pc = "ready", !.context = UnavailableContext(host, now)]
    /\ UNCHANGED <<now, op, truth, evidence, published, granted, spent, dispatched, moves>>

\* RunService._context: what the planner is given
Evidence ==
    [at |-> now, standing |-> standing, seen |-> seen, owner |-> owner, caps |-> caps,
     verdict |-> request.verdict, context |-> request.context]

Ready(kind) ==
    /\ request.pc = (IF op.kind = "service" THEN "ready" ELSE "judged")
    /\ request.kind = kind

Finish == request' = Idle

\* create: planned, and planned again inside the transaction that stores it.
Create ==
    /\ Ready("create") /\ Finish
    /\ LET plan == Replan(op, Evidence)
       IN published' = IF IsPlan(plan) THEN PreviewRow(plan) ELSE published
    /\ UNCHANGED <<now, op, truth, evidence, granted, spent, dispatched, moves>>

\* _require_executable_preview
Executable(preview) == preview.eligibility \in {"eligible", "guarded", "override_required"}

\* _plan_now: the plan still stands, the target still stands to the request as the
\* published plan requires, and what was published is still what policy says.
PlanNow(plan) ==
    /\ IsPlan(plan)
    /\ Digest(plan) = published.digest
    /\ Definition(op.kind).relation =>
         plan.protection.relation = (IF published.eligibility = "guarded" THEN "on" ELSE "off")
    /\ plan.eligibility = published.eligibility

\* confirm and grant_self_impact_override: recorded once, against the digest.
Grant(purpose) ==
    /\ IF purpose = "apply" THEN Ready("confirm") ELSE Ready("override")
    /\ Finish
    /\ granted' =
         IF /\ IF purpose = "apply" THEN Executable(published)
                                    ELSE published.eligibility = "override_required"
            /\ PlanNow(Replan(op, Evidence))
            /\ granted[purpose] = NoDigest
         THEN [granted EXCEPT ![purpose] = published.digest] ELSE granted
    /\ UNCHANGED <<now, op, truth, evidence, published, spent, dispatched, moves>>

\* apply, under the Run's lock: it is planned once more, and may only be refused.
Compare ==
    /\ Ready("apply")
    /\ IF Executable(published) /\ PlanNow(Replan(op, Evidence))
       THEN request' = [request EXCEPT !.pc = "compared"] ELSE Finish
    /\ UNCHANGED <<now, op, truth, evidence, published, granted, spent, dispatched, moves>>

Authority ==
    /\ ~spent
    /\ granted["apply"] = published.digest
    /\ published.eligibility = "override_required" => granted["override"] = published.digest

\* _consume_confirmation, _consume_self_impact_override: all of it, in one transaction.
Consume ==
    /\ request.pc = "compared"
    /\ IF Authority THEN spent' = TRUE /\ request' = [request EXCEPT !.pc = "authorised"]
                    ELSE UNCHANGED spent /\ Finish
    /\ UNCHANGED <<now, op, truth, evidence, published, granted, dispatched, moves>>

\* _prepare, _arm_guard: the target cannot be correlated, or the guard not armed, and the
\* Run ends failed with its authority spent.
Unprepared ==
    /\ request.pc = "authorised" /\ Finish
    /\ UNCHANGED <<now, op, truth, evidence, published, granted, spent, dispatched, moves>>

\* _cross: what was published goes to the host. Nothing is planned or compared again.
Cross ==
    /\ request.pc = "authorised" /\ Finish
    /\ dispatched' = [pc |-> "dispatched", conn |-> request.conn, plan |-> published.digest,
                      host |-> request.host, over |-> request.over,
                      path |-> request.verdict.path, stood |-> standing]
    /\ UNCHANGED <<now, op, truth, evidence, published, granted, spent, moves>>

Next ==
    \/ Tick
    \/ \E c \in Connections, i \in Interfaces, f \in BOOLEAN : Reroute(c, i, f)
    \/ \E h \in Hosts : Rewire(h)
    \/ \E s \in Stands : Stand(s)
    \/ \E r \in Readings[op.kind] : Sweep(r)
    \/ \E r \in Readings[op.kind] : ObserveTarget(r)
    \/ \E c \in Connections : Lookup(c)
    \/ StoreLookup
    \/ \E c \in Connections, k \in {"create", "confirm", "override", "apply"} : Ask(c, k)
    \/ \E b \in Blind : ObserveContext(b)
    \/ ContextUnavailable
    \/ Create
    \/ \E p \in {"apply", "override"} : Grant(p)
    \/ Compare \/ Consume \/ Unprepared \/ Cross

Spec == Init /\ [][Next]_vars

-----------------------------------------------------------------------------
(* Properties.                                                             *)

Passed == dispatched' # dispatched

\* An MTU change dispatched as ordinary spares the path of the request that applied
\* it: when it was judged, the kernel had routed that very connection over another
\* interface, no longer ago than the evidence may be old.
OrdinaryApplySparesThePath ==
    [][Passed /\ op.kind = "mtu" /\ dispatched'.plan.eligibility = "eligible"
         => dispatched'.over \ {Target} # {}]_vars

\* A guarded change is on the path: its guard is settled by proving that the console
\* is reachable over the target, which it must have been for this connection.
GuardedApplyIsOnThePath ==
    [][Passed /\ dispatched'.plan.eligibility = "guarded"
         => /\ op.kind = "mtu"
            /\ Target \in dispatched'.over]_vars

\* A service action reaches nothing the request depends on, as the host really was
\* when it was looked at; with the override, nothing but the container runtime.
ServiceSparesTheConsole ==
    [][Passed /\ op.kind = "service"
         => LET d == dispatched'
                reached == d.host.effects \cap (ManagementUnits(d.host, d.path) \cup {d.host.agent})
            IN \/ d.plan.eligibility = "eligible" /\ reached = {}
               \/ /\ d.plan.eligibility = "override_required"
                  /\ reached = {d.host.runtime}
                  /\ d.host.connectionType # "service"
                  /\ granted["override"] = d.plan]_vars

\* What is dispatched carries out the intent the target has then: "every one is re-read
\* and re-checked: a plan whose inputs moved is stale" (ChangeService.apply). It is, up to
\* the last plan; a release or a revision takes no notice of the Run's lock, and one that
\* comes between the plan and the boundary is not seen any more. So this does not hold, and
\* no run of this project checks it.
DispatchesWhatStands ==
    dispatched # Idle /\ op.kind = "mtu" =>
        /\ dispatched.stood.stance = "managed"
        /\ dispatched.stood.intent = dispatched.plan.change.intent
=============================================================================
