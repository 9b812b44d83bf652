--------------------------- MODULE PlanningProofs ---------------------------
(***************************************************************************)
(* What a request may dispatch, for any interfaces, connections, hosts,    *)
(* clocks and ages of evidence (Planning, Gates), and what the units it    *)
(* is weighed against are worth: the walk that names them, over any graph  *)
(* and under any limits (EffectGraph).                                     *)
(***************************************************************************)
EXTENDS Planning, EffectGraph, FiniteSetTheorems, SequenceTheorems, TLAPS

-----------------------------------------------------------------------------
(* What the evidence of a path is worth.                                   *)

\* The kernel's answers, under way or stored, were true of the routes, no longer before
\* they were stored than a lookup may take.
RouteInv ==
    /\ now \in Nat \ {0}
    /\ route \in [Connections -> Interfaces]
    /\ routed \in [Connections -> [Interfaces -> Nat]]
    /\ \A c \in Connections : routed[c][route[c]] = now /\ \A i \in Interfaces : routed[c][i] <= now

LookupInv ==
    lookup # Idle =>
      /\ lookup.conn \in Connections /\ lookup.oif \in Interfaces \cup {"none"}
      /\ lookup.asked \in Nat \ {0} /\ lookup.asked <= now /\ now <= lookup.asked + LookupTime
      /\ lookup.oif # "none" => lookup.asked <= routed[lookup.conn][lookup.oif]

LookupsInv ==
    /\ lookups \in [Connections -> [at : Nat, oif : Interfaces \cup {"none"}]]
    /\ \A c \in Connections : lookups[c].at > 0 /\ lookups[c].oif # "none" =>
         /\ routed[c][lookups[c].oif] > 0
         /\ lookups[c].at <= routed[c][lookups[c].oif] + LookupTime

PathInv == RouteInv /\ LookupInv /\ LookupsInv

\* A verdict names an interface the kernel lately routed the request's connection over,
\* and a context is what was read of the host the request remembers, or nothing whole.
RequestInv ==
    request # Idle =>
      /\ DOMAIN request = {"pc", "conn", "kind", "at", "host", "over", "verdict", "context"}
      /\ request.pc \in {"judged", "ready", "compared", "authorised"}
      /\ request.verdict.path = "none" \/ request.verdict.path \in request.over
      /\ request.pc = "ready" =>
           \/ request.context.effectComplete = FALSE
           \/ \E b \in Blind, t \in Nat :
                request.context = ObservedContext(request.host, request.verdict.path, b, t)

LEMMA PathStep ==
    ASSUME PathInv, [Next]_vars
    PROVE  PathInv'
<1> USE GatesAssumption, PlanningAssumption DEF PathInv
<1>1. CASE UNCHANGED <<now, route, routed, lookup, lookups>>
  BY <1>1 DEF RouteInv, LookupInv, LookupsInv
<1>2. CASE Tick
  <2>1. now' = now + 1 /\ route' = route /\ lookup' = lookup /\ lookups' = lookups
        /\ routed' = [c \in Connections |-> [routed[c] EXCEPT ![route[c]] = now + 1]]
        /\ (lookup # Idle => now - lookup.asked < LookupTime)
    BY <1>2 DEF Tick, evidence
  <2>2. RouteInv'
    BY <2>1 DEF RouteInv
  <2>3. \A c \in Connections, i \in Interfaces :
          routed[c][i] <= routed'[c][i] /\ routed[c][i] \in Nat /\ routed'[c][i] \in Nat
    BY <2>1 DEF RouteInv
  <2>4. LookupInv'
    BY <2>1, <2>3 DEF RouteInv, LookupInv
  <2>5. LookupsInv'
    BY <2>1, <2>3 DEF RouteInv, LookupsInv
  <2>6. QED
    BY <2>2, <2>4, <2>5
<1>3. ASSUME NEW c \in Connections, NEW i \in Interfaces, NEW f \in BOOLEAN, Reroute(c, i, f)
      PROVE  PathInv'
  <2>1. now' = now /\ route' = [route EXCEPT ![c] = i] /\ lookup' = lookup /\ lookups' = lookups
        /\ routed' = [routed EXCEPT ![c][i] = now]
    BY <1>3 DEF Reroute, evidence
  <2>2. RouteInv'
    BY <2>1 DEF RouteInv
  <2>3. \A e \in Connections, j \in Interfaces :
          routed[e][j] <= routed'[e][j] /\ routed[e][j] \in Nat /\ routed'[e][j] \in Nat
    BY <2>1 DEF RouteInv
  <2>4. LookupInv'
    BY <2>1, <2>3 DEF RouteInv, LookupInv
  <2>5. LookupsInv'
    BY <2>1, <2>3 DEF RouteInv, LookupsInv
  <2>6. QED
    BY <2>2, <2>4, <2>5
<1>4. ASSUME NEW c \in Connections, Lookup(c)
      PROVE  PathInv'
  <2>1. now' = now /\ route' = route /\ routed' = routed /\ lookups' = lookups
    BY <1>4 DEF Lookup, truth
  <2>2. PICK oif \in {route[c], "none"} :
          lookup' = [pc |-> "answered", conn |-> c, oif |-> oif, asked |-> now]
    BY <1>4 DEF Lookup
  <2>3. LookupInv'
    BY <2>1, <2>2 DEF RouteInv, LookupInv
  <2>4. QED
    BY <2>1, <2>3 DEF RouteInv, LookupsInv
<1>5. CASE StoreLookup
  <2>1. now' = now /\ route' = route /\ routed' = routed /\ lookup # Idle /\ lookup' = Idle
        /\ lookups' = [lookups EXCEPT ![lookup.conn] = [at |-> now, oif |-> lookup.oif]]
    BY <1>5 DEF StoreLookup, truth
  <2>2. LookupsInv'
    BY <2>1 DEF RouteInv, LookupInv, LookupsInv
  <2>3. QED
    BY <2>1, <2>2 DEF RouteInv, LookupInv
<1>6. QED
  BY <1>1, <1>2, <1>3, <1>4, <1>5
  DEF Next, vars, truth, evidence, Rewire, Stand, Sweep, ObserveTarget, Ask, ObserveContext,
      ContextUnavailable, Create, Grant, Compare, Consume, Unprepared, Cross

LEMMA PathInit == Init => PathInv
<1> SUFFICES ASSUME Init PROVE PathInv
  OBVIOUS
<1> USE GatesAssumption, PlanningAssumption
<1>1. PICK s \in Scenes :
        /\ now = s.start /\ address = s.address /\ route = s.address
        /\ lookups = [c \in Connections |->
                        IF c \in s.known THEN [at |-> now, oif |-> address[c]] ELSE NoLookup]
  BY DEF Init
<1>2. routed = [c \in Connections |-> [i \in Interfaces |-> IF route[c] = i THEN now ELSE 0]]
      /\ lookup = Idle
  BY DEF Init
<1>3. now \in Nat \ {0} /\ address \in [Connections -> Interfaces] /\ route = address
  BY <1>1
<1>4. RouteInv
  BY <1>2, <1>3 DEF RouteInv
<1>5. LookupsInv
  BY <1>1, <1>2, <1>3 DEF LookupsInv, NoLookup
<1>6. QED
  BY <1>2, <1>4, <1>5 DEF PathInv, LookupInv

\* What derive_management_path confirms is the interface of a current lookup.
LEMMA ConfirmedPath ==
    ASSUME NEW c \in Connections, NEW found, NEW records, NEW t,
           DerivePath(c, found, records, t).path # "none"
    PROVE  /\ DerivePath(c, found, records, t).path = found.oif
           /\ found.oif \in Interfaces
           /\ found.at # 0 /\ (found.at > 0 => Current(found.at, t))
<1> DEFINE carrying == Carrying(records, c)
           egress   == IF found.oif = "none" THEN {} ELSE Indexed(records, found.oif)
<1>1. c \in Usable /\ found.at # 0 /\ ~ (found.at > 0 /\ ~Current(found.at, t))
  BY DEF DerivePath, Unresolved
<1>2. carrying # {} /\ Cardinality({}) = 0
  BY <1>1, FS_EmptySet DEF DerivePath, Unresolved
<1>3. ~ Cardinality(carrying) > 1
  BY <1>1, <1>2 DEF DerivePath, Unresolved
<1>4. ~ (Cardinality(carrying) = 1 /\ found.oif = "none")
      /\ ~ (Cardinality(carrying) = 1 /\ found.oif # "none" /\ egress = {})
  BY <1>1, <1>2, <1>3 DEF DerivePath, Unresolved
<1>5. carrying = egress /\ DerivePath(c, found, records, t) = Confirmed(found.oif)
  BY <1>1, <1>2, <1>3, <1>4 DEF DerivePath, Unresolved
<1>6. found.oif # "none" /\ egress = {found.oif}
  BY <1>2, <1>5 DEF Indexed
<1>7. carrying \subseteq Interfaces
  BY DEF Carrying
<1>8. QED
  BY <1>1, <1>5, <1>6, <1>7 DEF Confirmed

\* A verdict names an interface the kernel lately routed the connection over.
LEMMA VerdictIsLately ==
    ASSUME PathInv, NEW c \in Connections,
           DerivePath(c, NewestMatching(c), swept, now).path # "none"
    PROVE  DerivePath(c, NewestMatching(c), swept, now).path \in LatelyOver(c)
<1> USE GatesAssumption, PlanningAssumption
<1>1. /\ DerivePath(c, NewestMatching(c), swept, now).path = lookups[c].oif
      /\ lookups[c].oif \in Interfaces
      /\ lookups[c].at # 0 /\ (lookups[c].at > 0 => Current(lookups[c].at, now))
  BY ConfirmedPath DEF NewestMatching
<1>2. /\ lookups[c].at \in Nat /\ now \in Nat /\ routed[c][lookups[c].oif] \in Nat
  BY <1>1 DEF PathInv, RouteInv, LookupsInv
<1>3. now - lookups[c].at <= TTL
  BY <1>1, <1>2 DEF Current
<1>4. routed[c][lookups[c].oif] > 0 /\ lookups[c].at <= routed[c][lookups[c].oif] + LookupTime
  BY <1>1, <1>2 DEF PathInv, LookupsInv
<1>5. now - routed[c][lookups[c].oif] <= TTL + LookupTime
  BY <1>2, <1>3, <1>4
<1>6. QED
  BY <1>1, <1>4, <1>5 DEF LatelyOver

LEMMA RequestStep ==
    ASSUME PathInv, RequestInv, [Next]_vars
    PROVE  RequestInv'
<1> USE DEF RequestInv
<1>1. CASE UNCHANGED request \/ request' = Idle
  BY <1>1
<1>2. ASSUME NEW c \in Connections, NEW k \in {"create", "confirm", "override", "apply"}, Ask(c, k)
      PROVE  RequestInv'
  <2>1. request' = [pc |-> "judged", conn |-> c, kind |-> k, at |-> now, host |-> host,
                    over |-> LatelyOver(c), verdict |-> DerivePath(c, NewestMatching(c), swept, now),
                    context |-> NoContext]
    BY <1>2 DEF Ask
  <2>2. QED
    BY <2>1, VerdictIsLately
<1>3. ASSUME NEW b \in Blind, ObserveContext(b)
      PROVE  RequestInv'
  <2>1. request # Idle /\ now \in Nat
    BY <1>3 DEF ObserveContext, Idle, PathInv, RouteInv
  <2>2. request' = [request EXCEPT !.pc = "ready", !.host = host,
                      !.context = ObservedContext(host, request.verdict.path, b, now)]
    BY <1>3 DEF ObserveContext
  <2>3. /\ request'.pc = "ready" /\ request'.verdict = request.verdict /\ request'.over = request.over
        /\ request'.host = host
        /\ request'.context = ObservedContext(host, request.verdict.path, b, now)
        /\ DOMAIN request' = DOMAIN request
    BY <2>1, <2>2
  <2>4. QED
    BY <2>1, <2>3
<1>4. CASE ContextUnavailable
  <2>1. request # Idle
    BY <1>4 DEF ContextUnavailable, Idle
  <2>2. request' = [request EXCEPT !.pc = "ready", !.context = UnavailableContext(host, now)]
    BY <1>4 DEF ContextUnavailable
  <2>3. /\ request'.pc = "ready" /\ request'.verdict = request.verdict /\ request'.over = request.over
        /\ request'.context = UnavailableContext(host, now)
        /\ DOMAIN request' = DOMAIN request
    BY <2>1, <2>2
  <2>4. request'.context.effectComplete = FALSE
    BY <2>3 DEF UnavailableContext
  <2>5. QED
    BY <2>1, <2>3, <2>4
<1>5. ASSUME NEW pc \in {"compared", "authorised"}, request # Idle, request' = [request EXCEPT !.pc = pc]
      PROVE  RequestInv'
  BY <1>5
<1>6. Compare \/ Consume => RequestInv'
  BY <1>1, <1>5 DEF Compare, Consume, Ready, Idle, Finish
<1>7. QED
  BY <1>1, <1>2, <1>3, <1>4, <1>6
  DEF Next, vars, work, Tick, Reroute, Rewire, Stand, Sweep, ObserveTarget, Lookup, StoreLookup,
      Create, Grant, Unprepared, Cross, Finish

-----------------------------------------------------------------------------
(* What the gates let through.                                             *)

\* The planners refuse, or plan under the protection they assessed.
LEMMA PlannedMtu ==
    ASSUME NEW o, NEW e, o.kind = "mtu", IsPlan(Replan(o, e))
    PROVE  \E change, guard : Replan(o, e) =
             PlanOf(o, change, e, ResourceProtection(e.verdict, Target, TRUE), guard, FALSE, "none",
                    e.context)
<1>1. Replan(o, e) = PlanMtu(o, e)
  BY DEF Replan
<1>2. \A code : ~ IsPlan(Refused(code))
  BY DEF IsPlan, Refused
<1>3. QED
  BY <1>1, <1>2 DEF PlanMtu

LEMMA PlannedContainer ==
    ASSUME NEW o, NEW e, o.kind = "container", IsPlan(Replan(o, e))
    PROVE  \E change, protection, guard : Replan(o, e) =
             PlanOf(o, change, e, protection, guard, FALSE, "none", e.context)
<1>1. Replan(o, e) = PlanContainer(o, e)
  BY DEF Replan
<1>2. \A code : ~ IsPlan(Refused(code))
  BY DEF IsPlan, Refused
<1>3. QED
  BY <1>1, <1>2 DEF PlanContainer

LEMMA PlannedService ==
    ASSUME NEW o, NEW e, o.kind \notin {"mtu", "container"}, IsPlan(Replan(o, e))
    PROVE  \E change, impact : Replan(o, e) =
             PlanOf(o, change, e, LifecycleProtection(e.context), "irreversible",
                    OverrideEligible(e.context, LifecycleProtection(e.context)), impact, e.context)
<1>1. Replan(o, e) = PlanService(o, e)
  BY DEF Replan
<1>2. \A code : ~ IsPlan(Refused(code))
  BY DEF IsPlan, Refused
<1>3. QED
  BY <1>1, <1>2 DEF PlanService

\* A plan is executable only without a blocker that no authority lifts, and then by what
\* protection adds alone; its digest says so too.
LEMMA PlanEligibility ==
    ASSUME NEW o, NEW change, NEW e, NEW protection, NEW guard, NEW overridable, NEW impact, NEW context,
           NEW plan, plan = PlanOf(o, change, e, protection, guard, overridable, impact, context),
           NEW protective, protective = ProtectionBlockers(Definition(o.kind), protection)
    PROVE  /\ Digest(plan).eligibility = plan.eligibility
           /\ plan.eligibility = "eligible" => protective = {}
           /\ plan.eligibility = "guarded" => <<"target", "management_path">> \in protective
           /\ plan.eligibility = "override_required" =>
                protective = {<<"protected", "management_path">>} /\ overridable
<1>1. Digest(plan).eligibility = plan.eligibility
  BY DEF Digest, PlanOf
<1>2. PICK ordinary : plan.eligibility = Eligibility(Definition(o.kind), ordinary, protective, guard, overridable)
  BY DEF PlanOf
<1>3. QED
  BY <1>1, <1>2 DEF Eligibility

\* What protection adds to an MTU change tells the target from the path.
LEMMA MtuBlockers ==
    ASSUME NEW verdict, NEW protective,
           protective = ProtectionBlockers(Definition("mtu"), ResourceProtection(verdict, Target, TRUE))
    PROVE  /\ protective = {} => verdict.path # "none" /\ verdict.path # Target
           /\ <<"target", "management_path">> \in protective => verdict.path = Target
<1> DEFINE relation == Relation(verdict, Target)
<1>1. PICK protection : protection = ResourceProtection(verdict, Target, TRUE)
  OBVIOUS
<1>2. protection.relation = relation
  BY <1>1 DEF ResourceProtection, RollUp
<1>3. protective = CASE relation = "on" -> {<<"target", "management_path">>}
                     [] relation = "unknown" -> {<<"unproven", "management_path">>}
                     [] OTHER -> {}
  BY <1>1, <1>2 DEF ProtectionBlockers, Definition
<1>4. relation \in {"on", "off", "unknown"}
  BY DEF Relation
<1>5. relation = "off" => verdict.path # "none" /\ verdict.path # Target
  BY DEF Relation
<1>6. relation = "on" => verdict.path = Target
  BY GatesAssumption DEF Relation
<1>7. protective = {} => relation = "off"
  BY <1>3, <1>4
<1>8. <<"target", "management_path">> \in protective => relation = "on"
  BY <1>3, <1>4
<1>9. QED
  BY <1>5, <1>6, <1>7, <1>8

\* No other operation has a guard to run under.
LEMMA OnlyMtuGuarded ==
    ASSUME NEW kind, kind # "mtu", NEW protection
    PROVE  <<"target", "management_path">> \notin ProtectionBlockers(Definition(kind), protection)
<1>1. Definition(kind).relation = FALSE
  BY DEF Definition
<1>2. CASE kind = "container"
  BY <1>2 DEF ProtectionBlockers, Definition
<1>3. CASE kind # "container"
  <2>1. Definition(kind).reaches = TRUE
    BY <1>3 DEF Definition
  <2>2. ProtectionBlockers(Definition(kind), protection) =
          CASE protection.status = "protected" -> {<<"protected", r>> : r \in protection.reasons}
            [] protection.status = "unknown" -> {<<"unresolved", r>> : r \in protection.unresolved}
            [] OTHER -> {}
    BY <1>1, <2>1 DEF ProtectionBlockers
  <2>3. QED
    BY <2>2
<1>4. QED
  BY <1>2, <1>3

\* What protection adds to a service action: nothing, when the action is known whole and
\* reaches neither the agent nor a unit the request depends on.
LEMMA ServiceBlockers ==
    ASSUME NEW kind, kind \notin {"mtu", "container"}, NEW context, NEW protective,
           protective = ProtectionBlockers(Definition(kind), LifecycleProtection(context))
    PROVE  protective = {} =>
             /\ context.effects \cap context.management = {} /\ context.agent \notin context.effects
             /\ context.managementComplete /\ context.effectComplete /\ context.agentComplete
<1> SUFFICES ASSUME protective = {}
             PROVE  /\ context.effects \cap context.management = {} /\ context.agent \notin context.effects
                    /\ context.managementComplete /\ context.effectComplete /\ context.agentComplete
  OBVIOUS
<1> DEFINE management ==
             CASE context.effects \cap context.management # {} -> "protected"
               [] context.effects \cap context.management = {}
                    /\ context.managementComplete /\ context.effectComplete -> "clear"
               [] OTHER -> "unknown"
           agent ==
             CASE context.agent \in context.effects -> "protected"
               [] context.agent \notin context.effects
                    /\ context.agentComplete /\ context.effectComplete -> "clear"
               [] OTHER -> "unknown"
           assessed == [r \in {"management_path", "localplane_agent"} |->
                          IF r = "management_path" THEN management ELSE agent]
<1>1. PICK protection : protection = LifecycleProtection(context)
  OBVIOUS
<1>2. protection = RollUp(assessed, "unknown", context.gaps)
  BY <1>1 DEF LifecycleProtection
<1>3. assessed["management_path"] = management /\ assessed["localplane_agent"] = agent
      /\ DOMAIN assessed = {"management_path", "localplane_agent"}
  OBVIOUS
<1> HIDE DEF assessed
<1>4. Definition(kind).relation = FALSE /\ Definition(kind).reaches = TRUE
  BY DEF Definition
<1>5. protective =
        CASE protection.status = "protected" -> {<<"protected", r>> : r \in protection.reasons}
          [] protection.status = "unknown" -> {<<"unresolved", r>> : r \in protection.unresolved}
          [] OTHER -> {}
  BY <1>1, <1>4 DEF ProtectionBlockers
<1>6. PICK bad, open : bad = {r \in DOMAIN assessed : assessed[r] = "protected"}
                       /\ open = {r \in DOMAIN assessed : assessed[r] = "unknown"}
  OBVIOUS
<1>7. /\ protection.reasons = bad /\ protection.unresolved = open
      /\ protection.status = CASE bad # {} -> "protected"
                               [] bad = {} /\ open # {} -> "unknown"
                               [] OTHER -> "clear"
  BY <1>2, <1>6 DEF RollUp
<1>8. bad = {}
  BY <1>5, <1>7
<1>9. open = {}
  BY <1>5, <1>7, <1>8
<1>10. management \notin {"protected", "unknown"} /\ agent \notin {"protected", "unknown"}
  BY <1>3, <1>6, <1>8, <1>9
<1>11. QED
  BY <1>10

-----------------------------------------------------------------------------
(* What is compared, and then dispatched.                                  *)

\* The units a service action reaches and its request depends on, or the agent.
Reached(q) == q.host.effects \cap (ManagementUnits(q.host, q.verdict.path) \cup {q.host.agent})

\* What the last plan established of the target and the request, as published.
PathGate(eligibility) ==
    /\ op.kind = "mtu" /\ eligibility = "eligible" => request.over \ {Target} # {}
    /\ eligibility = "guarded" => op.kind = "mtu" /\ Target \in request.over

ConsoleGate(eligibility) ==
    op.kind = "service" =>
        \/ eligibility = "eligible" /\ Reached(request) = {}
        \/ /\ eligibility = "override_required"
           /\ published.eligibility = eligibility
           /\ Reached(request) = {request.host.runtime}
           /\ request.host.connectionType # "service"

\* It stays established until the boundary, and so does the authority that was consumed.
GateInv ==
    /\ request.pc \in {"compared", "authorised"} =>
         PathGate(published.digest.eligibility) /\ ConsoleGate(published.digest.eligibility)
    /\ request.pc = "authorised" /\ published.eligibility = "override_required" =>
         granted["override"] = published.digest

\* Of an MTU change that still stands, the verdict of its request tells which kind it is.
LEMMA MtuCompared ==
    ASSUME PathInv, RequestInv, Ready("apply"), PlanNow(Replan(op, Evidence))
    PROVE  PathGate(published.digest.eligibility)
<1> USE DEF PathGate
<1>1. PICK plan : plan = Replan(op, Evidence)
  OBVIOUS
<1>2. /\ Ready("apply") /\ PlanNow(plan)
      /\ published.digest = Digest(plan)
  BY <1>1 DEF PlanNow
<1>3. request # Idle
  BY <1>2 DEF Ready, Idle
<1>4. request.verdict.path = "none" \/ request.verdict.path \in request.over
  BY <1>3 DEF RequestInv
<1>5. IsPlan(plan)
  BY <1>2 DEF PlanNow
<1>6. Evidence.verdict = request.verdict
  BY DEF Evidence
<1>7. CASE op.kind = "mtu"
  <2>1. PICK change, protection, guard, overridable, impact :
          /\ protection = ResourceProtection(Evidence.verdict, Target, TRUE)
          /\ plan = PlanOf(op, change, Evidence, protection, guard, overridable, impact, Evidence.context)
    BY <1>1, <1>5, <1>7, PlannedMtu
  <2>2. PICK protective : protective = ProtectionBlockers(Definition(op.kind), protection)
    OBVIOUS
  <2>3. /\ Digest(plan).eligibility = plan.eligibility
        /\ plan.eligibility = "eligible" => protective = {}
        /\ plan.eligibility = "guarded" => <<"target", "management_path">> \in protective
    <3>1. plan = PlanOf(op, change, Evidence, protection, guard, overridable, impact, Evidence.context)
      BY <2>1
    <3>2. QED
      BY <2>2, <3>1, PlanEligibility
  <2>4. /\ protective = {} => request.verdict.path # "none" /\ request.verdict.path # Target
        /\ <<"target", "management_path">> \in protective => request.verdict.path = Target
    BY <1>6, <1>7, <2>1, <2>2, MtuBlockers
  <2>5. Target # "none"
    BY GatesAssumption
  <2>6. QED
    BY <1>2, <1>4, <1>7, <2>3, <2>4, <2>5
<1>8. CASE op.kind # "mtu"
  <2>1. \E change, protection, guard, overridable, impact :
          plan = PlanOf(op, change, Evidence, protection, guard, overridable, impact, Evidence.context)
    <3>1. CASE op.kind = "container"
      BY <1>1, <1>5, <3>1, PlannedContainer
    <3>2. CASE op.kind # "container"
      BY <1>1, <1>5, <1>8, <3>2, PlannedService
    <3>3. QED
      BY <3>1, <3>2
  <2>2. PICK change, protection, guard, overridable, impact :
          plan = PlanOf(op, change, Evidence, protection, guard, overridable, impact, Evidence.context)
    BY <2>1
  <2>3. PICK protective : protective = ProtectionBlockers(Definition(op.kind), protection)
    OBVIOUS
  <2>4. /\ Digest(plan).eligibility = plan.eligibility
        /\ plan.eligibility = "guarded" => <<"target", "management_path">> \in protective
    BY <2>2, <2>3, PlanEligibility
  <2>5. <<"target", "management_path">> \notin protective
    BY <1>8, <2>3, OnlyMtuGuarded
  <2>6. QED
    BY <1>2, <1>8, <2>4, <2>5
<1>9. QED
  BY <1>7, <1>8

-----------------------------------------------------------------------------
(* Service actions.                                                        *)

\* A context read whole names every unit the request depends on, as the host is.
LEMMA WholeContext ==
    ASSUME NEW h, NEW path, NEW blind, NEW t, NEW context,
           context = ObservedContext(h, path, blind, t),
           context.effectComplete, context.managementComplete
    PROVE  /\ context.effects = h.effects
           /\ context.management \ {"none"} = ManagementUnits(h, path)
           /\ context.agentComplete => context.agent = h.agent
           /\ context.owner # "none" =>
                context.owner = h.runtime /\ h.connectionType # "service"
<1> DEFINE socket == ~(blind \cap {"netns", "socket"} # {})
           owned  == socket /\ h.connectionType # "service"
           found  == owned /\ "owner" \notin blind
           units  == IF path = "none" THEN {} ELSE {ConfiguredBy[path]} \ {"none"}
           named  == IF "provider" \in blind THEN {} ELSE units
<1>1. /\ context.effects = IF "graph" \in blind THEN {"target"} ELSE h.effects
      /\ context.effectComplete = ("graph" \notin blind)
      /\ context.owner = IF found THEN h.runtime ELSE "none"
      /\ context.management = (IF socket THEN {h.connection} ELSE {})
                                \cup (IF found THEN {h.runtime} ELSE {}) \cup named
      /\ context.agent = IF "agent" \in blind THEN "none" ELSE h.agent
      /\ context.agentComplete = ("agent" \notin blind)
      /\ context.managementComplete = (context.gaps \subseteq {"graph", "agent"})
  BY DEF ObservedContext
<1>2. /\ "netns" \in blind => "netns" \in context.gaps
      /\ "socket" \in blind => "socket" \in context.gaps
      /\ owned /\ ~found => "runtime_owner" \in context.gaps
      /\ path = "none" => "provider_evidence" \in context.gaps
      /\ named # units => "provider_owner" \in context.gaps
  BY DEF ObservedContext
<1>3. socket /\ (owned => found) /\ path # "none" /\ named = units
  BY <1>1, <1>2
<1>4. context.management = {h.connection} \cup (IF h.connectionType = "service" THEN {} ELSE {h.runtime})
                             \cup ({ConfiguredBy[path]} \ {"none"})
  BY <1>1, <1>3
<1>5. context.management \ {"none"} = ManagementUnits(h, path)
  BY <1>3, <1>4 DEF ManagementUnits
<1>6. QED
  BY <1>1, <1>3, <1>5

LEMMA ServiceCompared ==
    ASSUME RequestInv, Ready("apply"), Executable(published), PlanNow(Replan(op, Evidence))
    PROVE  ConsoleGate(published.digest.eligibility)
<1> SUFFICES ASSUME op.kind = "service",
                    NEW reached, reached = Reached(request)
             PROVE  \/ published.digest.eligibility = "eligible" /\ reached = {}
                    \/ /\ published.digest.eligibility = "override_required"
                       /\ published.eligibility = published.digest.eligibility
                       /\ reached = {request.host.runtime}
                       /\ request.host.connectionType # "service"
  BY DEF ConsoleGate
<1> USE DEF Reached
<1>1. PICK plan : plan = Replan(op, Evidence)
  OBVIOUS
<1>2. /\ Ready("apply") /\ Executable(published) /\ PlanNow(plan)
      /\ published.digest = Digest(plan) /\ published.eligibility = plan.eligibility
  BY <1>1 DEF PlanNow
<1>3. request # Idle /\ request.pc = "ready"
  BY <1>2 DEF Ready, Idle
<1>4. PICK context : context = request.context /\ context = Evidence.context
  BY DEF Evidence
<1>5. PICK change, protection, overridable, impact :
        /\ protection = LifecycleProtection(context)
        /\ overridable = OverrideEligible(context, protection)
        /\ plan = PlanOf(op, change, Evidence, protection, "irreversible", overridable, impact, context)
  BY <1>1, <1>2, <1>4, PlannedService DEF PlanNow
<1>6. PICK protective : protective = ProtectionBlockers(Definition(op.kind), protection)
  OBVIOUS
<1>7. /\ Digest(plan).eligibility = plan.eligibility
      /\ plan.eligibility = "eligible" => protective = {}
      /\ plan.eligibility = "guarded" => <<"target", "management_path">> \in protective
      /\ plan.eligibility = "override_required" => overridable
  BY <1>5, <1>6, PlanEligibility
<1>8. plan.eligibility \in {"eligible", "override_required"}
  <2>1. plan.eligibility \in {"eligible", "guarded", "override_required"}
    BY <1>2 DEF Executable, PlanNow
  <2>2. plan.eligibility # "guarded"
    BY <1>6, <1>7, OnlyMtuGuarded
  <2>3. QED
    BY <2>1, <2>2
<1>9. plan.eligibility = "eligible" =>
        /\ context.effects \cap context.management = {} /\ context.agent \notin context.effects
        /\ context.managementComplete /\ context.effectComplete /\ context.agentComplete
  BY <1>5, <1>6, <1>7, ServiceBlockers
<1>10. plan.eligibility = "override_required" =>
         /\ context.owner # "none" /\ context.effects \cap context.management = {context.owner}
         /\ context.agent \notin context.effects
         /\ context.managementComplete /\ context.effectComplete /\ context.agentComplete
  BY <1>5, <1>7 DEF OverrideEligible, AgentStandsOutside
<1>11. PICK b \in Blind, t \in Nat :
         context = ObservedContext(request.host, request.verdict.path, b, t)
  BY <1>3, <1>4, <1>8, <1>9, <1>10 DEF RequestInv
<1>12. /\ context.effects = request.host.effects
       /\ context.management \ {"none"} = ManagementUnits(request.host, request.verdict.path)
       /\ context.agent = request.host.agent
       /\ context.owner # "none" =>
            context.owner = request.host.runtime /\ request.host.connectionType # "service"
  BY <1>8, <1>9, <1>10, <1>11, WholeContext
<1>13. CASE plan.eligibility = "eligible"
  BY <1>2, <1>7, <1>9, <1>12, <1>13
<1>14. CASE plan.eligibility = "override_required"
  <2>1. reached = {request.host.runtime}
    BY <1>10, <1>12, <1>14
  <2>2. QED
    BY <1>2, <1>7, <1>10, <1>12, <1>14, <2>1
<1>15. QED
  BY <1>8, <1>13, <1>14

-----------------------------------------------------------------------------
(* What crosses the boundary.                                              *)

LEMMA GateStep ==
    ASSUME PathInv, RequestInv, GateInv, [Next]_vars
    PROVE  GateInv'
<1> USE DEF GateInv
<1>1. CASE request'.pc \notin {"compared", "authorised"}
  BY <1>1
<1>2. CASE UNCHANGED <<op, published, granted, spent, request>>
  BY <1>2 DEF PathGate, ConsoleGate, Reached, Authority, ManagementUnits
<1>3. CASE Compare
  <2>1. CASE Executable(published) /\ PlanNow(Replan(op, Evidence))
    <3>1. PathGate(published.digest.eligibility) /\ ConsoleGate(published.digest.eligibility)
      BY <1>3, <2>1, MtuCompared, ServiceCompared DEF Compare
    <3>2. request' = [request EXCEPT !.pc = "compared"] /\ UNCHANGED <<op, published, granted, spent>>
      BY <1>3, <2>1 DEF Compare
    <3>3. request # Idle
      BY <1>3 DEF Compare, Ready, Idle
    <3>4. /\ request'.pc = "compared" /\ request'.over = request.over /\ request'.host = request.host
          /\ request'.verdict = request.verdict
      BY <3>2, <3>3 DEF RequestInv
    <3>5. QED
      BY <3>1, <3>2, <3>4 DEF PathGate, ConsoleGate, Reached, ManagementUnits
  <2>2. CASE request' = Idle
    BY <1>1, <2>2 DEF Idle
  <2>3. QED
    BY <1>3, <2>1, <2>2 DEF Compare, Finish
<1>4. CASE Consume
  <2>1. CASE Authority
    <3>1. /\ request' = [request EXCEPT !.pc = "authorised"] /\ spent'
          /\ UNCHANGED <<op, published, granted>> /\ request.pc = "compared"
      BY <1>4, <2>1 DEF Consume
    <3>2. request # Idle
      BY <3>1 DEF Idle
    <3>3. /\ request'.pc = "authorised" /\ request'.over = request.over /\ request'.host = request.host
          /\ request'.verdict = request.verdict
      BY <3>1, <3>2 DEF RequestInv
    <3>4. QED
      BY <2>1, <3>1, <3>3 DEF PathGate, ConsoleGate, Reached, Authority, ManagementUnits
  <2>2. CASE request' = Idle
    BY <1>1, <2>2 DEF Idle
  <2>3. QED
    BY <1>4, <2>1, <2>2 DEF Consume, Finish
<1>5. CASE request' = Idle
  BY <1>1, <1>5 DEF Idle
<1>6. ASSUME NEW c \in Connections, NEW k \in {"create", "confirm", "override", "apply"}, Ask(c, k)
      PROVE  GateInv'
  BY <1>1, <1>6 DEF Ask
<1>7. ASSUME NEW h, NEW context, request' = [request EXCEPT !.pc = "ready", !.host = h, !.context = context],
             request # Idle
      PROVE  GateInv'
  BY <1>1, <1>7 DEF RequestInv
<1>8. ASSUME NEW context, request' = [request EXCEPT !.pc = "ready", !.context = context],
             request # Idle
      PROVE  GateInv'
  BY <1>1, <1>8 DEF RequestInv
<1>9. ASSUME NEW b \in Blind, ObserveContext(b)
      PROVE  GateInv'
  BY <1>7, <1>9 DEF ObserveContext, Idle
<1>10. CASE ContextUnavailable
  BY <1>8, <1>10 DEF ContextUnavailable, Idle
<1>11. QED
  BY <1>2, <1>3, <1>4, <1>5, <1>6, <1>9, <1>10
  DEF Next, vars, work, evidence, truth, Tick, Reroute, Rewire, Stand, Sweep, ObserveTarget, Lookup,
      StoreLookup, Create, Grant, Unprepared, Cross, Finish

\* What is dispatched was compared by its own request, and its authority consumed.
LEMMA DispatchedByCross ==
    ASSUME GateInv, [Next]_vars, Passed
    PROVE  /\ PathGate(published.digest.eligibility) /\ ConsoleGate(published.digest.eligibility)
           /\ published.eligibility = "override_required" => granted["override"] = published.digest
           /\ dispatched'.plan = published.digest /\ dispatched'.over = request.over
           /\ dispatched'.host = request.host /\ dispatched'.path = request.verdict.path
<1>1. Cross
  BY DEF Next, Passed, vars, work, Tick, Reroute, Rewire, Stand, Sweep, ObserveTarget, Lookup,
     StoreLookup, Ask, ObserveContext, ContextUnavailable, Create, Grant, Compare, Consume, Unprepared
<1>2. QED
  BY <1>1 DEF Cross, GateInv, Authority

LEMMA GatesHold == Spec => [](PathInv /\ RequestInv /\ GateInv)
<1>1. Init => RequestInv /\ GateInv
  BY DEF Init, RequestInv, GateInv, Idle
<1>2. QED
  BY <1>1, PathInit, PathStep, RequestStep, GateStep, PTL DEF Spec

\* An MTU change dispatched as ordinary spares the interface its own request came over,
\* for any routes that change in any order and any age the evidence may have
\* (derive_management_path, assess_execution, apply_run).
THEOREM OrdinaryApplyAlwaysSparesThePath == Spec => OrdinaryApplySparesThePath
<1>1. ASSUME GateInv, [Next]_vars
      PROVE  [Passed /\ op.kind = "mtu" /\ dispatched'.plan.eligibility = "eligible"
                => dispatched'.over \ {Target} # {}]_vars
  BY <1>1, DispatchedByCross DEF PathGate
<1>2. QED
  BY <1>1, GatesHold, PTL DEF Spec, OrdinaryApplySparesThePath

\* A guarded change is an MTU change of the interface the kernel lately routed the
\* request's own connection over (assess_guard, _plan_now, apply_run).
THEOREM GuardedApplyIsAlwaysOnThePath == Spec => GuardedApplyIsOnThePath
<1>1. ASSUME GateInv, [Next]_vars
      PROVE  [Passed /\ dispatched'.plan.eligibility = "guarded"
                => /\ op.kind = "mtu"
                   /\ Target \in dispatched'.over]_vars
  BY <1>1, DispatchedByCross DEF PathGate
<1>2. QED
  BY <1>1, GatesHold, PTL DEF Spec, GuardedApplyIsOnThePath

\* A service action reaches nothing its request depends on, as the host was when it was
\* looked at; under the override, the container runtime and nothing else, whatever could
\* not be read (assess_lifecycle_protection, assess_backend_self_impact).
THEOREM ServiceAlwaysSparesTheConsole == Spec => ServiceSparesTheConsole
<1>1. ASSUME GateInv, [Next]_vars
      PROVE  [Passed /\ op.kind = "service"
                => LET d == dispatched'
                       reached == d.host.effects \cap (ManagementUnits(d.host, d.path) \cup {d.host.agent})
                   IN \/ d.plan.eligibility = "eligible" /\ reached = {}
                      \/ /\ d.plan.eligibility = "override_required"
                         /\ reached = {d.host.runtime}
                         /\ d.host.connectionType # "service"
                         /\ granted["override"] = d.plan]_vars
  BY <1>1, DispatchedByCross DEF ConsoleGate, Reached
<1>2. QED
  BY <1>1, GatesHold, PTL DEF Spec, ServiceSparesTheConsole

-----------------------------------------------------------------------------
(* The effect graph: any host, and a walk that has not begun.              *)

Kinds == Actions \cup {"verify", "footprint", "source", "inspect"}
Works == [name : Names, kind : Kinds]

\* Names that are canonical ids are their own. Nothing else is asked of the host.
AnyHost ==
    /\ canon \in [Names -> Names]
    /\ \A n \in Names : canon[canon[n]] = canon[n]
    /\ action \in Actions

Unbegun ==
    /\ pending = <<>> /\ queued = {} /\ visited = {} /\ todo = {}
    /\ edges = {} /\ gaps = {} /\ answer = NoAnswer

LEMMA InitIsOne == WalkInit => AnyHost /\ Unbegun
BY DEF WalkInit, AnyHost, Unbegun

-----------------------------------------------------------------------------
(* What a unit refers to.                                                  *)

\* A reference is one of the unit's relations, and only a job has references.
LEMMA ReferenceIsRelated ==
    ASSUME NEW u, NEW k, NEW q \in References(u, k)
    PROVE  k \in Actions /\ q.to \in Related(u, q.relation) /\ q.kind \in Kinds
BY DEF References, StartJobs, Actions, Kinds

\* What would start a unit again, as a reference of that unit.
Reactivator(r, n) == [relation |-> r, to |-> n, kind |-> "source", edge |-> TRUE]

\* A job's unit refers to everything that would start it again.
LEMMA ReactivatorsAreReferences ==
    ASSUME NEW u, NEW k \in Actions, NEW r \in Reactivation, NEW n \in Related(u, r)
    PROVE  Reactivator(r, n) \in References(u, k)
<1>. DEFINE of(s) == {[relation |-> s, to |-> m, kind |-> "source", edge |-> TRUE] : m \in Related(u, s)}
<1>1. Reactivator(r, n) \in of(r) BY DEF Reactivator
<1>2. Reactivator(r, n) \in UNION {of(s) : s \in Reactivation} BY <1>1
<1>. QED BY <1>2 DEF References

\* What is at the other end of a relation is loaded under its own name.
LEMMA ReactivatorsAreCanonical ==
    ASSUME NEW u, NEW r \in Reactivation, NEW n \in Related(u, r)
    PROVE  n \in Names /\ canon[n] = n
BY DEF Related, Reactivation, OtherEnd, Loaded

LEMMA RelatedIsName == ASSUME NEW u, NEW r, NEW n \in Related(u, r) PROVE n \in Names
BY DEF Related

-----------------------------------------------------------------------------
(* The invariant.                                                          *)

Typed ==
    /\ AnyHost
    /\ pending \in Seq([name : Names, kind : Kinds, depth : Nat])
    /\ queued \subseteq Works

\* What is being followed belongs to the unit at hand, which was visited.
AtHand ==
    todo # {} => /\ at.depth \in Nat
                 /\ Work(at.name, at.kind) \in visited
                 /\ todo \subseteq References(at.name, at.kind)

\* An edge is a relation of the host.
EdgesAreReal == \A e \in edges : e[3] \in Related(e[1], e[2])

\* The walk starts from the job asked about.
Started ==
    /\ visited # {} \/ pending # <<>> => queued # {}
    /\ queued # {} => Work(TargetUnit, action) \in queued /\ canon[TargetUnit] = TargetUnit

\* Every reference of a visited unit was followed or is about to be.
StillToFollow(w, q) == w = Work(at.name, at.kind) /\ q \in todo
FollowedEdges ==
    gaps = {} => \A w \in visited : \A q \in References(w.name, w.kind) :
        \/ StillToFollow(w, q)
        \/ /\ Work(q.to, q.kind) \in queued
           /\ q.edge => <<w.name, q.relation, q.to>> \in edges

\* Every piece of work ever queued was done or is waiting.
Waiting(w) == \E i \in DOMAIN pending : pending[i].name = w.name /\ pending[i].kind = w.kind
Done ==
    gaps = {} => \A w \in queued : Work(canon[w.name], w.kind) \in visited \/ Waiting(w)

IInv ==
    /\ Typed /\ AtHand /\ EdgesAreReal /\ Started /\ FollowedEdges /\ Done
    /\ CompleteIsClosed /\ CompleteNamesReactivators

-----------------------------------------------------------------------------
(* Step by step.                                                           *)

LEMMA Initially == AnyHost /\ Unbegun => IInv
<1>. SUFFICES ASSUME AnyHost, Unbegun PROVE IInv OBVIOUS
<1>1. Typed /\ AtHand /\ EdgesAreReal /\ Started /\ FollowedEdges /\ Done
  BY DEF Unbegun, Typed, AtHand, EdgesAreReal, Started, FollowedEdges, Done
<1>2. CompleteIsClosed /\ CompleteNamesReactivators
  BY DEF Unbegun, NoAnswer, CompleteIsClosed, CompleteNamesReactivators
<1>. QED BY <1>1, <1>2 DEF IInv

\* The host holds still.
LEMMA HostHolds ==
    ASSUME UNCHANGED hostvars
    PROVE  /\ AnyHost => AnyHost'
           /\ \A u, r : Related(u, r)' = Related(u, r)
           /\ \A u, k : References(u, k)' = References(u, k)
<1>1. \A u, r : Related(u, r)' = Related(u, r) BY DEF Related, Loaded, hostvars
<1>2. \A u, k : References(u, k)' = References(u, k)
  <2>. SUFFICES ASSUME NEW u, NEW k PROVE References(u, k)' = References(u, k) OBVIOUS
  <2>. QED BY DEF References, Related, Loaded, hostvars
<1>. QED BY <1>1, <1>2 DEF AnyHost, hostvars

LEMMA BeginKeeps == ASSUME IInv, Begin PROVE IInv'
<1>1. UNCHANGED <<hostvars, visited, todo, at, edges, gaps>> BY DEF Begin
<1>2. AnyHost' /\ \A u, r : Related(u, r)' = Related(u, r) BY <1>1, HostHolds DEF IInv, Typed
<1>3. AtHand' BY <1>1, HostHolds DEF IInv, AtHand
<1>4. EdgesAreReal' BY <1>1, <1>2 DEF IInv, EdgesAreReal
<1>5. (CompleteIsClosed /\ CompleteNamesReactivators)'
  <2>1. answer'.status # "complete" BY DEF Begin, NoAnswer
  <2>. QED BY <2>1 DEF CompleteIsClosed, CompleteNamesReactivators
<1>6. CASE ~Loaded(TargetUnit)
  <2>1. UNCHANGED <<pending, queued>> BY <1>6 DEF Begin
  <2>2. Typed' BY <1>2, <2>1 DEF IInv, Typed
  <2>3. Started' BY <1>1, <2>1 DEF IInv, Started, hostvars
  <2>4. FollowedEdges' BY <1>1, <2>1, HostHolds DEF IInv, FollowedEdges, StillToFollow
  <2>5. Done' BY <1>1, <2>1 DEF IInv, Done, Waiting, hostvars
  <2>. QED BY <1>3, <1>4, <1>5, <2>2, <2>3, <2>4, <2>5 DEF IInv
<1>7. CASE Loaded(TargetUnit)
  <2>. DEFINE w == [name |-> TargetUnit, kind |-> action, depth |-> 0]
  <2>1. pending' = <<w>> /\ queued' = {Work(TargetUnit, action)} /\ queued = {}
    BY <1>7 DEF Begin
  <2>2. w \in [name : Names, kind : Kinds, depth : Nat] /\ Work(TargetUnit, action) \in Works
    BY EffectGraphAssumption DEF IInv, Typed, AnyHost, Kinds, Works, Work
  <2>3. Typed'
    <3>1. pending' \in Seq([name : Names, kind : Kinds, depth : Nat]) BY <2>1, <2>2
    <3>2. queued' \subseteq Works BY <2>1, <2>2
    <3>. QED BY <1>2, <3>1, <3>2 DEF Typed
  <2>4. Started' BY <1>1, <1>7, <2>1 DEF Started, Loaded, hostvars
  <2>5. FollowedEdges'
    <3>1. gaps = {} => \A v \in visited : \A q \in References(v.name, v.kind) : StillToFollow(v, q)
      BY <2>1 DEF IInv, FollowedEdges
    <3>. QED BY <1>1, <3>1, HostHolds DEF FollowedEdges, StillToFollow
  <2>6. Done'
    <3>1. 1 \in DOMAIN pending' /\ pending'[1] = w BY <2>1
    <3>2. \A v \in queued' : \E i \in DOMAIN pending' :
              pending'[i].name = v.name /\ pending'[i].kind = v.kind
      BY <2>1, <3>1 DEF Work
    <3>. QED BY <3>2 DEF Done, Waiting
  <2>. QED BY <1>3, <1>4, <1>5, <2>3, <2>4, <2>5, <2>6 DEF IInv
<1>. QED BY <1>6, <1>7

\* A visit: the oldest piece of work is no longer waiting, because it is done.
LEMMA VisitKeeps == ASSUME IInv, Visit PROVE IInv'
<1>. DEFINE w == Head(pending)
            c == canon[w.name]
            Piece == [name : Names, kind : Kinds, depth : Nat]
<1>1. UNCHANGED <<hostvars, queued, edges, answer>> /\ answer = NoAnswer /\ todo = {} /\ pending # <<>>
  BY DEF Visit
<1>2. pending \in Seq(Piece) /\ w \in Piece /\ pending' = Tail(pending) /\ pending' \in Seq(Piece)
  <2>1. pending \in Seq(Piece) /\ pending # <<>> BY <1>1 DEF IInv, Typed
  <2>2. pending' = Tail(pending) BY DEF Visit
  <2>3. Head(pending) \in Piece /\ Tail(pending) \in Seq(Piece) BY <2>1, HeadTailProperties
  <2>. QED BY <2>1, <2>2, <2>3
<1>3. AnyHost' /\ \A u, r : Related(u, r)' = Related(u, r) BY <1>1, HostHolds DEF IInv, Typed
<1>4. Typed' BY <1>1, <1>2, <1>3 DEF IInv, Typed
<1>5. EdgesAreReal' BY <1>1, <1>3 DEF IInv, EdgesAreReal
<1>6. Started' BY <1>1 DEF IInv, Started, hostvars
<1>7. (CompleteIsClosed /\ CompleteNamesReactivators)'
  BY <1>1 DEF NoAnswer, CompleteIsClosed, CompleteNamesReactivators
<1>8. gaps \subseteq gaps' BY DEF Visit
<1>9. gaps' = {} => unit[c] # "absent" BY DEF Visit
<1>10. visited \subseteq visited' BY DEF Visit
<1>11. unit[c] # "absent" => Work(c, w.kind) \in visited' BY DEF Visit
<1>12. ASSUME unit[c] = "absent" \/ Work(c, w.kind) \in visited
       PROVE  AtHand' /\ FollowedEdges'
  <2>1. UNCHANGED <<visited, todo, at>> BY <1>12 DEF Visit
  <2>2. AtHand' BY <1>1, <2>1 DEF AtHand
  <2>3. FollowedEdges' BY <1>1, <1>8, <2>1, HostHolds DEF IInv, FollowedEdges, StillToFollow
  <2>. QED BY <2>2, <2>3
<1>13. ASSUME ~(unit[c] = "absent" \/ Work(c, w.kind) \in visited)
       PROVE  AtHand' /\ FollowedEdges'
  <2>1. /\ visited' = visited \cup {Work(c, w.kind)}
        /\ at' = [w EXCEPT !.name = c]
        /\ todo' = References(c, w.kind)
    BY <1>13 DEF Visit
  <2>2. at'.name = c /\ at'.kind = w.kind /\ at'.depth \in Nat BY <1>2, <2>1
  <2>3. AtHand' BY <1>1, <2>1, <2>2, HostHolds DEF AtHand, Work
  <2>4. FollowedEdges'
    <3>. SUFFICES ASSUME gaps' = {}, NEW v \in visited', NEW q \in References(v.name, v.kind)'
                  PROVE  \/ StillToFollow(v, q)'
                         \/ /\ Work(q.to, q.kind) \in queued'
                            /\ q.edge => <<v.name, q.relation, q.to>> \in edges'
      BY DEF FollowedEdges
    <3>1. q \in References(v.name, v.kind) BY <1>1, HostHolds
    <3>2. CASE v \in visited
      BY <1>1, <1>8, <3>1, <3>2 DEF IInv, FollowedEdges, StillToFollow
    <3>3. CASE v = Work(c, w.kind)
      BY <2>1, <2>2, <3>1, <3>3 DEF StillToFollow, Work
    <3>. QED BY <2>1, <3>2, <3>3
  <2>. QED BY <2>3, <2>4
<1>14. Done'
  <2>. SUFFICES ASSUME gaps' = {}, NEW v \in queued
                PROVE  Work(canon[v.name], v.kind) \in visited' \/ Waiting(v)'
    BY <1>1 DEF Done, hostvars
  <2>1. CASE Work(canon[v.name], v.kind) \in visited BY <1>10, <2>1
  <2>2. CASE Waiting(v)
    <3>1. PICK i \in DOMAIN pending : pending[i].name = v.name /\ pending[i].kind = v.kind
      BY <2>2 DEF Waiting
    <3>2. CASE i = 1
      <4>1. pending[i] = w BY <3>2
      <4>. QED BY <1>9, <1>11, <3>1, <4>1
    <3>3. CASE i # 1
      <4>1. i - 1 \in DOMAIN pending' /\ pending'[i - 1] = pending[i] BY <1>2, <3>3
      <4>. QED BY <3>1, <4>1 DEF Waiting
    <3>. QED BY <3>2, <3>3
  <2>. QED BY <1>8, <2>1, <2>2 DEF IInv, Done
<1>. QED BY <1>4, <1>5, <1>6, <1>7, <1>12, <1>13, <1>14 DEF IInv

\* Following a reference: what it leads to is queued, or the walk owns up to a limit.
LEMMA FollowKeeps == ASSUME IInv, NEW r \in todo, Follow(r) PROVE IInv'
<1>. DEFINE edge == <<at.name, r.relation, r.to>>
            Piece == [name : Names, kind : Kinds, depth : Nat]
            new == [name |-> r.to, kind |-> r.kind, depth |-> at.depth + 1]
<1>1. /\ UNCHANGED <<hostvars, visited, at, answer>>
      /\ answer = NoAnswer /\ todo' = todo \ {r}
  BY DEF Follow
<1>2. AnyHost' /\ \A u, s : Related(u, s)' = Related(u, s) BY <1>1, HostHolds DEF IInv, Typed
<1>3. /\ r \in References(at.name, at.kind) /\ at.depth \in Nat
      /\ Work(at.name, at.kind) \in visited
  BY DEF IInv, AtHand
<1>4. r.to \in Related(at.name, r.relation) /\ r.to \in Names /\ r.kind \in Kinds
  BY <1>3, ReferenceIsRelated, RelatedIsName
<1>5. AtHand' BY <1>1, HostHolds DEF IInv, AtHand
<1>6. (CompleteIsClosed /\ CompleteNamesReactivators)'
  BY <1>1 DEF NoAnswer, CompleteIsClosed, CompleteNamesReactivators
<1>7. gaps \subseteq gaps' /\ edges \subseteq edges' /\ edges' \subseteq edges \cup {edge}
  BY DEF Follow, Enqueue
<1>8. EdgesAreReal' BY <1>2, <1>4, <1>7 DEF IInv, EdgesAreReal
<1>9. \/ UNCHANGED <<pending, queued>>
      \/ pending' = Append(pending, new) /\ queued' = queued \cup {Work(r.to, r.kind)}
  BY DEF Follow, Enqueue
<1>10. gaps' = {} => /\ Work(r.to, r.kind) \in queued'
                     /\ r.edge => edge \in edges'
  BY DEF Follow, Enqueue
<1>11. queued \subseteq queued' BY <1>9
<1>12. pending \in Seq(Piece) /\ new \in Piece BY <1>3, <1>4 DEF IInv, Typed
<1>13. Typed'
  <2>1. Append(pending, new) \in Seq(Piece) BY <1>12, AppendProperties
  <2>4. pending' \in Seq(Piece) BY <1>9, <1>12, <2>1
  <2>2. Work(r.to, r.kind) \in Works BY <1>4 DEF Work, Works
  <2>3. queued' \subseteq Works BY <1>9, <2>2 DEF IInv, Typed
  <2>. QED BY <1>2, <2>3, <2>4 DEF Typed
<1>14. Started'
  <2>1. queued # {} BY <1>3 DEF IInv, Started
  <2>. QED BY <1>1, <1>11, <2>1 DEF IInv, Started, hostvars
<1>15. FollowedEdges'
  <2>. SUFFICES ASSUME gaps' = {}, NEW v \in visited, NEW q \in References(v.name, v.kind)'
                PROVE  \/ StillToFollow(v, q)'
                       \/ /\ Work(q.to, q.kind) \in queued'
                          /\ q.edge => <<v.name, q.relation, q.to>> \in edges'
    BY <1>1 DEF FollowedEdges
  <2>1. q \in References(v.name, v.kind) BY <1>1, HostHolds
  <2>2. CASE StillToFollow(v, q) /\ q # r BY <1>1, <2>2 DEF StillToFollow
  <2>3. CASE StillToFollow(v, q) /\ q = r
    <3>1. v.name = at.name BY <2>3 DEF StillToFollow, Work
    <3>. QED BY <1>10, <2>3, <3>1
  <2>4. CASE /\ Work(q.to, q.kind) \in queued
             /\ q.edge => <<v.name, q.relation, q.to>> \in edges
    BY <1>7, <1>11, <2>4
  <2>. QED BY <1>7, <2>1, <2>2, <2>3, <2>4 DEF IInv, FollowedEdges
<1>16. Done'
  <2>. SUFFICES ASSUME gaps' = {}, NEW v \in queued'
                PROVE  Work(canon[v.name], v.kind) \in visited \/ Waiting(v)'
    BY <1>1 DEF Done, hostvars
  <2>1. CASE v \in queued
    <3>1. CASE Work(canon[v.name], v.kind) \in visited BY <3>1
    <3>2. CASE Waiting(v)
      <4>1. PICK i \in DOMAIN pending : pending[i].name = v.name /\ pending[i].kind = v.kind
        BY <3>2 DEF Waiting
      <4>2. i \in DOMAIN Append(pending, new) /\ Append(pending, new)[i] = pending[i]
        BY <1>12, AppendProperties
      <4>3. i \in DOMAIN pending' /\ pending'[i] = pending[i] BY <1>9, <4>2
      <4>. QED BY <4>1, <4>3 DEF Waiting
    <3>. QED BY <1>7, <2>1, <3>1, <3>2 DEF IInv, Done
  <2>2. CASE v \notin queued
    <3>1. pending' = Append(pending, new) /\ v = Work(r.to, r.kind) BY <1>9, <2>2
    <3>2. Len(pending) + 1 \in DOMAIN pending' /\ pending'[Len(pending) + 1] = new
      BY <1>12, <3>1, AppendProperties
    <3>. QED BY <3>1, <3>2 DEF Waiting, Work
  <2>. QED BY <2>1, <2>2
<1>. QED BY <1>5, <1>6, <1>8, <1>13, <1>14, <1>15, <1>16 DEF IInv

\* A walk with nothing left to do and nothing to own up to has done all it met.
LEMMA AllDone ==
    ASSUME IInv, queued # {}, pending = <<>>, todo = {}, gaps = {}
    PROVE  /\ Work(TargetUnit, action) \in visited
           /\ \A w \in visited : \A q \in References(w.name, w.kind) :
                 /\ Work(canon[q.to], q.kind) \in visited
                 /\ q.edge => <<w.name, q.relation, q.to>> \in edges
<1>1. \A w \in queued : Work(canon[w.name], w.kind) \in visited BY DEF IInv, Done, Waiting
<1>2. Work(TargetUnit, action) \in visited BY <1>1 DEF IInv, Started, Work
<1>3. \A w \in visited : \A q \in References(w.name, w.kind) :
          /\ Work(q.to, q.kind) \in queued
          /\ q.edge => <<w.name, q.relation, q.to>> \in edges
  BY DEF IInv, FollowedEdges, StillToFollow
<1>4. \A n, k : Work(n, k) \in queued => Work(canon[n], k) \in visited
  BY <1>1 DEF Work
<1>. QED BY <1>2, <1>3, <1>4

\* The jobs it visited are then closed.
LEMMA VisitedIsClosed ==
    ASSUME IInv, queued # {}, pending = <<>>, todo = {}, gaps = {}
    PROVE  Closed({w \in visited : w.kind \in Actions \cup {"verify"}})
<1>. DEFINE jobs == {w \in visited : w.kind \in Actions \cup {"verify"}}
<1>1. Work(TargetUnit, action) \in jobs
  BY AllDone DEF Work, IInv, Typed, AnyHost
<1>2. ASSUME NEW w \in jobs, NEW q \in References(w.name, w.kind), q.kind \in Actions \cup {"verify"}
      PROVE  Work(canon[q.to], q.kind) \in jobs
  <2>1. Work(canon[q.to], q.kind) \in visited BY AllDone
  <2>2. Work(canon[q.to], q.kind).kind = q.kind BY DEF Work
  <2>. QED BY <1>2, <2>1, <2>2
<1>. QED BY <1>1, <1>2 DEF Closed, Brings

\* What reads the target's active reactivators off the edges reads all of them.
LEMMA SourcesAreReactivators ==
    ASSUME IInv, queued # {}, pending = <<>>, todo = {}, gaps = {}, EndGaps = {},
           NEW r \in Reactivation
    PROVE  Sources(r, edges) = {v \in Related(TargetUnit, r) : unit[v] = "active"}
<1>1. \A e \in edges : e[3] \in DOMAIN resolved BY DEF EndGaps
<1>2. ASSUME NEW v \in Sources(r, edges) PROVE v \in Related(TargetUnit, r) /\ unit[v] = "active"
  <2>1. PICK e \in edges : v = canon[e[3]] /\ e[1] = TargetUnit /\ e[2] = r /\ unit[canon[e[3]]] = "active"
    BY <1>2 DEF Sources
  <2>2. e[3] \in Related(TargetUnit, r) BY <2>1 DEF IInv, EdgesAreReal
  <2>. QED BY <2>1, <2>2, ReactivatorsAreCanonical
<1>3. ASSUME NEW v \in Related(TargetUnit, r), unit[v] = "active" PROVE v \in Sources(r, edges)
  <2>1. action \in Actions BY DEF IInv, Typed, AnyHost
  <2>2. Reactivator(r, v) \in References(TargetUnit, action) BY <2>1, ReactivatorsAreReferences
  <2>3. <<TargetUnit, r, v>> \in edges
    <3>1. Work(TargetUnit, action) \in visited BY AllDone
    <3>2. Work(TargetUnit, action).name = TargetUnit /\ Work(TargetUnit, action).kind = action BY DEF Work
    <3>. QED BY <2>2, <3>1, <3>2, AllDone DEF Reactivator
  <2>4. canon[v] = v BY ReactivatorsAreCanonical
  <2>. DEFINE e == <<TargetUnit, r, v>>
  <2>5. /\ e \in edges /\ e[1] = TargetUnit /\ e[2] = r /\ e[3] = v
        /\ e[3] \in DOMAIN resolved
    BY <1>1, <2>3
  <2>. HIDE DEF e
  <2>. QED BY <1>3, <2>4, <2>5 DEF Sources, Reactivates
<1>. QED BY <1>2, <1>3

\* And no other job it visited has one.
LEMMA OthersStayDown ==
    ASSUME IInv, queued # {}, pending = <<>>, todo = {}, gaps = {}, EndGaps = {},
           NEW w \in visited, w.kind \in Actions, w.name # TargetUnit,
           NEW r \in Reactivation, NEW v \in Related(w.name, r), unit[v] = "active"
    PROVE  FALSE
<1>1. Reactivator(r, v) \in References(w.name, w.kind) BY ReactivatorsAreReferences
<1>2. <<w.name, r, v>> \in edges BY <1>1, AllDone DEF Reactivator
<1>3. canon[v] = v BY ReactivatorsAreCanonical
<1>. DEFINE e == <<w.name, r, v>>
<1>4. e \in edges /\ e[1] = w.name /\ e[2] = r /\ e[3] = v BY <1>2
<1>. HIDE DEF e
<1>5. e[3] \in DOMAIN resolved BY <1>4 DEF EndGaps
<1>6. Reactivates(e) /\ unit[canon[e[3]]] = "active" /\ e[1] # TargetUnit
  BY <1>3, <1>4, <1>5 DEF Reactivates
<1>7. "reactivation" \in EndGaps BY <1>4, <1>6 DEF EndGaps
<1>. QED BY <1>7

\* Whatever the answer, the walk itself stands where it stood.
LEMMA AnswerKeepsRest ==
    ASSUME IInv, UNCHANGED <<hostvars, pending, queued, admitted, resolved, visited, todo, at, edges, budget>>,
           gaps \subseteq gaps'
    PROVE  (Typed /\ AtHand /\ EdgesAreReal /\ Started /\ FollowedEdges /\ Done)'
<1>1. AnyHost' /\ \A u, r : Related(u, r)' = Related(u, r) BY HostHolds DEF IInv, Typed
<1>2. Typed' BY <1>1 DEF IInv, Typed
<1>3. AtHand' BY HostHolds DEF IInv, AtHand
<1>4. EdgesAreReal' BY <1>1 DEF IInv, EdgesAreReal
<1>5. Started' BY DEF IInv, Started, hostvars
<1>6. FollowedEdges' BY HostHolds DEF IInv, FollowedEdges, StillToFollow
<1>7. Done' BY DEF IInv, Done, Waiting, hostvars
<1>. QED BY <1>2, <1>3, <1>4, <1>5, <1>6, <1>7

LEMMA FinishKeeps == ASSUME IInv, Conclude PROVE IInv'
<1>1. /\ queued # {} /\ pending = <<>> /\ todo = {}
      /\ gaps' = gaps \cup EndGaps
      /\ UNCHANGED <<hostvars, pending, queued, admitted, resolved, visited, todo, at, edges, budget>>
  BY DEF Conclude
<1>2. (Typed /\ AtHand /\ EdgesAreReal /\ Started /\ FollowedEdges /\ Done)' BY <1>1, AnswerKeepsRest
<1>3. /\ answer'.status = IF gaps' = {} THEN "complete" ELSE "partial"
      /\ answer'.triggers = Sources("TriggeredBy", edges)
      /\ answer'.upholders = Sources("UpheldBy", edges)
      /\ answer'.units = {w.name : w \in {v \in visited : \/ v.kind # "inspect"
                                                          \/ StopsUnneeded(v.name, v.kind)}}
  BY DEF Conclude, Answer
<1>4. CASE gaps' # {}
  <2>1. answer'.status # "complete" BY <1>3, <1>4
  <2>2. (CompleteIsClosed /\ CompleteNamesReactivators)'
    BY <2>1 DEF CompleteIsClosed, CompleteNamesReactivators
  <2>. QED BY <1>2, <2>2 DEF IInv
<1>5. CASE gaps' = {}
  <2>1. gaps = {} /\ EndGaps = {} BY <1>1, <1>5
  <2>2. CompleteIsClosed'
    <3>1. Closed({w \in visited : w.kind \in Actions \cup {"verify"}}) BY <1>1, <2>1, VisitedIsClosed
    <3>2. Closed({w \in visited : w.kind \in Actions \cup {"verify"}})'
      BY <1>1, <3>1, HostHolds DEF Closed, Brings, hostvars
    <3>3. ({w.name : w \in {v \in visited : v.kind # "inspect"}} \subseteq answer.units)'
      BY <1>1, <1>3
    <3>. QED BY <3>2, <3>3 DEF CompleteIsClosed
  <2>3. CompleteNamesReactivators'
    <3>1. /\ answer'.triggers = {v \in Related(TargetUnit, "TriggeredBy") : unit[v] = "active"}
          /\ answer'.upholders = {v \in Related(TargetUnit, "UpheldBy") : unit[v] = "active"}
      BY <1>1, <1>3, <2>1, SourcesAreReactivators DEF Reactivation
    <3>2. \A w \in visited : (w.kind \in Actions /\ w.name # TargetUnit) =>
             \A r \in Reactivation : {v \in Related(w.name, r) : unit[v] = "active"} = {}
      BY <1>1, <2>1, OthersStayDown
    <3>3. unit' = unit /\ visited' = visited /\ \A u, r : Related(u, r)' = Related(u, r)
      BY <1>1, HostHolds DEF hostvars
    <3>4. \A w \in visited : (w.kind \in Actions /\ w.name # TargetUnit) =>
             {v \in Related(w.name, "TriggeredBy") : unit[v] = "active"}
               \cup {v \in Related(w.name, "UpheldBy") : unit[v] = "active"} = {}
      BY <3>2 DEF Reactivation
    <3>. QED BY <3>1, <3>3, <3>4 DEF CompleteNamesReactivators
  <2>. QED BY <1>2, <2>2, <2>3 DEF IInv
<1>. QED BY <1>4, <1>5

LEMMA FailKeeps == ASSUME IInv, Fail PROVE IInv'
<1>1. (Typed /\ AtHand /\ EdgesAreReal /\ Started /\ FollowedEdges /\ Done)'
  BY AnswerKeepsRest DEF Fail
<1>2. answer'.status # "complete" BY DEF Fail, Answer
<1>3. (CompleteIsClosed /\ CompleteNamesReactivators)'
  BY <1>2 DEF CompleteIsClosed, CompleteNamesReactivators
<1>. QED BY <1>1, <1>3 DEF IInv

LEMMA StutterKeeps == ASSUME IInv, UNCHANGED walkvars PROVE IInv'
<1>1. (Typed /\ AtHand /\ EdgesAreReal /\ Started /\ FollowedEdges /\ Done)'
  BY AnswerKeepsRest DEF walkvars
<1>2. UNCHANGED <<hostvars, visited, answer, unit>> BY DEF walkvars, hostvars
<1>3. CompleteIsClosed' BY <1>2, HostHolds DEF IInv, CompleteIsClosed, Closed, Brings, hostvars
<1>4. CompleteNamesReactivators' BY <1>2, HostHolds DEF IInv, CompleteNamesReactivators
<1>. QED BY <1>1, <1>3, <1>4 DEF IInv

LEMMA StepKeeps == IInv /\ [WalkNext]_walkvars => IInv'
BY BeginKeeps, VisitKeeps, FollowKeeps, FinishKeeps, FailKeeps, StutterKeeps DEF WalkNext

-----------------------------------------------------------------------------
(* The theorems.                                                           *)

\* Whatever the graph, the aliases, the units and the limits: a walk that calls itself
\* complete has closed the jobs it visited and names what would undo a stop
\* (observe_effect_graph).
THEOREM CompleteOnAnyHost ==
    AnyHost /\ Unbegun /\ [][WalkNext]_walkvars => []CompleteIsClosed /\ []CompleteNamesReactivators
<1>1. IInv => CompleteIsClosed /\ CompleteNamesReactivators BY DEF IInv
<1>. QED BY <1>1, Initially, StepKeeps, PTL

\* A walk that calls itself complete has named every unit a job may touch.
THEOREM CompleteIsAlwaysClosed == WalkSpec => []CompleteIsClosed
BY CompleteOnAnyHost, InitIsOne, PTL DEF WalkSpec

\* A complete answer names every active unit that would start the target again, and
\* nothing else it may move has one.
THEOREM CompleteAlwaysNamesReactivators == WalkSpec => []CompleteNamesReactivators
BY CompleteOnAnyHost, InitIsOne, PTL DEF WalkSpec
=============================================================================
