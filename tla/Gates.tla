------------------------------- MODULE Gates -------------------------------
(***************************************************************************)
(* What decides whether a change may be planned and run: the management    *)
(* path (domain/management_path.py), protection (domain/protection.py and  *)
(* domain/systemd_lifecycle.py), self impact (domain/self_impact.py),      *)
(* policy (domain/policy.py), the planners of the operations and the       *)
(* canonical plan they publish (domain/runs.py). Everything here is pure.  *)
(*                                                                         *)
(* An address is named by the connection that is reached over it, a route  *)
(* by the interface it leaves on. A digest is the canonical plan itself.   *)
(***************************************************************************)
EXTENDS Naturals, FiniteSets

CONSTANTS
    Interfaces,   \* network.interface objects
    Connections,  \* accepted connections, each with its peer and local address
    Usable,       \* the connections whose two addresses read_transport accepts
    Target,       \* the interface the MTU operation writes to
    ConfiguredBy, \* the unit whose provider configures an interface, or "none"
    TTL           \* freshness_ttl_s

ASSUME GatesAssumption ==
    /\ TTL \in Nat
    /\ Usable \subseteq Connections
    /\ Target \in Interfaces /\ "none" \notin Interfaces
    /\ DOMAIN ConfiguredBy = Interfaces

Current(stamp, at) == stamp > 0 /\ at - stamp <= TTL             \* derive_freshness

-----------------------------------------------------------------------------
(* The management path of one request.                                     *)

\* observed_addresses, by_address: a record counts however old it is.
Carrying(swept, c) == {i \in Interfaces : swept[i].at > 0 /\ c \in swept[i].holds}

\* by_index
Indexed(swept, i) == IF swept[i].at > 0 THEN {i} ELSE {}

Unresolved(reason)  == [path |-> "none", reason |-> reason]
Confirmed(i)        == [path |-> i, reason |-> "confirmed"]

\* Faulty variant of DerivePath: how old the route lookup is does not matter.
DerivePathUndated(c, lookup, swept, at) ==
    CASE c \notin Usable -> Unresolved("transport")
      [] c \in Usable /\ lookup.at = 0 -> Unresolved("unobserved")
      [] OTHER ->
           IF \E i \in Interfaces : Carrying(swept, c) = {i} /\ lookup.oif = i
           THEN Confirmed(lookup.oif) ELSE Unresolved("unmapped")

\* derive_management_path
DerivePath(c, lookup, swept, at) ==
    CASE c \notin Usable -> Unresolved("transport")
      [] c \in Usable /\ lookup.at = 0 -> Unresolved("unobserved")
      [] c \in Usable /\ lookup.at > 0 /\ ~Current(lookup.at, at) -> Unresolved("evidence_stale")
      [] OTHER ->
           LET carrying == Carrying(swept, c)
               egress   == IF lookup.oif = "none" THEN {} ELSE Indexed(swept, lookup.oif)
           IN CASE carrying = {} -> Unresolved("local_endpoint_unmapped")
                [] Cardinality(carrying) > 1 -> Unresolved("local_endpoint_ambiguous")
                [] Cardinality(carrying) = 1 /\ lookup.oif = "none" -> Unresolved("route_failed")
                [] Cardinality(carrying) = 1 /\ lookup.oif # "none" /\ egress = {} ->
                     Unresolved("route_interface_unmapped")
                [] OTHER ->
                     CASE carrying # egress -> Unresolved("route_conflicts_with_local_endpoint")
                       [] carrying = egress /\ ~Current(swept[lookup.oif].at, at) ->
                            Unresolved("interface_observation_stale")
                       [] OTHER -> Confirmed(lookup.oif)

\* ManagementPathRelation of a verdict to the object a request would change
Relation(verdict, object) ==
    CASE verdict.path = "none" -> "unknown"
      [] verdict.path = object -> "on"
      [] OTHER -> "off"

-----------------------------------------------------------------------------
(* Protection.                                                             *)

\* roll_up_protection: the reasons assessed, and how each of them came out.
RollUp(assessed, relation, why) ==
    LET named(s) == {r \in DOMAIN assessed : assessed[r] = s}
    IN [status |-> CASE named("protected") # {} -> "protected"
                     [] named("protected") = {} /\ named("unknown") # {} -> "unknown"
                     [] OTHER -> "clear",
        reasons |-> named("protected"), unresolved |-> named("unknown"),
        relation |-> relation, why |-> why]

\* assess_resource_protection, assess_management_path_reason
ResourceProtection(verdict, object, applicable) ==
    LET relation == Relation(verdict, object)
        status   == CASE ~applicable -> "clear"
                      [] applicable /\ relation = "on" -> "protected"
                      [] applicable /\ relation = "off" -> "clear"
                      [] OTHER -> "unknown"
    IN RollUp([r \in {"management_path"} |-> status], relation,
              CASE ~applicable -> "cannot_affect"
                [] applicable /\ relation = "off" -> "not_the_path"
                [] OTHER -> verdict.reason)

\* assess_lifecycle_protection
LifecycleProtection(context) ==
    LET management ==
            CASE context.effects \cap context.management # {} -> "protected"
              [] context.effects \cap context.management = {}
                   /\ context.managementComplete /\ context.effectComplete -> "clear"
              [] OTHER -> "unknown"
        agent ==
            CASE context.agent \in context.effects -> "protected"
              [] context.agent \notin context.effects
                   /\ context.agentComplete /\ context.effectComplete -> "clear"
              [] OTHER -> "unknown"
    IN RollUp([r \in {"management_path", "localplane_agent"} |->
                  IF r = "management_path" THEN management ELSE agent],
              "unknown", context.gaps)

\* lifecycle_applicability: the target's own facts, for one action
Applicable(action, context) ==
    /\ context.facts.understood
    /\ context.facts.state = (IF action = "start" THEN "inactive" ELSE "active")
    /\ action # "stop" => context.facts.startable
    /\ action # "start" => context.facts.stoppable /\ ~context.facts.reactivated

-----------------------------------------------------------------------------
(* Self impact: would this service action take the backend with it?        *)

\* _status_of
SelfImpactStatus(context) ==
    CASE context.owner # "none" ->
            IF context.owner \in context.effects THEN "proven" ELSE "not_detected"
      [] context.owner = "none" /\ "runtime_owner" \in context.gaps -> "possible"
      [] OTHER ->
            CASE context.connectionType # "service" -> "unresolved"
              [] context.connectionType = "service" /\ context.connection \in context.effects -> "proven"
              [] OTHER -> IF context.effectComplete THEN "not_detected" ELSE "unresolved"

\* _agent_is_a_proven_host_service
AgentStandsOutside(context) ==
    /\ context.agentComplete
    /\ context.agentType = "service"
    /\ context.agent \notin context.effects
    /\ context.effectComplete

\* Faulty variant of OverrideEligible: other management units do not count.
OverrideEligibleAnyway(context, protection) ==
    /\ SelfImpactStatus(context) = "proven"
    /\ context.owner # "none"
    /\ AgentStandsOutside(context)
    /\ context.gaps = {}
    /\ protection.reasons = {"management_path"}

\* assess_backend_self_impact, _ineligibility
OverrideEligible(context, protection) ==
    /\ SelfImpactStatus(context) = "proven"
    /\ context.owner # "none"
    /\ context.effects \cap context.management = {context.owner}
    /\ AgentStandsOutside(context)
    /\ context.effectComplete /\ context.managementComplete /\ context.agentComplete
    /\ context.gaps = {}
    /\ protection.status = "protected"
    /\ protection.reasons = {"management_path"}

-----------------------------------------------------------------------------
(* Policy.                                                                 *)

\* OperationDefinition of the three kinds of operation
Definition(kind) ==
    [reaches    |-> kind # "container",       \* can_affect_management_path
     relation   |-> kind = "mtu",             \* protection_uses_resource_relation
     reversible |-> kind = "mtu"]             \* guarded, AUTO recovery, rollback

\* assess_guard
Guard(definition, protection, declared) ==
    CASE ~definition.reaches \/ protection.relation = "off" -> "not_required"
      [] definition.reaches /\ protection.relation # "off" /\ ~definition.reversible -> "irreversible"
      [] OTHER ->
           CASE protection.relation # "on" -> "unproven"
             [] protection.relation = "on" /\ ~declared -> "undeclared"
             [] OTHER -> "available"

\* The blockers no authority lifts: capability, owner, open ownership questions.
OrdinaryBlockers(capable, owner) ==
    {b \in {<<"capability", "undeclared">>, <<"ownership", "claimed">>, <<"ownership", "incomplete">>} :
        \/ b[1] = "capability" /\ ~capable
        \/ b[2] = "claimed" /\ owner.block # "none"
        \/ b[2] = "incomplete" /\ owner.gaps}

\* The blockers protection adds.
ProtectionBlockers(definition, protection) ==
    CASE ~definition.reaches -> {}
      [] definition.reaches /\ ~definition.relation ->
           CASE protection.status = "protected" -> {<<"protected", r>> : r \in protection.reasons}
             [] protection.status = "unknown" -> {<<"unresolved", r>> : r \in protection.unresolved}
             [] OTHER -> {}
      [] OTHER ->
           CASE protection.relation = "on" -> {<<"target", "management_path">>}
             [] protection.relation = "unknown" -> {<<"unproven", "management_path">>}
             [] OTHER -> {}

\* assess_execution
Eligibility(definition, ordinary, protective, guard, overridable) ==
    CASE ordinary = {} /\ protective = {} -> "eligible"
      [] ordinary = {} /\ <<"target", "management_path">> \in protective /\ guard = "available" ->
            "guarded"
      [] ordinary = {} /\ protective = {<<"protected", "management_path">>} /\ overridable ->
            "override_required"
      [] OTHER -> "blocked"

\* assess_risk: every operation starts at medium
Risk(definition, protection, owner) ==
    IF \/ owner.block # "none"
       \/ definition.relation /\ protection.relation = "on"
       \/ definition.reaches /\ ~definition.relation /\ protection.status = "protected"
    THEN "high" ELSE "medium"

\* effective_confirmation: required from medium risk on, so always
Confirmation(definition, protection) ==
    IF definition.reaches /\ protection.relation # "off" THEN "typed" ELSE "acknowledge"

-----------------------------------------------------------------------------
(* The planners. Evidence e: at, standing, seen, owner, caps, verdict and  *)
(* context.                                                                *)

Refused(code) == [refused |-> code]
IsPlan(p)     == "refused" \notin DOMAIN p

\* RunPlan
PlanOf(op, change, e, protection, guard, overridable, impact, context) ==
    LET definition == Definition(op.kind)
        owner == IF op.kind = "service" THEN [block |-> "none", gaps |-> FALSE] ELSE e.owner
        blockers == OrdinaryBlockers("write" \in e.caps, owner)
        protective == ProtectionBlockers(definition, protection)
    IN [op |-> op, change |-> change, owner |-> owner, protection |-> protection,
        risk |-> Risk(definition, protection, owner),
        confirmation |-> Confirmation(definition, protection),
        eligibility |-> Eligibility(definition, blockers, protective, guard, overridable),
        blockers |-> blockers \cup protective, guard |-> guard,
        impact |-> impact, context |-> context]

\* plan_interface_mtu_reconciliation
PlanMtu(op, e) ==
    CASE e.standing.stance # "managed" -> Refused(e.standing.stance)
      [] e.standing.stance = "managed" /\ e.standing.desired = "none" -> Refused("no_intent")
      [] OTHER ->
           CASE ~Current(e.seen.at, e.at) -> Refused("observation_stale")
             [] Current(e.seen.at, e.at) /\ e.seen.reading \in {"foreign", "unreadable"} ->
                  Refused(e.seen.reading)
             [] Current(e.seen.at, e.at) /\ e.seen.reading = e.standing.desired ->
                  Refused("already_reconciled")
             [] OTHER ->
                  LET protection == ResourceProtection(e.verdict, Target, TRUE)
                  IN PlanOf(op, [intent |-> e.standing.intent, current |-> e.seen.reading,
                                 desired |-> e.standing.desired],
                            e, protection,
                            Guard(Definition("mtu"), protection, "guard" \in e.caps),
                            FALSE, "none", e.context)

\* The states in which a container action would do nothing (_NO_OP) or must wait.
ContainerRefuses(action, state) ==
    \/ state \in {"foreign", "unreadable", "restarting"}
    \/ action = "start" /\ state \in {"paused", "running"}
    \/ action = "stop" /\ state = "exited"

\* plan_container_lifecycle
PlanContainer(op, e) ==
    CASE e.standing.stance = "observe_only" -> Refused("observe_only")
      [] e.standing.stance # "observe_only" /\ ~Current(e.seen.at, e.at) ->
            Refused("observation_stale")
      [] OTHER ->
           IF ContainerRefuses(op.action, e.seen.reading) THEN Refused("not_applicable")
           ELSE LET protection == ResourceProtection(e.verdict, "container", FALSE)
                IN PlanOf(op, [intent |-> "none", current |-> e.seen.reading,
                               desired |-> IF op.action = "stop" THEN "exited" ELSE "running"],
                          e, protection, Guard(Definition("container"), protection, FALSE),
                          FALSE, "none", e.context)

\* systemd_operations._planner
PlanService(op, e) ==
    CASE ~Current(e.seen.at, e.at) -> Refused("observation_stale")
      [] Current(e.seen.at, e.at) /\ e.seen.reading = "foreign" -> Refused("foreign")
      [] OTHER ->
           CASE ~Current(e.context.at, e.at) -> Refused("context_missing_or_stale")
             [] OTHER ->
                  IF ~Applicable(op.action, e.context) THEN Refused("not_applicable")
                  ELSE LET protection == LifecycleProtection(e.context)
                           overridable == OverrideEligible(e.context, protection)
                       IN PlanOf(op, [intent |-> "none", current |-> e.context.facts.state,
                                      desired |-> IF op.action = "stop" THEN "inactive" ELSE "active"],
                                 e, protection, "irreversible", overridable,
                                 [status |-> SelfImpactStatus(e.context), overridable |-> overridable],
                                 e.context)

\* RunService.replan: the operation's own planner over its planning context
Replan(op, e) ==
    CASE op.kind = "mtu" -> PlanMtu(op, e)
      [] op.kind = "container" -> PlanContainer(op, e)
      [] OTHER -> PlanService(op, e)

\* canonical_plan and plan_digest: what is proposed, and not when it was looked at.
\* A digest is taken to determine what was digested.
Digest(plan) == [plan EXCEPT !.context.at = 0]

\* _preview_row, _plan_from_record: what later requests read of a published plan
PreviewRow(plan) ==
    [digest |-> Digest(plan), eligibility |-> plan.eligibility]
=============================================================================
