------------------------------- MODULE Estate -------------------------------
(***************************************************************************)
(* One network interface as the backend keeps it: observation (ingest.py), *)
(* the management stance and the retained intent (management.py), drift    *)
(* findings and ownership conflicts (domain/findings.py, reconciliation).  *)
(*                                                                         *)
(* A refresh is four steps: the handshake transaction, the agent's look at *)
(* the links, its round of the providers, and one transaction that stores  *)
(* all of it. Several refreshes and several operators' requests are under  *)
(* way at once, so what one of them read may be old when it is used; the   *)
(* store's transactions are the atomic steps.                              *)
(***************************************************************************)
EXTENDS Provenance, Sequences

CONSTANTS
    Refreshers,   \* observation requests under way at once
    Operators,    \* management requests under way at once
    Values,       \* values a controlled field can have
    Sightings,    \* what the kernel may say of the link
    Answers,      \* what the providers may say, one record per round
    TTL,          \* freshness_ttl_s
    MaxTime,      \* bound on the clock
    MaxRefreshes, \* bound on refreshes begun
    MaxRequests   \* bound on management requests made

Fields == {"admin_up", "mtu"}
Raw    == Values \cup {"unreadable", "unusable"}

ASSUME EstateAssumption ==
    /\ {TTL, MaxTime, MaxRefreshes, MaxRequests} \subseteq Nat
    /\ \A s \in Sightings : s.source \in STRING /\ s.value \in [Fields -> Raw]

VARIABLES
    now,          \* the clock
    observation,  \* the newest observation, by observed_at and then by rowid
    readings,     \* the newest reading of each provider, in the same order
    state,        \* objects.management_state, "unseen" before there is a row
    active,       \* objects.active_intent_id: an index of intents, 0 for NULL
    intents,      \* the versions, oldest first
    drift,        \* the open drift finding of each field
    conflict,     \* the open ownership conflict of each relation
    ending,       \* how the last drift finding of each field was closed
    standing,     \* history: who has claimed a relation and not unsaid it since
    refresh,      \* the refreshes under way
    request,      \* the operators' requests under way
    begun         \* how many of each have begun

estate == <<observation, readings, state, active, intents, drift, conflict, ending, standing>>
vars   == <<now, estate, refresh, request, begun>>

NotSeen    == [at |-> 0, facts |-> [kind |-> "none"]]
NoFinding  == [open |-> FALSE]      \* none open: the last one, if any, was resolved
NoConflict == [owner |-> "none"]
Idle       == [pc |-> "idle"]

Init ==
    /\ now = 1
    /\ observation = NotSeen
    /\ readings = [p \in Daemons |-> [at |-> 0, reading |-> Never]]
    /\ state = "unseen"
    /\ active = 0
    /\ intents = << >>
    /\ drift = [f \in Fields |-> NoFinding]
    /\ conflict = [r \in Relations |-> NoConflict]
    /\ ending = [f \in Fields |-> "none"]
    /\ standing = [r \in Relations |-> {}]
    /\ refresh = [r \in Refreshers |-> Idle]
    /\ request = [o \in Operators |-> Idle]
    /\ begun = [refreshes |-> 0, requests |-> 0]

Tick ==
    /\ now < MaxTime
    /\ now' = now + 1
    /\ UNCHANGED <<estate, refresh, request, begun>>

-----------------------------------------------------------------------------
(* Pure parts: classification, capture, reconciliation.                    *)

\* classify_management
Classify(facts) ==
    IF facts.kind \in {"loopback", "virtual_ethernet", "tunnel"} THEN "observe_only"
    ELSE "observed"

Usable(raw) == raw \in Values                                    \* coerce

\* capture_interface_intent: complete when every controlled field can be retained.
CaptureComplete(facts) == \A f \in Fields : Usable(facts.value[f])

\* derive_freshness
Fresh(obs) == obs # NotSeen /\ now - obs.at <= TTL

Intended == intents[active]                                      \* active_for

\* The row of an open finding, inserted or brought up to date.
DriftFinding(id, intended, observed) ==
    [open |-> TRUE, intent |-> id, intended |-> intended, observed |-> observed]

\* The row of an open ownership conflict: the first claim speaks for all.
OpenConflict(claims, id) ==
    [owner |-> FirstClaim(claims).owner, confidence |-> FirstClaim(claims).confidence,
     intent |-> id]

\* reconcile and compare_field
CompareField(intent, obs, f) ==
    CASE obs = NotSeen -> "unknown"
      [] obs # NotSeen /\ obs.facts.source # intent.source -> "unknown"
      [] OTHER -> CASE ~Usable(obs.facts.value[f]) -> "unknown"
                    [] obs.facts.value[f] = intent.fields[f] -> "matches"
                    [] OTHER -> "differs"

\* Faulty variant of Evaluated: an open finding keeps the intent it was raised on.
EvaluatedOnce(f, finding, obs, id, intent) ==
    CASE CompareField(intent, obs, f) = "matches" -> NoFinding
      [] CompareField(intent, obs, f) # "matches" /\ finding.open -> finding
      [] OTHER -> IF CompareField(intent, obs, f) = "unknown" THEN NoFinding
                  ELSE DriftFinding(id, intent.fields[f], obs.facts.value[f])

\* _evaluate, for one field: what its open finding becomes.
Evaluated(f, finding, obs, id, intent) ==
    LET c == CompareField(intent, obs, f)
    IN  IF c = "matches" \/ (c = "unknown" /\ ~finding.open) THEN NoFinding
        ELSE DriftFinding(id, intent.fields[f],
                          IF c = "differs" THEN obs.facts.value[f] ELSE "unreadable")

\* Faulty variant of Evaluate: whatever agrees was put right on the host.
EvaluateAsObserved(obs, id, intent, revised) ==
    /\ drift' = [f \in Fields |-> Evaluated(f, drift[f], obs, id, intent)]
    /\ ending' = [f \in Fields |->
          IF drift[f].open /\ CompareField(intent, obs, f) = "matches"
          THEN "observed_matches_intent" ELSE ending[f]]

\* _evaluate: every controlled field against the newest observation. `revised` are
\* the fields whose intended value this step itself moved.
Evaluate(obs, id, intent, revised) ==
    /\ drift' = [f \in Fields |-> Evaluated(f, drift[f], obs, id, intent)]
    /\ ending' = [f \in Fields |->
          CASE ~(drift[f].open /\ CompareField(intent, obs, f) = "matches") -> ending[f]
            [] f \in revised -> "intent_revised"
            [] OTHER -> "observed_matches_intent"]

-----------------------------------------------------------------------------
(* Ownership conflicts: _evaluate_ownership, with this sweep's evidence.   *)

Claimed(rel, facts, evidence) ==
    External(ClaimsFor(DeriveProvenance(facts, evidence), rel))

\* The statuses that settle a question.
Answered(reading) == reading.status \in {"ok", "absent"}

\* Faulty variant of Ownership: an uninstalled owner keeps its claim.
OwnershipOutlivesOwner(rel, found, facts, evidence, id) ==
    LET claims == Claimed(rel, facts, evidence)
    IN  CASE claims # {} -> OpenConflict(claims, id)
          [] claims = {} /\ found # NoConflict ->
              IF evidence[found.owner].status = "ok" THEN NoConflict ELSE found
          [] OTHER -> NoConflict

\* Faulty variant of Ownership: a provider that could not be read makes no claim.
OwnershipOnSilence(rel, found, facts, evidence, id) ==
    LET claims == Claimed(rel, facts, evidence)
    IN  IF claims # {} THEN OpenConflict(claims, id) ELSE NoConflict

Ownership(rel, found, facts, evidence, id) ==
    LET claims == Claimed(rel, facts, evidence)
    IN  CASE claims # {} -> OpenConflict(claims, id)
          [] claims = {} /\ found # NoConflict ->
              IF Answered(evidence[found.owner]) THEN NoConflict ELSE found
          [] OTHER -> NoConflict

EvaluateOwnership(facts, evidence, id) ==
    /\ conflict' = [rel \in Relations |->
                       Ownership(rel, conflict[rel], facts, evidence, id)]
    /\ standing' = [rel \in Relations |->
          OwnersOf(Claimed(rel, facts, evidence))
          \cup {p \in standing[rel] : ~Answered(evidence[p])}]

-----------------------------------------------------------------------------
(* A refresh: ObservationCoordinator.refresh_network, ingest_network_sweep.*)

\* The handshake is recorded, and names no object; the agent then reads the link,
\* or does not find it. Without the capability the request ends before this.
Observe(r) ==
    /\ refresh[r] = Idle /\ begun.refreshes < MaxRefreshes
    /\ \E facts \in Sightings \cup {NotSeen.facts} :
          refresh' = [refresh EXCEPT ![r] = [pc |-> "consult", facts |-> facts, at |-> now]]
    /\ begun' = [begun EXCEPT !.refreshes = @ + 1]
    /\ UNCHANGED <<now, estate, request>>

\* _observe_providers: a round of readings, or none where the capability or the
\* call fails. The rows are made coherent before they are stored.
Consult(r) ==
    /\ refresh[r].pc = "consult"
    /\ \E evidence \in {Rows(Collected(a)) : a \in Answers} \cup {[p \in Daemons |-> Never]} :
          refresh' = [refresh EXCEPT ![r] =
              [pc |-> "ingest", facts |-> refresh[r].facts, at |-> refresh[r].at,
               consulted |-> now, evidence |-> evidence]]
    /\ UNCHANGED <<now, estate, request, begun>>

\* An agent call fails: nothing of the refresh is stored.
RefreshFails(r) ==
    /\ refresh[r].pc = "consult"
    /\ refresh' = [refresh EXCEPT ![r] = Idle]
    /\ UNCHANGED <<now, estate, request, begun>>

\* ORDER BY observed_at DESC, rowid DESC: of two as old, the later row.
Newest(old, new) == IF new.at >= old.at THEN new ELSE old

\* objects.upsert: the classification of a sweep is the stance of an object that
\* is not managed; observing never changes the stance towards a managed object.
Upserted(facts) == IF state = "managed" THEN state ELSE Classify(facts)

StoreReadings(r) ==
    readings' = [p \in Daemons |->
        IF refresh[r].evidence[p] = Never THEN readings[p]
        ELSE Newest(readings[p], [at |-> refresh[r].consulted, reading |-> refresh[r].evidence[p]])]

\* The sweep's one transaction, and the re-evaluation inside it.
Ingest(r) ==
    /\ refresh[r].pc = "ingest"
    /\ StoreReadings(r)
    /\ refresh' = [refresh EXCEPT ![r] = Idle]
    /\ IF refresh[r].facts # NotSeen.facts
       THEN /\ observation' =
                  Newest(observation, [at |-> refresh[r].at, facts |-> refresh[r].facts])
            /\ state' = Upserted(refresh[r].facts)
            /\ IF state' = "managed"
               THEN /\ Evaluate(observation', active, Intended, {})
                    /\ EvaluateOwnership(observation'.facts, refresh[r].evidence, active)
               ELSE UNCHANGED <<drift, ending, conflict, standing>>
       ELSE UNCHANGED <<observation, state, drift, ending, conflict, standing>>
    /\ UNCHANGED <<now, active, intents, request, begun>>

-----------------------------------------------------------------------------
(* Adopt, revise, adopt the runtime, release: management.py.               *)

NewestEvidence == [p \in Daemons |-> readings[p].reading]
Unowned == OwnershipBlock(DeriveProvenance(observation.facts, NewestEvidence), "nobody") = "none"

\* _verify_adoptable
Adoptable ==
    /\ state \notin {"managed", "observe_only", "unseen"}
    /\ Classify(observation.facts) # "observe_only"
    /\ Fresh(observation)
    /\ Unowned
    /\ CaptureComplete(observation.facts)

\* Faulty variant of Revisable: whichever intent is in force will do.
RevisableWhatever(expected) ==
    state = "managed" /\ Fresh(observation) /\ observation.facts.source = Intended.source /\ Unowned

\* _verify_revisable, against the intent the operator decided about.
Revisable(expected) ==
    /\ state = "managed"
    /\ active = expected
    /\ Fresh(observation)
    /\ observation.facts.source = Intended.source
    /\ Unowned

\* What the request found when it was checked before the transaction.
Permitted(kind, expected) ==
    CASE kind = "adopt" -> Adoptable
      [] kind \in {"revise", "adopt_runtime"} -> Revisable(expected)
      [] kind = "release" -> state = "managed"

\* An operator decides against the intent in force, and the request passes the
\* check made before the transaction. That check only ever refuses, and it passes
\* only for the intent that is then active, so the two readings are one step.
Ask(o) ==
    /\ request[o] = Idle /\ begun.requests < MaxRequests
    /\ \E k \in {"adopt", "revise", "adopt_runtime", "release"} :
          /\ Permitted(k, active)
          /\ request' = [request EXCEPT ![o] = [pc |-> "commit", kind |-> k, expected |-> active]]
    /\ begun' = [begun EXCEPT !.requests = @ + 1]
    /\ UNCHANGED <<now, estate, refresh>>

\* Inside the transaction everything is verified again; a refusal changes nothing.
Refuse(o) ==
    /\ request[o].pc = "commit"
    /\ ~Permitted(request[o].kind, request[o].expected)
    /\ request' = [request EXCEPT ![o] = Idle]
    /\ UNCHANGED <<now, estate, refresh, begun>>

NewVersion(fields, supersedes, source, by) ==
    /\ intents' = Append(intents, [fields |-> fields, supersedes |-> supersedes,
                                   source |-> source, by |-> by])
    /\ active' = Len(intents) + 1

\* Faulty variant of Adopt: what the first check found is not looked at again.
AdoptUnverified(o) ==
    /\ request[o].pc = "commit" /\ request[o].kind = "adopt"
    /\ CaptureComplete(observation.facts)
    /\ NewVersion(observation.facts.value, Len(intents), observation.facts.source, "adopt")
    /\ state' = "managed"
    /\ Evaluate(observation, active', intents'[active'], {})
    /\ request' = [request EXCEPT ![o] = Idle]
    /\ UNCHANGED <<now, observation, readings, conflict, standing, refresh, begun>>

\* adopt: the newest observation's values become the first, or the next, version.
Adopt(o) ==
    /\ request[o].pc = "commit" /\ request[o].kind = "adopt" /\ Adoptable
    /\ NewVersion(observation.facts.value, Len(intents), observation.facts.source, "adopt")
    /\ state' = "managed"
    /\ Evaluate(observation, active', intents'[active'], {})
    /\ request' = [request EXCEPT ![o] = Idle]
    /\ UNCHANGED <<now, observation, readings, conflict, standing, refresh, begun>>

\* plan_explicit_revision: some controlled fields are asked to have usable values,
\* and at least one of them moves. Anything else is refused.
PlanExplicit(asked) ==
    /\ asked # << >>
    /\ \A f \in DOMAIN asked : f \in Fields /\ Usable(asked[f])
    /\ \E f \in DOMAIN asked : asked[f] # Intended.fields[f]

Requests == UNION {[S -> Values \cup {"unusable"}] : S \in SUBSET (Fields \cup {"unsupported"})}

\* plan_runtime_revision: the whole of the runtime, or nothing.
PlanRuntime(facts) ==
    /\ CaptureComplete(facts)
    /\ \E f \in Fields : facts.value[f] # Intended.fields[f]

Overlaid(fields, asked) == [f \in Fields |-> IF f \in DOMAIN asked THEN asked[f] ELSE fields[f]]

\* _revise: a new version of the intent, and the findings levelled with it.
Revise(o) ==
    /\ request[o].pc = "commit" /\ request[o].kind \in {"revise", "adopt_runtime"}
    /\ Revisable(request[o].expected)
    /\ \E asked \in Requests :
          /\ IF request[o].kind = "revise" THEN PlanExplicit(asked)
             ELSE PlanRuntime(observation.facts) /\ asked = observation.facts.value
          /\ NewVersion(Overlaid(Intended.fields, asked), active, observation.facts.source,
                        request[o].kind)
    /\ Evaluate(observation, active', intents'[active'],
                {f \in Fields : intents'[active'].fields[f] # Intended.fields[f]})
    /\ request' = [request EXCEPT ![o] = Idle]
    /\ UNCHANGED <<now, observation, readings, state, conflict, standing, refresh, begun>>

\* A request that can be revised but whose plan is refused.
ReviseNothing(o) ==
    /\ request[o].pc = "commit" /\ request[o].kind \in {"revise", "adopt_runtime"}
    /\ Revisable(request[o].expected)
    /\ request' = [request EXCEPT ![o] = Idle]
    /\ UNCHANGED <<now, estate, refresh, begun>>

\* Faulty variant of Release: the conflicts stay on the list.
ReleaseDriftOnly(o) ==
    /\ request[o].pc = "commit" /\ request[o].kind = "release" /\ state = "managed"
    /\ state' = "observed" /\ active' = 0
    /\ drift' = [f \in Fields |-> NoFinding]
    /\ ending' = [f \in Fields |-> IF drift[f].open THEN "intent_released" ELSE ending[f]]
    /\ request' = [request EXCEPT ![o] = Idle]
    /\ UNCHANGED <<now, observation, readings, intents, conflict, standing, refresh, begun>>

\* release: every finding of the object is closed with it.
Release(o) ==
    /\ request[o].pc = "commit" /\ request[o].kind = "release" /\ state = "managed"
    /\ state' = "observed" /\ active' = 0
    /\ drift' = [f \in Fields |-> NoFinding]
    /\ ending' = [f \in Fields |-> IF drift[f].open THEN "intent_released" ELSE ending[f]]
    /\ conflict' = [rel \in Relations |-> NoConflict]
    /\ standing' = [rel \in Relations |-> {}]
    /\ request' = [request EXCEPT ![o] = Idle]
    /\ UNCHANGED <<now, observation, readings, intents, refresh, begun>>

-----------------------------------------------------------------------------

RefreshStep(r) == Observe(r) \/ Consult(r) \/ RefreshFails(r) \/ Ingest(r)
RequestStep(o) == \/ Ask(o) \/ Refuse(o) \/ Adopt(o) \/ Revise(o)
                  \/ ReviseNothing(o) \/ Release(o)

Next ==
    \/ Tick
    \/ \E r \in Refreshers : RefreshStep(r)
    \/ \E o \in Operators : RequestStep(o)

Spec == Init /\ [][Next]_vars

-----------------------------------------------------------------------------
(* What has to hold.                                                       *)

Facts == Sightings \cup {NotSeen.facts}

\* The drift findings of a managed object are level with the newest observation
\* and the intent in force, however late a sweep arrives and whoever revises in
\* between: a field that reads as intended has none, one that reads otherwise has
\* one that names this intent, this value and that one (management.py _evaluate).
FindingsMirrorTheHost ==
    state = "managed" =>
        \A f \in Fields :
            LET seen == observation.facts.value[f]
                want == intents[active].fields[f]
            IN  /\ observation.facts.source = intents[active].source
                /\ seen \in Values
                => IF seen = want THEN ~drift[f].open
                   ELSE drift[f] = DriftFinding(active, want, seen)

\* A finding and a conflict are about retained intent: an object that is not
\* managed has neither and no active intent, and a managed one's active intent is
\* the last version (management.py release; the CHECK on objects).
ReleasedIsQuiet ==
    IF state = "managed" THEN active = Len(intents) /\ active # 0
    ELSE /\ active = 0
         /\ \A f \in Fields : ~drift[f].open
         /\ \A rel \in Relations : conflict[rel] = NoConflict

\* An open conflict names a provider that has claimed the object and has not
\* answered otherwise since (management.py _evaluate_ownership).
ConflictsHaveAnOwner ==
    \A rel \in Relations :
        conflict[rel] # NoConflict => conflict[rel].owner \in standing[rel]

\* A new version supersedes the one in force when it was written, and a revision
\* is only ever written over the version its operator decided against
\* (management.py _verify_revisable, re-run inside the transaction).
RevisionsAreSerial ==
    [][intents' # intents =>
          LET n == intents'[Len(intents')]
          IN  /\ n.supersedes = Len(intents)
              /\ \E o \in Operators :
                    /\ request[o].pc = "commit" /\ request[o].kind = n.by
                    /\ n.by # "adopt" => request[o].expected = active]_vars

\* An object becomes managed only on an observation that is still fresh, of values
\* that could be read, while no other system claims it in the newest evidence of
\* every provider - whatever was stored since the request was first checked
\* (management.py adopt).
AdoptionStands ==
    [][state # "managed" /\ state' = "managed" =>
          /\ state = "observed"
          /\ now - observation.at <= TTL
          /\ intents'[active'].fields = observation.facts.value
          /\ \A p \in Daemons :
                Source(p, observation.facts,
                       [q \in Daemons |-> readings[q].reading]).claims = {}]_vars

\* A conflict closes only once the provider it names has been asked again and has
\* answered without the claim, or the object is released: not because the provider
\* could not be read, was not consulted, or was read while the object was adopted
\* or its intent revised (management.py _evaluate_ownership).
ConflictsCloseOnAnswer ==
    [][\A rel \in Relations :
          conflict[rel] # NoConflict /\ conflict'[rel] = NoConflict
             => conflict[rel].owner \notin standing'[rel]]_vars

\* What the docstring of _evaluate_ownership promises of sweeps that overlap: a
\* conflict of a managed object closes only when the newest reading of the provider
\* it names is an answer without the claim. The code closes it on the round that is
\* being stored, which may be older than the one that opened it, so this does not hold,
\* and no run of this project checks it.
ConflictsCloseOnNewestReading ==
    [][\A rel \in Relations :
          LET p == conflict[rel].owner
              newest == [q \in Daemons |-> readings'[q].reading]
          IN  conflict[rel] # NoConflict /\ conflict'[rel] = NoConflict /\ state' = "managed"
              => /\ Answered(newest[p])
                 /\ ClaimsFor(Source(p, observation'.facts, newest), rel) = {}]_vars

\* What it promises of every claimant: while a provider that claimed a managed object
\* has not answered otherwise, there is a conflict. The code keeps one row for each
\* relation, and the claimant it names closes it for the others, so this does not hold,
\* and no run of this project checks it.
ClaimantsKeepTheConflict ==
    state = "managed" =>
        \A rel \in Relations : conflict[rel] = NoConflict => standing[rel] = {}

\* A finding is closed for the reason it gives: on the host's word only when the
\* newest observation reads the intended value and the intent did not move, on a
\* revision only when that revision moved the field (domain/findings.py).
EndingsAreTrue ==
    [][\A f \in Fields : drift[f].open /\ ~drift'[f].open =>
          CASE ending'[f] = "intent_released" -> state' # "managed"
            [] ending'[f] = "intent_revised" ->
                  active' # active /\ intents'[active'].fields[f] # intents[active].fields[f]
            [] ending'[f] = "observed_matches_intent" ->
                  /\ intents'[active'].fields[f] = intents[active].fields[f]
                  /\ observation'.facts.value[f] = intents[active].fields[f]]_vars
=============================================================================
