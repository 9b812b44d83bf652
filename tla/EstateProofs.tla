---------------------------- MODULE EstateProofs ----------------------------
(***************************************************************************)
(* The estate of one interface, for any number of overlapping refreshes    *)
(* and management requests, any values, and any answers of the providers:  *)
(* findings level with the newest observation and the intent in force,     *)
(* revisions in series, adoption on evidence that stands, conflicts that   *)
(* have an owner, and endings given for the reason they name.              *)
(***************************************************************************)
EXTENDS Estate, SequenceTheorems, TLAPS

-----------------------------------------------------------------------------
(* What the sources may claim.                                             *)

\* A source speaks for itself, and of the two relations only.
Own(p, said) == \A c \in said.claims : c.owner = p /\ c.relation \in Relations

LEMMA SaidOwn ==
    ASSUME NEW p, NEW R \in SUBSET Relations, NEW confidence
    PROVE  Own(p, Said(Claim(p, R, confidence)))
BY DEF Own, Said, Claim

LEMMA SilentOwn == ASSUME NEW p PROVE Own(p, Gap) /\ Own(p, Nothing)
BY DEF Own, Gap, Nothing, Said

LEMMA DockerOwn == ASSUME NEW facts, NEW nets PROVE Own("docker", Docker(facts, nets))
<1>1. Docker(facts, nets) \in
        {Gap, Nothing} \cup {Said(Claim("docker", Relations, c)) : c \in {"confirmed", "corroborated"}}
  BY DEF Docker
<1>. QED BY <1>1, SaidOwn, SilentOwn

LEMMA NetworkManagerOwn ==
    ASSUME NEW facts, NEW devices PROVE Own("networkmanager", NetworkManager(facts, devices))
BY SaidOwn, SilentOwn DEF NetworkManager, Relations

LEMMA TailscaleOwn == ASSUME NEW facts, NEW ds PROVE Own("tailscale", Tailscale(facts, ds))
<1>1. Tailscale(facts, ds) \in {Gap, Nothing, Said(Claim("tailscale", Relations, "corroborated"))}
  BY DEF Tailscale
<1>. QED BY <1>1, SaidOwn, SilentOwn

LEMMA SourceOwn ==
    ASSUME NEW p \in Providers, NEW facts, NEW evidence
    PROVE  Own(p, Source(p, facts, evidence))
<1>1. CASE p = "kernel"
  BY <1>1, SaidOwn, SilentOwn DEF Source, Kernel, Relations
<1>2. CASE p # "kernel" /\ Unusable(evidence[p])
  BY <1>2, SilentOwn DEF Source, UnusableSource
<1>3. CASE p # "kernel" /\ ~Unusable(evidence[p])
  BY <1>3, DockerOwn, NetworkManagerOwn, TailscaleOwn DEF Source, Providers, Daemons
<1>. QED BY <1>1, <1>2, <1>3

\* Among claims of providers there is a first.
LEMMA FirstIsAmong ==
    ASSUME NEW claims, claims # {}, \A c \in claims : c.owner \in Daemons
    PROVE  FirstClaim(claims) \in claims
<1>1. \E c \in claims : \A d \in claims : Rank[c.owner] <= Rank[d.owner]
  <2>1. CASE \E c \in claims : c.owner = "docker" BY <2>1 DEF Rank, Daemons
  <2>2. CASE /\ \A c \in claims : c.owner # "docker"
             /\ \E c \in claims : c.owner = "networkmanager"
    BY <2>2 DEF Rank, Daemons
  <2>3. CASE \A c \in claims : c.owner \notin {"docker", "networkmanager"}
    BY <2>3 DEF Rank, Daemons
  <2>. QED BY <2>1, <2>2, <2>3
<1>. QED BY <1>1 DEF FirstClaim

\* A claim that makes a conflict is a daemon's.
LEMMA ClaimedByDaemons ==
    ASSUME NEW rel, NEW facts, NEW evidence, NEW c \in Claimed(rel, facts, evidence)
    PROVE  c.owner \in Daemons
BY SourceOwn DEF Claimed, External, ClaimsFor, DeriveProvenance, Own, Providers

-----------------------------------------------------------------------------
(* The invariant.                                                          *)

Intent  == [fields : [Fields -> Values], supersedes : Nat, source : STRING,
            by : {"adopt", "revise", "adopt_runtime"}]
Looked  == [at : Nat, facts : Sightings]
Evidence == {Rows(Collected(a)) : a \in Answers} \cup {[p \in Daemons |-> Never]}
Refresh == {Idle} \cup [pc : {"consult"}, facts : Facts, at : Nat]
           \cup [pc : {"ingest"}, facts : Facts, at : Nat, consulted : Nat,
                 evidence : Evidence]

Typed ==
    /\ now \in Nat
    /\ observation \in {NotSeen} \cup Looked
    /\ state \in {"unseen", "observe_only", "observed", "managed"}
    /\ intents \in Seq(Intent)
    /\ refresh \in [Refreshers -> Refresh]

\* What is managed has been seen.
ManagedWasSeen == state = "managed" => observation # NotSeen

IInv ==
    /\ Typed /\ ManagedWasSeen
    /\ ReleasedIsQuiet /\ FindingsMirrorTheHost /\ ConflictsHaveAnOwner

-----------------------------------------------------------------------------
(* What one evaluation does, whatever it is made with.                     *)

\* A link that was seen answers for a field, or leaves it unknown.
LEMMA Compared ==
    ASSUME NEW intent \in Intent, NEW obs \in Looked, obs # NotSeen, NEW f \in Fields
    PROVE  CompareField(intent, obs, f) =
               IF obs.facts.source # intent.source \/ obs.facts.value[f] \notin Values THEN "unknown"
               ELSE IF obs.facts.value[f] = intent.fields[f] THEN "matches" ELSE "differs"
<1>1. intent.fields[f] \in Values BY DEF Intent
<1>. QED BY <1>1 DEF CompareField, Usable

\* What an evaluation of retained intent leaves behind.
LEMMA EvaluateLevels ==
    ASSUME NEW obs \in Looked, obs # NotSeen, NEW id, NEW intent \in Intent, NEW revised,
           Evaluate(obs, id, intent, revised), NEW f \in Fields
    PROVE  /\ obs.facts.source = intent.source /\ obs.facts.value[f] \in Values
              => IF obs.facts.value[f] = intent.fields[f] THEN ~drift'[f].open
                 ELSE drift'[f] = DriftFinding(id, intent.fields[f], obs.facts.value[f])
           /\ drift[f].open /\ ~drift'[f].open
              => /\ obs.facts.value[f] = intent.fields[f]
                 /\ ending'[f] = IF f \in revised THEN "intent_revised"
                                ELSE "observed_matches_intent"
<1>. DEFINE c == CompareField(intent, obs, f)
<1>1. drift'[f] = Evaluated(f, drift[f], obs, id, intent) BY DEF Evaluate
<1>2. c = IF obs.facts.source # intent.source \/ obs.facts.value[f] \notin Values THEN "unknown"
          ELSE IF obs.facts.value[f] = intent.fields[f] THEN "matches" ELSE "differs"
  BY Compared
<1>3. drift[f].open /\ c = "matches"
      => ending'[f] = IF f \in revised THEN "intent_revised" ELSE "observed_matches_intent"
  BY DEF Evaluate
<1>. HIDE DEF c
<1>4. drift'[f] = IF c = "matches" \/ (c = "unknown" /\ ~drift[f].open) THEN NoFinding
                  ELSE DriftFinding(id, intent.fields[f],
                          IF c = "differs" THEN obs.facts.value[f] ELSE "unreadable")
  BY <1>1 DEF Evaluated, c
<1>5. ~NoFinding.open /\ \A a, b, d : DriftFinding(a, b, d).open
  BY DEF NoFinding, DriftFinding
<1>6. drift[f].open /\ ~drift'[f].open => c = "matches" BY <1>4, <1>5
<1>. QED BY <1>2, <1>3, <1>4, <1>5, <1>6

\* What an evaluation of ownership leaves behind.
LEMMA EvaluateOwnershipOwns ==
    ASSUME ConflictsHaveAnOwner, NEW facts, NEW evidence, NEW id,
           EvaluateOwnership(facts, evidence, id)
    PROVE  ConflictsHaveAnOwner'
<1>. SUFFICES ASSUME NEW rel \in Relations, conflict'[rel] # NoConflict
              PROVE  conflict'[rel].owner \in standing'[rel]
  BY DEF ConflictsHaveAnOwner
<1>. DEFINE claims == Claimed(rel, facts, evidence)
<1>1. /\ conflict'[rel] = Ownership(rel, conflict[rel], facts, evidence, id)
      /\ standing'[rel] = OwnersOf(claims) \cup {p \in standing[rel] : ~Answered(evidence[p])}
  BY DEF EvaluateOwnership
<1>2. CASE claims # {}
  <2>1. conflict'[rel] = OpenConflict(claims, id) BY <1>1, <1>2 DEF Ownership
  <2>2. FirstClaim(claims) \in claims BY <1>2, FirstIsAmong, ClaimedByDaemons
  <2>3. conflict'[rel].owner \in OwnersOf(claims)
    BY <2>1, <2>2 DEF OpenConflict, OwnersOf
  <2>. QED BY <1>1, <2>3
<1>3. CASE claims = {}
  <2>1. /\ conflict[rel] # NoConflict
        /\ ~Answered(evidence[conflict[rel].owner])
        /\ conflict'[rel] = conflict[rel]
    BY <1>1, <1>3 DEF Ownership
  <2>2. conflict[rel].owner \in standing[rel] BY <2>1 DEF ConflictsHaveAnOwner
  <2>. QED BY <1>1, <2>1, <2>2
<1>. QED BY <1>2, <1>3

\* An evaluation of ownership that closes a conflict has heard the provider it named.
LEMMA AnswerCloses ==
    ASSUME NEW facts, NEW evidence, NEW id, EvaluateOwnership(facts, evidence, id),
           NEW rel \in Relations, conflict[rel] # NoConflict, conflict'[rel] = NoConflict
    PROVE  conflict[rel].owner \notin standing'[rel]
<1>. DEFINE claims == Claimed(rel, facts, evidence)
<1>1. /\ conflict'[rel] = Ownership(rel, conflict[rel], facts, evidence, id)
      /\ standing'[rel] = OwnersOf(claims) \cup {p \in standing[rel] : ~Answered(evidence[p])}
  BY DEF EvaluateOwnership
<1>2. claims = {}
  <2>. SUFFICES ASSUME claims # {} PROVE FALSE OBVIOUS
  <2>1. conflict'[rel] = OpenConflict(claims, id) BY <1>1 DEF Ownership
  <2>2. FirstClaim(claims).owner \in Daemons BY FirstIsAmong, ClaimedByDaemons
  <2>3. conflict'[rel].owner \in Daemons BY <2>1, <2>2 DEF OpenConflict
  <2>. QED BY <2>3 DEF NoConflict, Daemons
<1>3. Answered(evidence[conflict[rel].owner])
  BY <1>1, <1>2 DEF Ownership
<1>. QED BY <1>1, <1>2, <1>3 DEF OwnersOf

\* Where nothing stands in the way of adoption, no provider claims the object.
LEMMA UnownedIsUnclaimed ==
    ASSUME Unowned, NEW p \in Daemons
    PROVE  Source(p, observation.facts, NewestEvidence).claims = {}
<1>. DEFINE said == Source(p, observation.facts, NewestEvidence)
            prov == DeriveProvenance(observation.facts, NewestEvidence)
            others(r) == {c \in External(ClaimsFor(prov, r)) : c.owner # "nobody"}
<1>. SUFFICES ASSUME NEW c \in said.claims PROVE FALSE
  OBVIOUS
<1>1. c.owner = p /\ c.relation \in Relations BY SourceOwn DEF Own, Providers
<1>2. c \in prov.claims BY DEF DeriveProvenance, Providers
<1>3. c.owner \notin {"kernel", "nobody"} BY <1>1 DEF Daemons
<1>4. c \in others(c.relation) BY <1>2, <1>3 DEF External, ClaimsFor
<1>5. others("configured_by") = {} /\ others("created_by") = {}
  BY DEF Unowned, OwnershipBlock
<1>. QED BY <1>1, <1>4, <1>5 DEF Relations

-----------------------------------------------------------------------------
(* Initially, and step by step.                                            *)

LEMMA Initially == Init => IInv
BY DEF Init, IInv, Typed, ManagedWasSeen, ReleasedIsQuiet, FindingsMirrorTheHost,
       ConflictsHaveAnOwner, NoFinding, Refresh

\* A step that leaves the estate alone keeps what is said of it.
LEMMA EstateUntouched ==
    ASSUME IInv, UNCHANGED estate, now' \in Nat, refresh' \in [Refreshers -> Refresh]
    PROVE  IInv'
<1>1. Typed' BY DEF IInv, Typed, estate
<1>2. ManagedWasSeen' BY DEF IInv, ManagedWasSeen, estate
<1>3. ReleasedIsQuiet' BY DEF IInv, ReleasedIsQuiet, estate
<1>4. FindingsMirrorTheHost' BY DEF IInv, FindingsMirrorTheHost, estate
<1>5. ConflictsHaveAnOwner' BY DEF IInv, ConflictsHaveAnOwner, estate
<1>. QED BY <1>1, <1>2, <1>3, <1>4, <1>5 DEF IInv

\* The steps of a refresh before its transaction, and of a request that is made or
\* refused.
Quiet ==
    \/ Tick \/ UNCHANGED vars
    \/ \E r \in Refreshers : Observe(r) \/ Consult(r) \/ RefreshFails(r)
    \/ \E o \in Operators : Ask(o) \/ Refuse(o) \/ ReviseNothing(o)

LEMMA QuietUntouched == Quiet => UNCHANGED estate
BY DEF Quiet, Tick, vars, Observe, Consult, RefreshFails, Ask, Refuse, ReviseNothing

LEMMA ObserveTyped ==
    ASSUME Typed, NEW r \in Refreshers, Observe(r)
    PROVE  now' \in Nat /\ refresh' \in [Refreshers -> Refresh]
BY DEF Typed, Observe, Refresh, Facts

LEMMA ConsultTyped ==
    ASSUME Typed, NEW r \in Refreshers, Consult(r)
    PROVE  now' \in Nat /\ refresh' \in [Refreshers -> Refresh]
<1>1. PICK evidence \in Evidence : refresh' = [refresh EXCEPT ![r] =
              [pc |-> "ingest", facts |-> refresh[r].facts, at |-> refresh[r].at,
               consulted |-> now, evidence |-> evidence]]
  BY DEF Consult, Evidence
<1>2. refresh[r] \in [pc : {"consult"}, facts : Facts, at : Nat]
  BY DEF Typed, Refresh, Consult, Idle
<1>3. [pc |-> "ingest", facts |-> refresh[r].facts, at |-> refresh[r].at,
               consulted |-> now, evidence |-> evidence] \in Refresh
  BY <1>2 DEF Typed, Refresh
<1>. QED BY <1>1, <1>3 DEF Typed, Consult

LEMMA QuietKeeps == ASSUME IInv, Quiet PROVE IInv'
<1>1. Typed BY DEF IInv
<1>2. now' \in Nat /\ refresh' \in [Refreshers -> Refresh]
  <2>1. CASE \/ Tick \/ UNCHANGED vars
             \/ \E o \in Operators : Ask(o) \/ Refuse(o) \/ ReviseNothing(o)
    BY <1>1, <2>1 DEF Typed, Tick, vars, Ask, Refuse, ReviseNothing
  <2>2. CASE \E r \in Refreshers : RefreshFails(r)
    BY <1>1, <2>2 DEF Typed, RefreshFails, Refresh
  <2>. QED BY <1>1, <2>1, <2>2, ObserveTyped, ConsultTyped DEF Quiet
<1>. QED BY <1>2, QuietUntouched, EstateUntouched

\* A managed object has been seen and has an intent in force, the last version.
LEMMA ManagedHasIntent ==
    ASSUME IInv, state = "managed"
    PROVE  /\ observation \in Looked /\ observation # NotSeen
           /\ active = Len(intents) /\ active \in 1 .. Len(intents)
           /\ intents[active] \in Intent
BY ElementOfSeq DEF IInv, Typed, ManagedWasSeen, ReleasedIsQuiet

\* A sweep that saw the link: what the newest observation becomes.
LEMMA IngestObserves ==
    ASSUME IInv, NEW r \in Refreshers, Ingest(r), refresh[r].facts # NotSeen.facts
    PROVE  /\ state' = "managed" => observation' \in Looked /\ observation' # NotSeen
           /\ observation' \in {NotSeen} \cup Looked
           /\ observation'.at >= observation.at
           /\ state' = Upserted(refresh[r].facts)
<1>. DEFINE new == [at |-> refresh[r].at, facts |-> refresh[r].facts]
<1>1. observation' = Newest(observation, new) /\ state' = Upserted(refresh[r].facts)
  BY DEF Ingest
<1>2. refresh[r].at \in Nat /\ refresh[r].facts \in Sightings
  BY DEF IInv, Typed, Refresh, Facts, Ingest, Idle
<1>3. new \in Looked /\ new # NotSeen BY <1>2 DEF Looked, NotSeen
<1>4. observation \in {NotSeen} \cup Looked BY DEF IInv, Typed
<1>5. observation.at \in Nat BY <1>4 DEF NotSeen, Looked
<1>6. state' = "managed" => observation # NotSeen
  BY <1>1 DEF Upserted, Classify, IInv, ManagedWasSeen
<1>. QED BY <1>1, <1>2, <1>3, <1>4, <1>5, <1>6 DEF Newest

\* Observing never changes whether an object is managed.
LEMMA UpsertedKeeps ==
    ASSUME NEW facts
    PROVE  /\ state = "managed" => Upserted(facts) = "managed"
           /\ state # "managed" => Upserted(facts) \in {"observe_only", "observed"}
BY DEF Upserted, Classify

\* A sweep of a managed object evaluates it against the intent in force.
LEMMA IngestEvaluates ==
    ASSUME IInv, NEW r \in Refreshers, Ingest(r), refresh[r].facts # NotSeen.facts,
           state = "managed", NEW f \in Fields
    PROVE  /\ observation'.facts.source = intents[active].source
              /\ observation'.facts.value[f] \in Values
              => IF observation'.facts.value[f] = intents[active].fields[f] THEN ~drift'[f].open
                 ELSE drift'[f] = DriftFinding(active, intents[active].fields[f],
                                               observation'.facts.value[f])
           /\ drift[f].open /\ ~drift'[f].open
              => /\ observation'.facts.value[f] = intents[active].fields[f]
                 /\ ending'[f] = "observed_matches_intent"
<1>1. state' = "managed" BY IngestObserves, UpsertedKeeps
<1>2. PICK obs : obs = observation' OBVIOUS
<1>3. obs \in Looked /\ obs # NotSeen BY <1>1, <1>2, IngestObserves
<1>4. PICK want : want = intents[active] OBVIOUS
<1>5. want \in Intent BY <1>4, ManagedHasIntent
<1>6. Evaluate(obs, active, want, {}) BY <1>1, <1>2, <1>4 DEF Ingest, Intended
<1>7. /\ obs.facts.source = want.source /\ obs.facts.value[f] \in Values
         => IF obs.facts.value[f] = want.fields[f] THEN ~drift'[f].open
            ELSE drift'[f] = DriftFinding(active, want.fields[f], obs.facts.value[f])
      /\ drift[f].open /\ ~drift'[f].open
         => /\ obs.facts.value[f] = want.fields[f]
            /\ ending'[f] = IF f \in {} THEN "intent_revised" ELSE "observed_matches_intent"
  BY <1>3, <1>5, <1>6, EvaluateLevels
<1>. QED BY <1>2, <1>4, <1>7

LEMMA IngestKeeps == ASSUME IInv, NEW r \in Refreshers, Ingest(r) PROVE IInv'
<1>1. refresh' \in [Refreshers -> Refresh] /\ now' \in Nat /\ UNCHANGED <<intents, active>>
  BY DEF IInv, Typed, Ingest, Refresh
<1>2. CASE refresh[r].facts = NotSeen.facts
  <2>1. UNCHANGED <<observation, state, drift, ending, conflict, standing>>
    BY <1>2 DEF Ingest
  <2>2. Typed' BY <1>1, <2>1 DEF IInv, Typed
  <2>3. ManagedWasSeen' /\ ReleasedIsQuiet' BY <1>1, <2>1 DEF IInv, ManagedWasSeen, ReleasedIsQuiet
  <2>4. FindingsMirrorTheHost' BY <1>1, <2>1 DEF IInv, FindingsMirrorTheHost
  <2>5. ConflictsHaveAnOwner' BY <1>1, <2>1 DEF IInv, ConflictsHaveAnOwner
  <2>. QED BY <2>2, <2>3, <2>4, <2>5 DEF IInv
<1>3. CASE refresh[r].facts # NotSeen.facts /\ state # "managed"
  <2>1. state' \in {"observe_only", "observed"} BY <1>3, IngestObserves, UpsertedKeeps
  <2>2. UNCHANGED <<drift, ending, conflict, standing>> BY <1>3, <2>1 DEF Ingest
  <2>3. Typed' BY <1>1, <1>3, <2>1, IngestObserves DEF IInv, Typed
  <2>4. ManagedWasSeen' /\ FindingsMirrorTheHost'
    BY <2>1 DEF ManagedWasSeen, FindingsMirrorTheHost
  <2>5. ReleasedIsQuiet' BY <1>1, <1>3, <2>1, <2>2 DEF IInv, ReleasedIsQuiet
  <2>6. ConflictsHaveAnOwner' BY <2>2 DEF IInv, ConflictsHaveAnOwner
  <2>. QED BY <2>3, <2>4, <2>5, <2>6 DEF IInv
<1>4. CASE refresh[r].facts # NotSeen.facts /\ state = "managed"
  <2>1. state' = "managed" BY <1>4, IngestObserves, UpsertedKeeps
  <2>2. observation' \in Looked /\ observation' # NotSeen BY <1>4, <2>1, IngestObserves
  <2>3. Typed' BY <1>1, <2>1, <2>2 DEF IInv, Typed
  <2>4. ManagedWasSeen' BY <2>2 DEF ManagedWasSeen
  <2>5. ReleasedIsQuiet' BY <1>1, <1>4, <2>1 DEF IInv, ReleasedIsQuiet
  <2>6. FindingsMirrorTheHost' BY <1>1, <1>4, IngestEvaluates DEF FindingsMirrorTheHost
  <2>7. ConflictsHaveAnOwner'
    <3>1. PICK facts : facts = observation'.facts OBVIOUS
    <3>2. EvaluateOwnership(facts, refresh[r].evidence, active) BY <1>4, <2>1, <3>1 DEF Ingest
    <3>. QED BY <3>2, EvaluateOwnershipOwns DEF IInv
  <2>. QED BY <2>3, <2>4, <2>5, <2>6, <2>7 DEF IInv
<1>. QED BY <1>2, <1>3, <1>4

-----------------------------------------------------------------------------
(* A new version of the intent.                                            *)

\* Adopting and revising append one version, put it in force and level the findings
\* with it.
Versioned(intent, revised) ==
    /\ intent \in Intent
    /\ intents' = Append(intents, intent) /\ active' = Len(intents) + 1
    /\ intents'[active'] = intent
    /\ observation \in Looked /\ observation # NotSeen
    /\ state' = "managed"
    /\ Evaluate(observation, active', intent, revised)
    /\ UNCHANGED <<now, observation, conflict, standing, refresh>>

LEMMA VersionedLevels ==
    ASSUME NEW intent, NEW revised, Versioned(intent, revised), NEW f \in Fields
    PROVE  /\ observation.facts.source = intent.source /\ observation.facts.value[f] \in Values
              => IF observation.facts.value[f] = intent.fields[f] THEN ~drift'[f].open
                 ELSE drift'[f] = DriftFinding(active', intent.fields[f], observation.facts.value[f])
           /\ drift[f].open /\ ~drift'[f].open
              => /\ observation.facts.value[f] = intent.fields[f]
                 /\ ending'[f] = IF f \in revised THEN "intent_revised"
                                ELSE "observed_matches_intent"
<1>1. PICK id : id = active' OBVIOUS
<1>2. Evaluate(observation, id, intent, revised) BY <1>1 DEF Versioned
<1>3. observation \in Looked /\ observation # NotSeen /\ intent \in Intent BY DEF Versioned
<1>4. /\ observation.facts.source = intent.source /\ observation.facts.value[f] \in Values
         => IF observation.facts.value[f] = intent.fields[f] THEN ~drift'[f].open
            ELSE drift'[f] = DriftFinding(id, intent.fields[f], observation.facts.value[f])
      /\ drift[f].open /\ ~drift'[f].open
         => /\ observation.facts.value[f] = intent.fields[f]
            /\ ending'[f] = IF f \in revised THEN "intent_revised"
                           ELSE "observed_matches_intent"
  BY <1>2, <1>3, EvaluateLevels
<1>. QED BY <1>1, <1>4

LEMMA VersionedKeeps ==
    ASSUME IInv, NEW intent, NEW revised, Versioned(intent, revised)
    PROVE  IInv'
<1>1. /\ Len(intents') = Len(intents) + 1 /\ intents' \in Seq(Intent)
      /\ Len(intents) \in Nat
  BY DEF IInv, Typed, Versioned
<1>2. Typed' BY <1>1 DEF IInv, Typed, Versioned
<1>3. ManagedWasSeen' BY DEF Versioned, ManagedWasSeen
<1>4. ReleasedIsQuiet' BY <1>1 DEF Versioned, ReleasedIsQuiet
<1>5. FindingsMirrorTheHost' BY VersionedLevels DEF Versioned, FindingsMirrorTheHost
<1>6. ConflictsHaveAnOwner' BY DEF IInv, Versioned, ConflictsHaveAnOwner
<1>. QED BY <1>2, <1>3, <1>4, <1>5, <1>6 DEF IInv

\* Append puts the new version last.
LEMMA NewVersionIsLast ==
    ASSUME intents \in Seq(Intent), NEW intent \in Intent,
           intents' = Append(intents, intent), active' = Len(intents) + 1
    PROVE  intents'[active'] = intent /\ Len(intents') = Len(intents) + 1
OBVIOUS

LEMMA AdoptVersions ==
    ASSUME IInv, NEW o \in Operators, Adopt(o)
    PROVE  \E intent : /\ Versioned(intent, {})
                       /\ intent.fields = observation.facts.value
                       /\ intent.supersedes = Len(intents) /\ intent.by = "adopt"
<1>. DEFINE intent == [fields |-> observation.facts.value, supersedes |-> Len(intents),
                       source |-> observation.facts.source, by |-> "adopt"]
<1>1. /\ intents \in Seq(Intent) /\ Len(intents) \in Nat
      /\ observation \in Looked /\ observation # NotSeen
  BY DEF IInv, Typed, Adopt, Adoptable, Fresh
<1>2. intent \in Intent
  <2>1. observation.facts \in Sightings BY <1>1 DEF Looked
  <2>2. observation.facts.source \in STRING /\ observation.facts.value \in [Fields -> Raw]
    BY <2>1, EstateAssumption
  <2>3. \A f \in Fields : observation.facts.value[f] \in Values
    BY DEF Adopt, Adoptable, CaptureComplete, Usable
  <2>4. observation.facts.value \in [Fields -> Values] BY <2>2, <2>3
  <2>. QED BY <1>1, <2>2, <2>4 DEF Intent
<1>3. intents' = Append(intents, intent) /\ active' = Len(intents) + 1
  BY DEF Adopt, NewVersion
<1>4. intents'[active'] = intent BY <1>1, <1>2, <1>3, NewVersionIsLast
<1>5. Evaluate(observation, active', intents'[active'], {}) BY DEF Adopt
<1>6. Evaluate(observation, active', intent, {}) BY <1>4, <1>5
<1>7. Versioned(intent, {})
  BY <1>1, <1>2, <1>3, <1>4, <1>6 DEF Versioned, Adopt
<1>. QED BY <1>7

LEMMA ReviseVersions ==
    ASSUME IInv, NEW o \in Operators, Revise(o)
    PROVE  \E intent :
              /\ Versioned(intent, {f \in Fields : intent.fields[f] # intents[active].fields[f]})
              /\ intent.supersedes = active /\ intent.by = request[o].kind
<1>1. /\ intents \in Seq(Intent) /\ Len(intents) \in Nat /\ state = "managed"
      /\ observation \in Looked /\ observation # NotSeen
      /\ active \in 1 .. Len(intents) /\ intents[active] \in Intent
  BY ManagedHasIntent DEF IInv, Typed, Revise, Revisable
<1>2. PICK asked \in Requests :
          /\ IF request[o].kind = "revise" THEN PlanExplicit(asked)
             ELSE PlanRuntime(observation.facts) /\ asked = observation.facts.value
          /\ NewVersion(Overlaid(Intended.fields, asked), active, observation.facts.source,
                        request[o].kind)
  BY DEF Revise
<1>. DEFINE intent == [fields |-> Overlaid(Intended.fields, asked), supersedes |-> active,
                       source |-> observation.facts.source, by |-> request[o].kind]
<1>3. intent \in Intent
  <2>1. observation.facts \in Sightings BY <1>1 DEF Looked
  <2>2. observation.facts.source \in STRING /\ observation.facts.value \in [Fields -> Raw]
    BY <2>1, EstateAssumption
  <2>3. \A f \in Fields : f \in DOMAIN asked => asked[f] \in Values
    BY <1>2 DEF PlanExplicit, PlanRuntime, CaptureComplete, Usable
  <2>4. \A f \in Fields : Intended.fields[f] \in Values BY <1>1 DEF Intended, Intent
  <2>5. Overlaid(Intended.fields, asked) \in [Fields -> Values] BY <2>3, <2>4 DEF Overlaid
  <2>. QED BY <1>1, <2>2, <2>5 DEF Intent, Revise
<1>4. intents' = Append(intents, intent) /\ active' = Len(intents) + 1
  BY <1>2 DEF NewVersion
<1>5. intents'[active'] = intent BY <1>1, <1>3, <1>4, NewVersionIsLast
<1>. HIDE DEF intent
<1>6. Evaluate(observation, active', intents'[active'],
              {f \in Fields : intents'[active'].fields[f] # Intended.fields[f]})
  BY DEF Revise
<1>7. Evaluate(observation, active', intent,
              {f \in Fields : intent.fields[f] # intents[active].fields[f]})
  BY <1>5, <1>6 DEF Intended
<1>8. Versioned(intent, {f \in Fields : intent.fields[f] # intents[active].fields[f]})
  BY <1>1, <1>3, <1>4, <1>5, <1>7 DEF Versioned, Revise
<1>9. intent.supersedes = active /\ intent.by = request[o].kind BY DEF intent
<1>. QED BY <1>8, <1>9

LEMMA ReleaseKeeps == ASSUME IInv, NEW o \in Operators, Release(o) PROVE IInv'
<1>1. state' = "observed" /\ active' = 0 BY DEF Release
<1>2. Typed' BY DEF IInv, Typed, Release
<1>3. ManagedWasSeen' /\ FindingsMirrorTheHost' BY <1>1 DEF ManagedWasSeen, FindingsMirrorTheHost
<1>4. ReleasedIsQuiet' BY <1>1 DEF ReleasedIsQuiet, Release, NoFinding
<1>5. ConflictsHaveAnOwner' BY DEF ConflictsHaveAnOwner, Release
<1>. QED BY <1>2, <1>3, <1>4, <1>5 DEF IInv

-----------------------------------------------------------------------------
(* The invariant holds, and what it says.                                  *)

\* Every step is quiet, a sweep stored, a new version or a release.
LEMMA StepKinds ==
    ASSUME [Next]_vars
    PROVE  \/ Quiet
           \/ \E r \in Refreshers : Ingest(r)
           \/ \E o \in Operators : Adopt(o) \/ Revise(o) \/ Release(o)
BY DEF Next, RefreshStep, RequestStep, Quiet

LEMMA StepKeeps == IInv /\ [Next]_vars => IInv'
<1>. SUFFICES ASSUME IInv, [Next]_vars PROVE IInv' OBVIOUS
<1>1. CASE Quiet BY <1>1, QuietKeeps
<1>2. CASE \E r \in Refreshers : Ingest(r) BY <1>2, IngestKeeps
<1>3. CASE \E o \in Operators : Adopt(o) BY <1>3, AdoptVersions, VersionedKeeps
<1>4. CASE \E o \in Operators : Revise(o) BY <1>4, ReviseVersions, VersionedKeeps
<1>5. CASE \E o \in Operators : Release(o) BY <1>5, ReleaseKeeps
<1>. QED BY <1>1, <1>2, <1>3, <1>4, <1>5, StepKinds

\* The invariant is one of the specification (management.py, ingest.py).
THEOREM Invariant == Spec => []IInv
BY Initially, StepKeeps, PTL DEF Spec

\* The drift findings of a managed object are level with the newest observation and
\* the intent in force, whatever sweeps and requests overlap (management.py _evaluate).
THEOREM FindingsAlwaysMirrorTheHost == Spec => []FindingsMirrorTheHost
<1>1. IInv => FindingsMirrorTheHost BY DEF IInv
<1>. QED BY <1>1, Invariant, PTL

\* An object that is not managed has no finding, no conflict and no active intent; a
\* managed one's active intent is its last version (management.py release).
THEOREM ReleasedIsAlwaysQuiet == Spec => []ReleasedIsQuiet
<1>1. IInv => ReleasedIsQuiet BY DEF IInv
<1>. QED BY <1>1, Invariant, PTL

\* An open conflict names a provider that has claimed the object and has not answered
\* otherwise since (management.py _evaluate_ownership).
THEOREM ConflictsAlwaysHaveAnOwner == Spec => []ConflictsHaveAnOwner
<1>1. IInv => ConflictsHaveAnOwner BY DEF IInv
<1>. QED BY <1>1, Invariant, PTL

\* A new version supersedes the one in force, and a revision is written only over the
\* version its operator decided against (management.py _verify_revisable).
THEOREM RevisionsAreAlwaysSerial == Spec => RevisionsAreSerial
<1>. DEFINE Serial ==
        intents' # intents =>
          LET n == intents'[Len(intents')]
          IN  /\ n.supersedes = Len(intents)
              /\ \E o \in Operators :
                    /\ request[o].pc = "commit" /\ request[o].kind = n.by
                    /\ n.by # "adopt" => request[o].expected = active
<1>1. IInv /\ [Next]_vars => [Serial]_vars
  <2>. SUFFICES ASSUME IInv, [Next]_vars, intents' # intents PROVE Serial OBVIOUS
  <2>1. CASE Quiet BY <2>1, QuietUntouched DEF estate
  <2>2. CASE \E r \in Refreshers : Ingest(r) BY <2>2 DEF Ingest
  <2>3. ASSUME NEW o \in Operators, Adopt(o) PROVE Serial
    <3>1. PICK intent : /\ Versioned(intent, {})
                        /\ intent.supersedes = Len(intents) /\ intent.by = "adopt"
      BY <2>3, AdoptVersions
    <3>2. intents'[Len(intents')] = intent
      BY <3>1, NewVersionIsLast DEF Versioned, IInv, Typed
    <3>. QED BY <2>3, <3>1, <3>2 DEF Adopt
  <2>4. ASSUME NEW o \in Operators, Revise(o) PROVE Serial
    <3>1. PICK intent :
              /\ Versioned(intent, {f \in Fields : intent.fields[f] # intents[active].fields[f]})
              /\ intent.supersedes = active /\ intent.by = request[o].kind
      BY <2>4, ReviseVersions
    <3>2. intents'[Len(intents')] = intent
      BY <3>1, NewVersionIsLast DEF Versioned, IInv, Typed
    <3>3. active = Len(intents) BY <2>4, ManagedHasIntent DEF Revise, Revisable
    <3>4. request[o].pc = "commit" /\ request[o].expected = active
      BY <2>4 DEF Revise, Revisable
    <3>. QED BY <3>1, <3>2, <3>3, <3>4
  <2>5. CASE \E o \in Operators : Release(o) BY <2>5 DEF Release
  <2>. QED BY <2>1, <2>2, <2>3, <2>4, <2>5, StepKinds
<1>. QED BY <1>1, Invariant, PTL DEF Spec, RevisionsAreSerial

\* An object becomes managed only on a fresh and readable observation that no provider
\* claims in its newest evidence, whatever was stored since the request was first
\* checked (management.py adopt).
THEOREM AdoptionAlwaysStands == Spec => AdoptionStands
<1>. DEFINE Stands ==
        state # "managed" /\ state' = "managed" =>
          /\ state = "observed"
          /\ now - observation.at <= TTL
          /\ intents'[active'].fields = observation.facts.value
          /\ \A p \in Daemons :
                Source(p, observation.facts,
                       [q \in Daemons |-> readings[q].reading]).claims = {}
<1>1. IInv /\ [Next]_vars => [Stands]_vars
  <2>. SUFFICES ASSUME IInv, [Next]_vars, state # "managed", state' = "managed" PROVE Stands
    OBVIOUS
  <2>1. CASE Quiet BY <2>1, QuietUntouched DEF estate
  <2>2. CASE \E r \in Refreshers : Ingest(r)
    BY <2>2, UpsertedKeeps DEF Ingest
  <2>3. ASSUME NEW o \in Operators, Adopt(o) PROVE Stands
    <3>1. PICK intent : Versioned(intent, {}) /\ intent.fields = observation.facts.value
      BY <2>3, AdoptVersions
    <3>2. intents'[active'].fields = observation.facts.value BY <3>1 DEF Versioned
    <3>3. state = "observed" /\ now - observation.at <= TTL /\ Unowned
      BY <2>3 DEF Adopt, Adoptable, Fresh, IInv, Typed
    <3>4. \A p \in Daemons : Source(p, observation.facts, NewestEvidence).claims = {}
      BY <3>3, UnownedIsUnclaimed
    <3>. QED BY <3>2, <3>3, <3>4 DEF NewestEvidence
  <2>4. CASE \E o \in Operators : Revise(o) \/ Release(o)
    BY <2>4 DEF Revise, Revisable, Release
  <2>. QED BY <2>1, <2>2, <2>3, <2>4, StepKinds
<1>. QED BY <1>1, Invariant, PTL DEF Spec, AdoptionStands

\* A conflict closes only once the provider it names has been asked again and has
\* answered without the claim, or with the release of the object: silence, adoption
\* and revision close none (management.py _evaluate_ownership).
THEOREM ConflictsAlwaysCloseOnAnswer == Spec => ConflictsCloseOnAnswer
<1>. DEFINE Closes(rel) ==
        conflict[rel] # NoConflict /\ conflict'[rel] = NoConflict
           => conflict[rel].owner \notin standing'[rel]
<1>1. IInv /\ [Next]_vars => [\A rel \in Relations : Closes(rel)]_vars
  <2>. SUFFICES ASSUME IInv, [Next]_vars, NEW rel \in Relations,
                       conflict[rel] # NoConflict, conflict'[rel] = NoConflict
                PROVE  Closes(rel)
    OBVIOUS
  <2>1. CASE Quiet BY <2>1, QuietUntouched DEF estate
  <2>2. ASSUME NEW r \in Refreshers, Ingest(r) PROVE Closes(rel)
    <3>1. PICK facts, evidence, id : EvaluateOwnership(facts, evidence, id)
      BY <2>2 DEF Ingest
    <3>. QED BY <3>1, AnswerCloses
  <2>3. CASE \E o \in Operators : Adopt(o) \/ Revise(o) BY <2>3 DEF Adopt, Revise
  <2>4. CASE \E o \in Operators : Release(o) BY <2>4 DEF Release
  <2>. QED BY <2>1, <2>2, <2>3, <2>4, StepKinds
<1>. QED BY <1>1, Invariant, PTL DEF Spec, ConflictsCloseOnAnswer

\* A finding is closed for the reason it gives (domain/findings.py, management.py
\* _evaluate and release).
THEOREM EndingsAreAlwaysTrue == Spec => EndingsAreTrue
<1>. DEFINE TrueOf(f) ==
        drift[f].open /\ ~drift'[f].open =>
          CASE ending'[f] = "intent_released" -> state' # "managed"
            [] ending'[f] = "intent_revised" ->
                  active' # active /\ intents'[active'].fields[f] # intents[active].fields[f]
            [] ending'[f] = "observed_matches_intent" ->
                  /\ intents'[active'].fields[f] = intents[active].fields[f]
                  /\ observation'.facts.value[f] = intents[active].fields[f]
<1>1. IInv /\ [Next]_vars => [\A f \in Fields : TrueOf(f)]_vars
  <2>. SUFFICES ASSUME IInv, [Next]_vars, NEW f \in Fields, drift[f].open, ~drift'[f].open
                PROVE  TrueOf(f)
    OBVIOUS
  <2>0. state = "managed" BY DEF IInv, ReleasedIsQuiet
  <2>1. CASE Quiet BY <2>1, QuietUntouched DEF estate
  <2>2. ASSUME NEW r \in Refreshers, Ingest(r) PROVE TrueOf(f)
    <3>1. refresh[r].facts # NotSeen.facts BY <2>2 DEF Ingest
    <3>2. /\ observation'.facts.value[f] = intents[active].fields[f]
          /\ ending'[f] = "observed_matches_intent"
      BY <2>0, <2>2, <3>1, IngestEvaluates
    <3>3. intents' = intents /\ active' = active BY <2>2 DEF Ingest
    <3>. QED BY <3>2, <3>3
  <2>3. CASE \E o \in Operators : Adopt(o) BY <2>0, <2>3 DEF Adopt, Adoptable
  <2>4. ASSUME NEW o \in Operators, Revise(o) PROVE TrueOf(f)
    <3>1. PICK intent :
              Versioned(intent, {g \in Fields : intent.fields[g] # intents[active].fields[g]})
      BY <2>4, ReviseVersions
    <3>2. /\ observation.facts.value[f] = intent.fields[f]
          /\ ending'[f] =
                IF f \in {g \in Fields : intent.fields[g] # intents[active].fields[g]}
                THEN "intent_revised" ELSE "observed_matches_intent"
      BY <3>1, VersionedLevels
    <3>3. /\ intents'[active'] = intent /\ active' = Len(intents) + 1
          /\ observation' = observation
      BY <3>1 DEF Versioned
    <3>4. active' # active BY <2>0, <3>3, ManagedHasIntent
    <3>. QED BY <3>2, <3>3, <3>4
  <2>5. CASE \E o \in Operators : Release(o) BY <2>5 DEF Release
  <2>. QED BY <2>1, <2>2, <2>3, <2>4, <2>5, StepKinds
<1>. QED BY <1>1, Invariant, PTL DEF Spec, EndingsAreTrue
=============================================================================
