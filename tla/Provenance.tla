----------------------------- MODULE Provenance -----------------------------
(***************************************************************************)
(* Who owns an object: backend/domain/provenance.py over the readings the  *)
(* agent's evidence providers take (agent/providers/docker.py read,        *)
(* network_manager.py, tailscale.py, collector.py) and the coherence check *)
(* the backend makes of them (ingest.py _provider_rows).                   *)
(*                                                                         *)
(* Nothing here keeps state. A provider's answer becomes a reading, a      *)
(* reading and the facts of a link become claims and gaps, and the claims  *)
(* decide whether LocalPlane may take the object on.                       *)
(***************************************************************************)
EXTENDS Naturals, FiniteSets

Daemons   == {"docker", "networkmanager", "tailscale"}
Providers == Daemons \cup {"kernel"}
Relations == {"created_by", "configured_by"}
Statuses  == {"ok", "absent", "unavailable", "error"}

-----------------------------------------------------------------------------
(* The agent's side: one answer of the host, one reading.                  *)

Reading(status, records) == [status |-> status, records |-> records]

\* A command or a socket that is not there, or does not answer.
Silent(came) ==
    IF came \in {"no_binary", "no_socket"} THEN Reading("absent", {})
    ELSE Reading("unavailable", {})

\* DockerProvider.read: an answer that is not what the API promises is an error.
ReadDocker(answer) ==
    CASE answer.came = "ok" -> Reading("ok", answer.records)
      [] answer.came \in {"garbled", "raised"} -> Reading("error", {})
      [] OTHER -> Silent(answer.came)

\* NetworkManagerEvidenceProvider.read: lines that are not devices are passed over,
\* so a garbled answer is an answer without devices.
ReadNetworkManager(answer) ==
    CASE answer.came = "ok" -> Reading("ok", answer.records)
      [] answer.came = "garbled" -> Reading("ok", {})
      [] OTHER -> Silent(answer.came)

\* TailscaleEvidenceProvider.read
ReadTailscale(answer) ==
    CASE answer.came = "ok" -> Reading("ok", answer.records)
      [] answer.came = "garbled" -> Reading("error", {})
      [] OTHER -> Silent(answer.came)

\* NetworkProviderEvidenceCollector.collect: one reading of each provider, an error
\* for one that raised. "foreign" is the status of an agent of another build.
Collected(round) ==
    LET read == [docker |-> ReadDocker(round.docker),
                 networkmanager |-> ReadNetworkManager(round.networkmanager),
                 tailscale |-> ReadTailscale(round.tailscale)]
    IN  [p \in Daemons |->
            CASE round[p].came = "raised" -> Reading("error", {})
              [] round[p].came = "foreign" -> Reading("foreign", {})
              [] OTHER -> read[p]]

\* _provider_rows: a status this build does not know, or records beside a status
\* that is no answer, is stored as an error that says nothing.
Row(reading) ==
    IF \/ reading.status \notin Statuses
       \/ reading.status # "ok" /\ reading.records # {}
    THEN [status |-> "error", records |-> {}]
    ELSE reading

Rows(collected) == [p \in Daemons |-> Row(collected[p])]

\* No reading of the provider was ever stored.
Never == [status |-> "never_consulted", records |-> {}]

-----------------------------------------------------------------------------
(* The claims one source supports, and whether it left the question open.  *)

Claim(p, relations, confidence) ==
    {[owner |-> p, relation |-> r, confidence |-> confidence] : r \in relations}

Said(claims) == [claims |-> claims, gap |-> FALSE]
Gap          == [claims |-> {}, gap |-> TRUE]
Nothing      == Said({})

\* _unusable_source: absent is an answer, silence and failure are gaps.
Unusable(reading) == reading.status # "ok"
UnusableSource(reading) == IF reading.status = "absent" THEN Nothing ELSE Gap

\* _kernel: loopback, and a link with a device behind it.
Kernel(facts) ==
    IF facts.kind = "loopback" \/ facts.physical
    THEN Said(Claim("kernel", {"created_by"}, "confirmed"))
    ELSE Nothing

\* _docker: a declared bridge name decides; otherwise a gateway that exactly one
\* network declares and the bridge carries.
Docker(facts, nets) ==
    LET named     == {n \in nets : n.bridge = facts.name}
        sharing(g) == {n \in nets : g \in n.gateways}
        onLink    == {n \in nets : n.gateways \cap facts.addresses # {}}
        matched   == {n \in onLink : \E g \in n.gateways \cap facts.addresses :
                                        Cardinality(sharing(g)) = 1}
    IN  CASE Cardinality(named) > 1 -> Gap
          [] Cardinality(named) = 1 ->
                IF facts.kind = "bridge" THEN Said(Claim("docker", Relations, "confirmed"))
                ELSE Gap
          [] named = {} /\ facts.kind # "bridge" -> Nothing
          [] named = {} /\ facts.kind = "bridge" /\ ~facts.addressesRead -> Gap
          [] OTHER ->
                CASE Cardinality(matched) = 1 -> Said(Claim("docker", Relations, "corroborated"))
                  [] Cardinality(matched) > 1 -> Gap
                  [] matched = {} /\ onLink # {} -> Gap
                  [] OTHER -> Nothing

\* _networkmanager: only an active profile that NetworkManager itself put there.
NetworkManager(facts, devices) ==
    IF \E d \in devices : /\ d.device = facts.name
                          /\ d.state = "connected" /\ ~d.external /\ d.profile
    THEN Said(Claim("networkmanager", {"configured_by"}, "confirmed"))
    ELSE Nothing

\* _tailscale: the daemon's own addresses, found on a tunnel it is running.
Tailscale(facts, daemons) ==
    CASE daemons = {} -> Gap
      [] daemons # {} /\ facts.kind # "tunnel" -> Nothing
      [] OTHER ->
            LET d == CHOOSE x \in daemons : TRUE
            IN  CASE d.tun = "no" -> Nothing
                  [] d.tun # "no" /\ ~d.running -> Gap
                  [] d.tun # "no" /\ d.running /\ ~facts.addressesRead -> Gap
                  [] OTHER ->
                        IF d.addresses \cap facts.addresses # {}
                        THEN Said(Claim("tailscale", Relations, "corroborated"))
                        ELSE Nothing

Source(p, facts, evidence) ==
    CASE p = "kernel" -> Kernel(facts)
      [] p # "kernel" /\ Unusable(evidence[p]) -> UnusableSource(evidence[p])
      [] p = "docker" /\ ~Unusable(evidence[p]) -> Docker(facts, evidence[p].records)
      [] p = "networkmanager" /\ ~Unusable(evidence[p]) ->
            NetworkManager(facts, evidence[p].records)
      [] p = "tailscale" /\ ~Unusable(evidence[p]) -> Tailscale(facts, evidence[p].records)

-----------------------------------------------------------------------------
(* Putting the sources together: derive_provenance and _assemble.          *)

DeriveProvenance(facts, evidence) ==
    [claims |-> UNION {Source(p, facts, evidence).claims : p \in Providers},
     gaps   |-> {p \in Providers : Source(p, facts, evidence).gap}]

\* derive_container_provenance: Docker made the container and keeps its
\* configuration, on the container's own evidence.
ContainerProvenance(idReadable) ==
    IF idReadable THEN [claims |-> Claim("docker", Relations, "confirmed"), gaps |-> {}]
    ELSE [claims |-> {}, gaps |-> {"docker"}]

ClaimsFor(provenance, relation) == {c \in provenance.claims : c.relation = relation}
External(claims) == {c \in claims : c.owner # "kernel"}
OwnersOf(claims) == {c.owner : c \in claims}

ConflictingRelations(provenance) ==
    {r \in Relations : Cardinality(OwnersOf(ClaimsFor(provenance, r))) > 1}

\* The order in which the sources are consulted; the first claim speaks.
Rank == [kernel |-> 0, docker |-> 1, networkmanager |-> 2, tailscale |-> 3]
FirstClaim(claims) == CHOOSE c \in claims : \A d \in claims : Rank[c.owner] <= Rank[d.owner]

\* ownership_block, with the provider an operation acts through left out of it.
OwnershipBlock(provenance, actingThrough) ==
    LET others(r) == {c \in External(ClaimsFor(provenance, r)) : c.owner # actingThrough}
    IN  CASE ConflictingRelations(provenance) # {} -> "conflicting_ownership_claims"
          [] ConflictingRelations(provenance) = {} /\ others("configured_by") # {} ->
                "externally_configured"
          [] OTHER -> IF others("created_by") # {} THEN "externally_created" ELSE "none"
=============================================================================
