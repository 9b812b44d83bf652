---------------------------- MODULE RuntimeOwner ----------------------------
(***************************************************************************)
(* Which systemd unit runs the container the operator's connection ends    *)
(* in: DockerRuntimeOwnerCorrelator.correlate (agent/docker_runtime_owner) *)
(* over one Docker session pinned to the daemon's process                  *)
(* (DockerRuntimeOwnerSession, agent/providers/docker.py) and the          *)
(* administrator's attestation (agent/docker_direct_attestation.py).       *)
(*                                                                         *)
(* The host does not hold still: daemons and containers die and start,     *)
(* process ids are used again, Docker notices a death late, and the        *)
(* attestation is replaced. Every read of the correlation is a step.       *)
(***************************************************************************)
EXTENDS Naturals, FiniteSets

CONSTANTS
    Pids,         \* process ids, used again when they are free
    Containers,   \* container ids
    Backend,      \* the container the accepted socket belongs to
    Units,        \* service units a daemon may be the main process of
    MaxEvents     \* bound on what happens to the host

ASSUME RuntimeOwnerAssumption ==
    /\ Backend \in Containers
    /\ {"none", "daemon", "elsewhere", "inner"} \cap Containers = {}
    /\ MaxEvents \in Nat

VARIABLES
    accepted,     \* the accepted socket's cgroup: the container's own, or one below it
    eligible,     \* the containers with host networking and a well-formed start time
    process,      \* host truth: who has a pid: a generation (0: nobody) and a cgroup
    daemon,       \* host truth: the process behind the socket: pid, gen, unit, main
    running,      \* host truth: the main process of each container: pid, gen (0: none)
    inner,        \* host truth: the generation of the cgroup below Backend's (0: none)
    known,        \* Docker's own record of the main processes
    attested,     \* the attestation file: the unit it names, "none" if unusable
    events,       \* how many things have happened; a process is known by its id and the
                  \* generation it began in, as by its start time
    pc,           \* where the correlation stands
    found,        \* what it has read
    together      \* history: when checked, did what it read hold at once, and did it
                  \* name the accepted container

given     == <<accepted, eligible>>
hostvars  == <<given, process, daemon, running, inner, known, attested, events>>
ownervars == <<hostvars, pc, found, together>>

Nobody    == [gen |-> 0, cgroup |-> "none"]
NotUp     == [pid |-> 0, gen |-> 0]
NoDaemon  == [pid |-> 0, gen |-> 0, unit |-> "none", main |-> FALSE]
NoProcess == [pid |-> 0, gen |-> 0, cgroup |-> "none"]
NothingRead ==
    [unit |-> "none", identity |-> 0, peer |-> NoProcess, todo |-> {},
     now |-> [id |-> "none", at |-> NotUp], pin |-> NoProcess, matches |-> {}]

\* At first the daemon and every container run, each with a pid of its own.
OwnerInit ==
    /\ events = 0
    /\ accepted \in {Backend, "inner"} /\ inner = (IF accepted = "inner" THEN 1 ELSE 0)
    /\ eligible \in SUBSET Containers
    /\ \E u \in Units, m \in BOOLEAN, d \in Pids, p \in [Containers -> Pids] :
         /\ \A c, e \in Containers : p[c] # d /\ (p[c] = p[e] => c = e)
         /\ daemon = [pid |-> d, gen |-> 1, unit |-> u, main |-> m]
         /\ running = [c \in Containers |-> [pid |-> p[c], gen |-> 1]]
         /\ process = [q \in Pids |->
                         CASE q = d -> [gen |-> 1, cgroup |-> "daemon"]
                           [] \E c \in Containers : p[c] = q ->
                                [gen |-> 1, cgroup |-> CHOOSE c \in Containers : p[c] = q]
                           [] OTHER -> Nobody]
         /\ attested \in {u, "none"}
    /\ known = running
    /\ pc = "start"
    /\ found = NothingRead
    /\ together = [holds |-> FALSE, named |-> FALSE]

Fresh == events + 2                              \* later than any generation so far

-----------------------------------------------------------------------------
(* The host.                                                               *)

Happens == events < MaxEvents /\ events' = events + 1 /\ UNCHANGED given

DaemonDies ==
    /\ Happens /\ daemon # NoDaemon
    /\ process' = [process EXCEPT ![daemon.pid] = Nobody]
    /\ daemon' = NoDaemon
    /\ UNCHANGED <<running, inner, known, attested, pc, found, together>>

DaemonStarts(p, u, m) ==
    /\ Happens /\ daemon = NoDaemon /\ process[p] = Nobody
    /\ process' = [process EXCEPT ![p] = [gen |-> Fresh, cgroup |-> "daemon"]]
    /\ daemon' = [pid |-> p, gen |-> Fresh, unit |-> u, main |-> m]
    /\ UNCHANGED <<running, inner, known, attested, pc, found, together>>

\* The cgroups of a container: its own, and the one below Backend's.
Within(c) == {c} \cup (IF c = Backend THEN {"inner"} ELSE {})

\* Whoever is in these cgroups is gone.
Emptied(groups) == [p \in Pids |-> IF process[p].cgroup \in groups THEN Nobody ELSE process[p]]

\* A container's main process ends, and with it all others in it. Docker notices when
\* it does.
ContainerDies(c) ==
    /\ Happens /\ running[c] # NotUp
    /\ process' = Emptied(Within(c))
    /\ running' = [running EXCEPT ![c] = NotUp]
    /\ inner' = IF c = Backend THEN 0 ELSE inner
    /\ UNCHANGED <<daemon, known, attested, pc, found, together>>

Notice(c) ==
    /\ known[c] # running[c] /\ running[c] = NotUp
    /\ known' = [known EXCEPT ![c] = NotUp]
    /\ UNCHANGED <<given, process, daemon, running, inner, attested, events, pc, found, together>>

ContainerStarts(c, p) ==
    /\ Happens /\ daemon # NoDaemon /\ running[c] = NotUp /\ process[p] = Nobody
    /\ process' = [process EXCEPT ![p] = [gen |-> Fresh, cgroup |-> c]]
    /\ running' = [running EXCEPT ![c] = [pid |-> p, gen |-> Fresh]]
    /\ known' = [known EXCEPT ![c] = running'[c]]
    /\ UNCHANGED <<daemon, inner, attested, pc, found, together>>

\* The cgroup below the accepted container's is removed, or made anew.
InnerChanges ==
    /\ Happens /\ accepted = "inner" /\ running[Backend] # NotUp
    /\ inner' = IF inner = 0 THEN Fresh ELSE 0
    /\ process' = Emptied({"inner"})
    /\ UNCHANGED <<daemon, running, known, attested, pc, found, together>>

\* Some other process takes a free pid, outside or in a container that runs.
Stray(p, cgroup) ==
    /\ Happens /\ process[p] = Nobody
    /\ cgroup \in Containers => running[cgroup] # NotUp
    /\ cgroup = "inner" => inner # 0
    /\ process' = [process EXCEPT ![p] = [gen |-> Fresh, cgroup |-> cgroup]]
    /\ UNCHANGED <<daemon, running, inner, known, attested, pc, found, together>>

Reattest(u) ==
    /\ Happens /\ u # attested
    /\ attested' = u
    /\ UNCHANGED <<process, daemon, running, inner, known, pc, found, together>>

-----------------------------------------------------------------------------
(* What the correlation reads with.                                        *)

Alive(p) == p.gen # 0 /\ process[p.pid].gen = p.gen       \* _pidfd_live

\* cgroup_identity: a container's cgroup is made with its main process and goes with it
Identity(cgroup) == IF cgroup = "inner" THEN inner ELSE running[cgroup].gen

\* _cgroup_relation of a container's process to the accepted socket
Relation(cgroup) ==
    CASE cgroup = accepted                       -> "equal"
      [] cgroup = Backend /\ accepted = "inner" -> "ancestor"
      [] OTHER                                   -> "none"

\* PinnedProcessCgroup.stable
Stable(p) == Alive(p) /\ process[p.pid].cgroup = p.cgroup

\* _runtime_candidate: when the container says it started, and its pid; none unless it
\* says it runs, with host networking and a well-formed start time
Candidate(c) == IF c \in eligible THEN known[c] ELSE NotUp

\* _validate_systemd_owner: the peer is the main process of the attested unit
Owner == daemon.gen = found.peer.gen /\ daemon.unit = found.unit /\ daemon.main

At(step)      == pc = step
Go(step, rec) == pc' = step /\ found' = rec /\ UNCHANGED <<hostvars, together>>

\* _incomplete: any read may fail, and so may the daemon's deadline.
GiveUp ==
    /\ pc \notin {"start", "resolved", "incomplete"}
    /\ pc' = "incomplete"
    /\ UNCHANGED <<hostvars, found, together>>

\* A read over the session: the daemon's process is checked before and after, and
\* the connection does not outlive it.
Session(step, next, rec, ok) ==
    /\ At(step)
    /\ IF Alive(found.peer) /\ ok THEN Go(next, rec) ELSE Go("incomplete", found)

-----------------------------------------------------------------------------
(* correlate.                                                              *)

\* attestation A, and then the accepted cgroup's identity
ReadAttestation ==
    /\ At("start")
    /\ IF attested = "none" THEN Go("incomplete", found)
       ELSE Go("accepted", [found EXCEPT !.unit = attested])

AcceptIdentity ==
    /\ At("accepted")
    /\ IF Identity(accepted) = 0 THEN Go("incomplete", found)
       ELSE Go("connect", [found EXCEPT !.identity = Identity(accepted)])

\* __enter__, _read_peer: the process at the other end of this very connection
Connect ==
    /\ At("connect")
    /\ IF daemon = NoDaemon THEN Go("incomplete", found)
       ELSE Go("peer", [found EXCEPT !.peer = [pid |-> daemon.pid, gen |-> daemon.gen,
                                              cgroup |-> "daemon"]])

InspectPeer == Session("peer", "systemd_a", found, TRUE)
SystemdA    == Session("systemd_a", "engine_a", found, Owner)
EngineA     == Session("engine_a", "list", found, TRUE)
List        == Session("list", "next", [found EXCEPT !.todo = Containers], TRUE)

\* inspect A: a container that is no candidate is passed over
Inspect(c) ==
    /\ At("next") /\ c \in found.todo
    /\ Session("next", IF Candidate(c) = NotUp THEN "next" ELSE "pin",
               [found EXCEPT !.todo = @ \ {c}, !.now = [id |-> c, at |-> Candidate(c)]], TRUE)

\* LinuxProcessCgroupInspector.pin: whoever has that pid now
Pin ==
    /\ At("pin")
    /\ LET p == process[found.now.at.pid]
       IN IF p = Nobody THEN Go("incomplete", found)
          ELSE IF Relation(p.cgroup) = "none" THEN Go("next", found)
          ELSE Go("inspect_b", [found EXCEPT !.pin =
                  [pid |-> found.now.at.pid, gen |-> p.gen, cgroup |-> p.cgroup]])

InspectB ==
    Session("inspect_b", "stable_b", found,
            Candidate(found.now.id) = found.now.at)

StableB ==
    /\ At("stable_b")
    /\ IF Stable(found.pin) /\ Identity(accepted) = found.identity
       THEN Go("next", [found EXCEPT !.matches = @ \cup 
                   {[id |-> found.now.id, at |-> found.now.at, process |-> found.pin]}])
       ELSE Go("incomplete", found)

Match == CHOOSE m \in found.matches : TRUE

\* Faulty variant of Matched: the first match ends the search.
MatchedFirst ==
    /\ At("next") /\ (found.todo = {} \/ found.matches # {})
    /\ IF Cardinality(found.matches) = 1 THEN Go("engine_b", found) ELSE Go("incomplete", found)

Matched ==
    /\ At("next") /\ found.todo = {}
    /\ IF Cardinality(found.matches) = 1 THEN Go("engine_b", found) ELSE Go("incomplete", found)

EngineB  == Session("engine_b", "systemd_b", found, TRUE)
SystemdB == Session("systemd_b", "final", found, Owner)

InspectFinal ==
    Session("final", "peer_stable", found,
            Candidate(Match.id) = Match.at)

\* What the answer will say, and whether the host is so at this instant: the daemon is
\* the attested unit's, and the process that was pinned is in the accepted socket's
\* cgroup or the one above ...
Truly ==
    /\ Alive(found.peer) /\ Owner
    /\ Alive(Match.process) /\ Relation(process[Match.process.pid].cgroup) # "none"
    /\ Identity(accepted) = found.identity

\* ... and is the main process of the accepted container since the start that is named.
TrulyNamed ==
    /\ Match.id = Backend /\ Match.at = running[Backend]
    /\ Match.process.gen = running[Backend].gen

PeerStable ==
    /\ At("peer_stable")
    /\ together' = [holds |-> Truly, named |-> TrulyNamed]
    /\ pc' = IF Stable(found.peer) THEN "container_stable" ELSE "incomplete"
    /\ UNCHANGED <<hostvars, found>>

\* Faulty variant of ContainerStable: the last look at the container is left out.
ContainerStableUnchecked == At("container_stable") /\ Go("attestation_b", found)

ContainerStable ==
    /\ At("container_stable")
    /\ IF Stable(Match.process) /\ Identity(accepted) = found.identity
       THEN Go("attestation_b", found) ELSE Go("incomplete", found)

AttestationB ==
    /\ At("attestation_b")
    /\ IF attested = found.unit THEN Go("live", found) ELSE Go("incomplete", found)

\* require_peer_live, and the answer
Resolve == Session("live", "resolved", found, TRUE)

Correlate ==
    \/ ReadAttestation \/ AcceptIdentity \/ Connect \/ InspectPeer \/ SystemdA \/ EngineA \/ List
    \/ \E c \in Containers : Inspect(c)
    \/ Pin \/ InspectB \/ StableB \/ Matched \/ EngineB \/ SystemdB \/ InspectFinal
    \/ PeerStable \/ ContainerStable \/ AttestationB \/ Resolve \/ GiveUp

Host ==
    \/ DaemonDies
    \/ \E p \in Pids, u \in Units, m \in BOOLEAN : DaemonStarts(p, u, m)
    \/ \E c \in Containers : ContainerDies(c)
    \/ \E c \in Containers : Notice(c)
    \/ \E c \in Containers, p \in Pids : ContainerStarts(c, p)
    \/ InnerChanges
    \/ \E p \in Pids, g \in Containers \cup {"elsewhere", "inner"} : Stray(p, g)
    \/ \E u \in Units \cup {"none"} : Reattest(u)

OwnerNext == Correlate \/ Host
OwnerSpec == OwnerInit /\ [][OwnerNext]_ownervars

-----------------------------------------------------------------------------
(* Properties.                                                             *)

\* An answer rests on a daemon, its unit and a process in the accepted socket's cgroup,
\* or the one above, that were all real at one and the same instant, although every one
\* was read in a step of its own on a host that restarts them, reuses their process ids
\* and reports their end late (correlate's second looks). The instant is that of the
\* last look at the daemon's process; only the attestation is held at both ends alone,
\* since nothing tells whether it was changed and put back in between.
ResolvedHeldTogether == pc = "resolved" => together.holds

\* If the accepted container is one that may be a candidate, it is the one that is named,
\* with the start it had at that instant, and never another whose stale record gives a
\* process id that some process of the accepted container has by now: the search ends
\* only after every container, and finding two is no answer (correlate, "ambiguous").
ResolvedNamesTheContainer ==
    pc = "resolved" /\ Backend \in eligible => together.named
=============================================================================
