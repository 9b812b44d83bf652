-------------------------- MODULE ConnectionProofs --------------------------
(***************************************************************************)
(* The operator's connection: the unit that runs what it ends in, on a     *)
(* host of any size that changes in any way while it is looked for         *)
(* (RuntimeOwner), and the secret and sessions that let it in, for any     *)
(* number of runs of init, of request threads and of sessions, and any     *)
(* clock (Sessions).                                                       *)
(***************************************************************************)
EXTENDS RuntimeOwner, Sessions, FiniteSetTheorems, TLAPS

-----------------------------------------------------------------------------
(* The host the correlation reads.                                         *)

\* Who has a pid when n things have happened.
Process(n) == [gen : 0 .. n + 1, cgroup : Containers \cup {"none", "daemon", "elsewhere", "inner"}]

\* What runs has its process, under the generation it started with, and the cgroup below
\* a container its container; no generation is later than the clock; and what Docker
\* knows of a running container is right.
HostInv ==
    /\ events \in Nat
    /\ accepted \in {Backend, "inner"}
    /\ inner \in 0 .. events + 1 /\ (inner # 0 => running[Backend] # NotUp)
    /\ process \in [Pids -> Process(events)]
    /\ daemon # NoDaemon =>
         daemon.pid \in Pids /\ daemon.gen \in 1 .. events + 1
         /\ process[daemon.pid] = [gen |-> daemon.gen, cgroup |-> "daemon"]
    /\ DOMAIN running = Containers
    /\ \A c \in Containers : running[c] # NotUp =>
         running[c].pid \in Pids /\ running[c].gen \in 1 .. events + 1
         /\ process[running[c].pid] = [gen |-> running[c].gen, cgroup |-> c]
    /\ DOMAIN known = Containers
    /\ \A c \in Containers : running[c] # NotUp => known[c] = running[c]
    /\ \A c \in Containers : known[c] # NotUp => known[c].pid \in Pids

\* So no two of them share a process id, and none has a free one.
LEMMA PidsApart ==
    ASSUME HostInv
    PROVE  /\ \A c \in Containers : running[c] # NotUp => process[running[c].pid] # Nobody
           /\ \A c, e \in Containers :
                running[c] # NotUp /\ running[e] # NotUp /\ c # e => running[c].pid # running[e].pid
           /\ daemon # NoDaemon =>
                /\ process[daemon.pid] # Nobody
                /\ \A c \in Containers : running[c] # NotUp => running[c].pid # daemon.pid
<1>1. \A c \in Containers : running[c] # NotUp =>
        process[running[c].pid].cgroup = c /\ process[running[c].pid].gen # 0
  <2> SUFFICES ASSUME NEW c \in Containers, running[c] # NotUp
               PROVE  process[running[c].pid].cgroup = c /\ process[running[c].pid].gen # 0
    OBVIOUS
  <2>1. process[running[c].pid] = [gen |-> running[c].gen, cgroup |-> c]
    BY DEF HostInv
  <2>2. running[c].gen \in 1 .. events + 1 /\ events \in Nat
    BY DEF HostInv
  <2>3. running[c].gen # 0
    BY <2>2
  <2>4. QED
    BY <2>1, <2>3
<1>2. daemon # NoDaemon => process[daemon.pid].cgroup = "daemon" /\ process[daemon.pid].gen # 0
  BY DEF HostInv
<1>3. Nobody.gen = 0
  BY DEF Nobody
<1>4. QED
  BY <1>1, <1>2, <1>3, RuntimeOwnerAssumption

\* Every step of the host and of the correlation leaves it so.
LEMMA HostStep ==
    ASSUME HostInv, [OwnerNext]_ownervars
    PROVE  HostInv'
<1> USE RuntimeOwnerAssumption, PidsApart DEF HostInv
<1>0. \A n \in Nat :
        /\ Nobody \in Process(n) /\ Process(n) \subseteq Process(n + 1)
        /\ 1 .. n + 1 \subseteq 1 .. (n + 1) + 1 /\ 0 .. n + 1 \subseteq 0 .. (n + 1) + 1
        /\ n + 2 \in 1 .. (n + 1) + 1 /\ 0 \in 0 .. (n + 1) + 1
        /\ \A g \in Containers \cup {"daemon", "elsewhere", "inner"} :
             [gen |-> n + 2, cgroup |-> g] \in Process(n + 1)
  BY DEF Nobody, Process
<1>12. \A e \in Containers : running[e] # NotUp =>
         e # "inner" /\ running[e].pid \in Pids /\ process[running[e].pid].cgroup = e
  <2> SUFFICES ASSUME NEW e \in Containers, running[e] # NotUp
               PROVE  e # "inner" /\ running[e].pid \in Pids /\ process[running[e].pid].cgroup = e
    OBVIOUS
  <2>1. process[running[e].pid] = [gen |-> running[e].gen, cgroup |-> e] /\ running[e].pid \in Pids
    OBVIOUS
  <2>2. QED
    BY <2>1
<1>1. CASE UNCHANGED hostvars
  BY <1>1 DEF hostvars, given
<1>2. CASE DaemonDies
  BY <1>0, <1>2 DEF DaemonDies, Happens, given
<1>3. ASSUME NEW p \in Pids, NEW u \in Units, NEW m \in BOOLEAN, DaemonStarts(p, u, m)
      PROVE  HostInv'
  BY <1>0, <1>3 DEF DaemonStarts, Happens, Fresh, given
<1>4. ASSUME NEW c \in Containers, ContainerDies(c)
      PROVE  HostInv'
  <2>1. /\ events' = events + 1 /\ UNCHANGED <<accepted, daemon, known>>
        /\ process' = Emptied(Within(c)) /\ running' = [running EXCEPT ![c] = NotUp]
        /\ inner' = IF c = Backend THEN 0 ELSE inner
    BY <1>4 DEF ContainerDies, Happens, given
  <2>2. process' \in [Pids -> Process(events')]
    BY <1>0, <2>1 DEF Emptied
  <2>3. \A e \in Containers \ {c} : running'[e] = running[e]
        /\ (running[e] # NotUp => process'[running[e].pid] = process[running[e].pid])
    <3> SUFFICES ASSUME NEW e \in Containers \ {c}
                 PROVE  running'[e] = running[e]
                        /\ (running[e] # NotUp => process'[running[e].pid] = process[running[e].pid])
      OBVIOUS
    <3>1. running'[e] = running[e]
      BY <2>1
    <3>2. ASSUME running[e] # NotUp
          PROVE  process'[running[e].pid] = process[running[e].pid]
      <4>1. process[running[e].pid].cgroup \notin Within(c) /\ running[e].pid \in Pids
        BY <1>12, <3>2 DEF Within
      <4>2. QED
        BY <2>1, <4>1 DEF Emptied
    <3>3. QED
      BY <3>1, <3>2
  <2>4. \A e \in Containers : running'[e] # NotUp => e # c
    BY <2>1
  <2>5. daemon # NoDaemon => process'[daemon.pid] = process[daemon.pid]
    BY <2>1 DEF Emptied, Within
  <2>6. \A e \in Containers : running'[e] # NotUp =>
          /\ running'[e].pid \in Pids /\ running'[e].gen \in 1 .. events' + 1
          /\ process'[running'[e].pid] = [gen |-> running'[e].gen, cgroup |-> e]
          /\ known'[e] = running'[e]
    BY <1>0, <2>1, <2>3, <2>4
  <2>7. events' \in Nat /\ (daemon' # NoDaemon =>
          /\ daemon'.pid \in Pids /\ daemon'.gen \in 1 .. events' + 1
          /\ process'[daemon'.pid] = [gen |-> daemon'.gen, cgroup |-> "daemon"])
    BY <1>0, <2>1, <2>5
  <2>8. inner' \in 0 .. events' + 1 /\ (inner' # 0 => running'[Backend] # NotUp)
    BY <1>0, <2>1, <2>3
  <2>9. QED
    BY <2>1, <2>2, <2>6, <2>7, <2>8
<1>5. ASSUME NEW c \in Containers, Notice(c)
      PROVE  HostInv'
  BY <1>5 DEF Notice, given
<1>6. ASSUME NEW c \in Containers, NEW p \in Pids, ContainerStarts(c, p)
      PROVE  HostInv'
  <2>1. /\ events' = events + 1 /\ UNCHANGED <<accepted, daemon, inner>>
        /\ process[p] = Nobody /\ running[c] = NotUp
        /\ process' = [process EXCEPT ![p] = [gen |-> events + 2, cgroup |-> c]]
        /\ running' = [running EXCEPT ![c] = [pid |-> p, gen |-> events + 2]]
        /\ known' = [known EXCEPT ![c] = [pid |-> p, gen |-> events + 2]]
    BY <1>6 DEF ContainerStarts, Happens, Fresh, given
  <2>2. process' \in [Pids -> Process(events')]
    BY <1>0, <2>1
  <2>3. \A e \in Containers \ {c} : running'[e] = running[e] /\ known'[e] = known[e]
        /\ (running[e] # NotUp => process'[running[e].pid] = process[running[e].pid])
    BY <2>1
  <2>4. /\ running'[c] = [pid |-> p, gen |-> events + 2] /\ known'[c] = running'[c]
        /\ process'[p] = [gen |-> events + 2, cgroup |-> c]
    BY <2>1
  <2>5. \A e \in Containers : running'[e] # NotUp =>
          /\ running'[e].pid \in Pids /\ running'[e].gen \in 1 .. events' + 1
          /\ process'[running'[e].pid] = [gen |-> running'[e].gen, cgroup |-> e]
          /\ known'[e] = running'[e]
    BY <1>0, <2>1, <2>3, <2>4
  <2>6. daemon # NoDaemon => process'[daemon.pid] = process[daemon.pid]
    BY <2>1
  <2>7. events' \in Nat /\ (daemon' # NoDaemon =>
          /\ daemon'.pid \in Pids /\ daemon'.gen \in 1 .. events' + 1
          /\ process'[daemon'.pid] = [gen |-> daemon'.gen, cgroup |-> "daemon"])
    BY <1>0, <2>1, <2>6
  <2>8. inner' \in 0 .. events' + 1 /\ (inner' # 0 => running'[Backend] # NotUp)
    BY <1>0, <2>1, <2>3
  <2>9. \A e \in Containers : known'[e] # NotUp => known'[e].pid \in Pids
    BY <2>3, <2>4
  <2>10. QED
    BY <2>1, <2>2, <2>5, <2>7, <2>8, <2>9
<1>7. ASSUME NEW p \in Pids, NEW g \in Containers \cup {"elsewhere", "inner"}, Stray(p, g)
      PROVE  HostInv'
  BY <1>0, <1>7 DEF Stray, Happens, Fresh, given
<1>8. ASSUME NEW u \in Units \cup {"none"}, Reattest(u)
      PROVE  HostInv'
  BY <1>0, <1>8 DEF Reattest, Happens, given
<1>11. CASE InnerChanges
  <2>1. /\ events' = events + 1 /\ UNCHANGED <<accepted, daemon, running, known>>
        /\ process' = Emptied({"inner"}) /\ running[Backend] # NotUp
        /\ inner' \in {events + 2, 0}
    BY <1>11 DEF InnerChanges, Happens, Fresh, given
  <2>2. process' \in [Pids -> Process(events')]
    BY <1>0, <2>1 DEF Emptied
  <2>3. \A e \in Containers : running[e] # NotUp => process'[running[e].pid] = process[running[e].pid]
    <3> SUFFICES ASSUME NEW e \in Containers, running[e] # NotUp
                 PROVE  process'[running[e].pid] = process[running[e].pid]
      OBVIOUS
    <3>1. process[running[e].pid].cgroup # "inner" /\ running[e].pid \in Pids
      BY <1>12
    <3>2. QED
      BY <2>1, <3>1 DEF Emptied
  <2>4. daemon # NoDaemon => process'[daemon.pid] = process[daemon.pid]
    BY <2>1 DEF Emptied
  <2>5. QED
    BY <1>0, <2>1, <2>2, <2>3, <2>4
<1>9. CASE Correlate
  BY <1>1, <1>9
  DEF Correlate, Go, Session, ReadAttestation, AcceptIdentity, Connect, InspectPeer, SystemdA,
      EngineA, List, Inspect, Pin, InspectB, StableB, Matched, EngineB, SystemdB, InspectFinal,
      PeerStable, ContainerStable, AttestationB, Resolve, GiveUp
<1>10. QED
  BY <1>1, <1>2, <1>3, <1>4, <1>5, <1>6, <1>7, <1>8, <1>9, <1>11
  DEF OwnerNext, Host, ownervars

-----------------------------------------------------------------------------
(* What the correlation holds, under a host that changes.                  *)

Looping   == {"next", "pin", "inspect_b", "stable_b"}
Checking  == {"engine_b", "systemd_b", "final", "peer_stable", "container_stable"}
Vouched   == {"attestation_b", "live", "resolved"}
Identified == {"list"} \cup Looping \cup Checking \cup Vouched
Asked      == {"engine_a"} \cup Identified
Connected  == {"peer", "systemd_a"} \cup Asked

\* The accepted connection's cgroup has not ended since its identity was read.
Same == Identity(accepted) = found.identity

\* A process that was pinned in the accepted cgroup, or the one above.
Fits(p) ==
    /\ p.pid \in Pids /\ p.gen \in 0 .. events + 1 /\ Relation(p.cgroup) # "none"
    /\ Alive(p) => process[p.pid].cgroup = p.cgroup

\* A match that is the accepted container's own.
Here(m) ==
    m.id = Backend /\ m.at = running[Backend] /\ m.process.gen = running[Backend].gen

\* The daemon whose unit was checked is the one at the other end, as long as that lives.
PeerInv ==
    /\ pc \in Connected =>
         /\ found.peer.pid \in Pids /\ found.peer.gen \in 1 .. events + 1
         /\ found.peer.cgroup = "daemon"
         /\ Alive(found.peer) => daemon.gen = found.peer.gen /\ daemon.pid = found.peer.pid
    /\ pc \in Asked /\ daemon.gen = found.peer.gen => daemon.unit = found.unit /\ daemon.main

\* As long as it runs, the accepted container, where it may be a candidate, is still to be
\* looked at, or at hand, or among the matches, with its own process; so when there is one
\* match it is the one.
MatchInv ==
    /\ pc \in {"connect"} \cup Connected => found.identity \in 1 .. events + 1
    /\ IsFiniteSet(found.matches)
    /\ pc = "pin" => found.now.at.pid \in Pids
    /\ pc \in {"inspect_b", "stable_b"} => Fits(found.pin)
    /\ \A m \in found.matches : Fits(m.process)
    /\ pc \in Checking => found.matches # {}
    /\ pc \in Looping /\ Same /\ Backend \in eligible =>
         \/ Backend \in found.todo
         \/ /\ pc # "next" /\ found.now = [id |-> Backend, at |-> running[Backend]]
            /\ pc # "pin" => found.pin.gen = running[Backend].gen
         \/ \E m \in found.matches : Here(m)
    /\ pc \in Checking /\ Same /\ Backend \in eligible => Here(Match)

HeldInv ==
    /\ pc = "container_stable" /\ Same /\ Alive(Match.process) => together.holds
    /\ pc = "container_stable" /\ Same /\ Backend \in eligible => together.named
    /\ pc \in Vouched => together.holds /\ (Backend \in eligible => together.named)

OwnerInv ==
    /\ pc \in {"start", "accepted", "connect", "incomplete"} \cup Connected
    /\ DOMAIN found = {"unit", "identity", "peer", "todo", "now", "pin", "matches"}
    /\ PeerInv /\ MatchInv /\ HeldInv

\* Whatever has a generation that was given out before a step of the host has had it
\* throughout the step, and a daemon that ends leaves its process id free.
Outlived ==
    /\ UNCHANGED <<accepted, eligible, pc, found, together>>
    /\ events' \in Nat /\ events <= events'
    /\ \A g \in 1 .. events + 1 :
         /\ \A p \in Pids : process'[p].gen = g => process'[p] = process[p]
         /\ daemon'.gen = g => daemon' = daemon
         /\ \A c \in Containers : running'[c].gen = g => running'[c] = running[c]
         /\ inner' = g => inner' = inner /\ running'[Backend] = running[Backend]
    /\ daemon' = daemon \/ daemon = NoDaemon \/ process'[daemon.pid].gen = 0

LEMMA HostMoves ==
    ASSUME HostInv, Host
    PROVE  Outlived
<1> USE RuntimeOwnerAssumption DEF HostInv, Outlived, given
<1>0. Nobody.gen = 0 /\ NoDaemon.gen = 0 /\ NotUp.gen = 0
  BY DEF Nobody, NoDaemon, NotUp
<1>a. /\ events + 2 \notin 1 .. events + 1 /\ 0 \notin 1 .. events + 1
      /\ events + 1 \in Nat /\ events <= events + 1 /\ events <= events
  OBVIOUS
<1>1. CASE DaemonDies
  BY <1>0, <1>a, <1>1 DEF DaemonDies, Happens
<1>2. ASSUME NEW p \in Pids, NEW u \in Units, NEW m \in BOOLEAN, DaemonStarts(p, u, m)
      PROVE  Outlived
  BY <1>0, <1>a, <1>2 DEF DaemonStarts, Happens, Fresh
<1>3. ASSUME NEW c \in Containers, ContainerDies(c)
      PROVE  Outlived
  <2>1. \A p \in Pids : process'[p] = Nobody \/ process'[p] = process[p]
    BY <1>3 DEF ContainerDies, Emptied
  <2>2. \A e \in Containers : running'[e] = NotUp \/ running'[e] = running[e]
    BY <1>3 DEF ContainerDies
  <2>3. inner' = 0 \/ (inner' = inner /\ running'[Backend] = running[Backend])
    BY <1>3 DEF ContainerDies
  <2>4. UNCHANGED <<accepted, eligible, daemon, pc, found, together>> /\ events' = events + 1
    BY <1>3 DEF ContainerDies, Happens
  <2>5. QED
    BY <1>0, <1>a, <2>1, <2>2, <2>3, <2>4
<1>4. ASSUME NEW c \in Containers, Notice(c)
      PROVE  Outlived
  BY <1>a, <1>4 DEF Notice
<1>5. ASSUME NEW c \in Containers, NEW p \in Pids, ContainerStarts(c, p)
      PROVE  Outlived
  <2>1. UNCHANGED <<accepted, eligible, daemon, inner, pc, found, together>> /\ events' = events + 1
    BY <1>5 DEF ContainerStarts, Happens
  <2>2. \A q \in Pids : process'[q].gen = events + 2 \/ process'[q] = process[q]
    BY <1>5 DEF ContainerStarts, Fresh
  <2>3. \A e \in Containers : running'[e].gen = events + 2 \/ running'[e] = running[e]
    BY <1>5 DEF ContainerStarts, Fresh
  <2>4. inner = 0 \/ running'[Backend] = running[Backend]
    BY <1>5 DEF ContainerStarts
  <2>5. QED
    BY <1>a, <2>1, <2>2, <2>3, <2>4
<1>6. ASSUME NEW p \in Pids, NEW g \in Containers \cup {"elsewhere", "inner"}, Stray(p, g)
      PROVE  Outlived
  BY <1>0, <1>a, <1>6 DEF Stray, Happens, Fresh
<1>7. ASSUME NEW u \in Units \cup {"none"}, Reattest(u)
      PROVE  Outlived
  BY <1>a, <1>7 DEF Reattest, Happens
<1>9. CASE InnerChanges
  <2>1. \A p \in Pids : process'[p] = Nobody \/ process'[p] = process[p]
    BY <1>9 DEF InnerChanges, Emptied
  <2>2. UNCHANGED <<accepted, eligible, daemon, running, pc, found, together>>
        /\ events' = events + 1 /\ inner' \in {0, events + 2}
    BY <1>9 DEF InnerChanges, Happens, Fresh
  <2>3. QED
    BY <1>0, <1>a, <2>1, <2>2
<1>8. QED
  BY <1>1, <1>2, <1>3, <1>4, <1>5, <1>6, <1>7, <1>9 DEF Host

LEMMA OwnerHostStep ==
    ASSUME HostInv, OwnerInv, Host
    PROVE  OwnerInv'
<1>1. Outlived /\ events \in Nat
  BY HostMoves DEF HostInv
<1>2. UNCHANGED <<accepted, eligible, pc, found, together>>
  BY <1>1 DEF Outlived
<1>3. 1 .. events + 1 \subseteq 1 .. events' + 1
  <2>1. events' \in Nat /\ events <= events' /\ events \in Nat
    BY <1>1 DEF Outlived
  <2>2. \A m, n \in Nat : m <= n => 1 .. m + 1 \subseteq 1 .. n + 1
    OBVIOUS
  <2>3. QED
    BY <2>1, <2>2
<1>4. ASSUME pc \in Connected, Alive(found.peer)'
      PROVE  daemon' = daemon /\ daemon.gen = found.peer.gen /\ daemon.pid = found.peer.pid
  <2>1. found.peer.pid \in Pids /\ found.peer.gen \in 1 .. events + 1
    BY <1>4 DEF OwnerInv, PeerInv
  <2>2. process'[found.peer.pid].gen = found.peer.gen /\ found.peer.gen # 0
    BY <1>2, <1>4 DEF Alive
  <2>3. Alive(found.peer)
    BY <1>1, <2>1, <2>2 DEF Outlived, Alive
  <2>4. daemon.gen = found.peer.gen /\ daemon.pid = found.peer.pid
    BY <1>4, <2>3 DEF OwnerInv, PeerInv
  <2>5. daemon # NoDaemon
    BY <2>2, <2>4 DEF NoDaemon
  <2>6. QED
    BY <1>1, <2>2, <2>4, <2>5 DEF Outlived
<1>5. PeerInv'
  <2>1. ASSUME pc \in Asked, daemon'.gen = found.peer.gen
        PROVE  daemon' = daemon
    <3>1. pc \in Connected
      BY <2>1 DEF Connected
    <3>2. QED
      BY <1>1, <2>1, <3>1 DEF OwnerInv, PeerInv, Outlived
  <2>2. QED
    BY <1>2, <1>3, <1>4, <2>1 DEF OwnerInv, PeerInv
<1>6. ASSUME pc \in {"connect"} \cup Connected, Same'
      PROVE  Same /\ running'[Backend] = running[Backend]
  <2>1. found.identity \in 1 .. events + 1
    BY <1>6 DEF OwnerInv, MatchInv
  <2>2. accepted \in {Backend, "inner"} /\ Backend # "inner"
    BY RuntimeOwnerAssumption DEF HostInv
  <2>3. CASE accepted = Backend
    <3>1. running'[Backend].gen = found.identity
      BY <1>2, <1>6, <2>2, <2>3 DEF Same, Identity
    <3>2. running'[Backend] = running[Backend]
      BY <1>1, <2>1, <3>1, RuntimeOwnerAssumption DEF Outlived
    <3>3. QED
      BY <2>2, <2>3, <3>1, <3>2 DEF Same, Identity
  <2>4. CASE accepted = "inner"
    <3>1. inner' = found.identity
      BY <1>2, <1>6, <2>4 DEF Same, Identity
    <3>2. inner' = inner /\ running'[Backend] = running[Backend]
      BY <1>1, <2>1, <3>1 DEF Outlived
    <3>3. QED
      BY <2>4, <3>1, <3>2 DEF Same, Identity
  <2>5. QED
    BY <2>2, <2>3, <2>4
<1>10. \A p : Fits(p) => Fits(p)' /\ (Alive(p)' => Alive(p))
  <2> SUFFICES ASSUME NEW p, Fits(p)
               PROVE  Fits(p)' /\ (Alive(p)' => Alive(p))
    OBVIOUS
  <2>1. p.pid \in Pids /\ p.gen \in 0 .. events + 1 /\ p.gen \in 0 .. events' + 1
    <3>1. events' \in Nat /\ events <= events' /\ events \in Nat
      BY <1>1 DEF Outlived
    <3>2. \A m, n \in Nat : m <= n => 0 .. m + 1 \subseteq 0 .. n + 1
      OBVIOUS
    <3>3. QED
      BY <3>1, <3>2 DEF Fits
  <2>2. Alive(p)' => p.gen \in 1 .. events + 1
    BY <1>1, <2>1 DEF Alive
  <2>3. Alive(p)' => process'[p.pid] = process[p.pid]
    BY <1>1, <2>1, <2>2 DEF Outlived, Alive
  <2>4. QED
    BY <1>2, <2>1, <2>3 DEF Fits, Relation, Alive
<1>7. MatchInv'
  <2>1. Match' = Match
    BY <1>2 DEF Match
  <2>2. Looping \subseteq Connected /\ Checking \subseteq Connected
    BY DEF Connected, Asked, Identified
  <2>3. pc \in {"connect"} \cup Connected /\ Same' =>
           Same /\ \A m : Here(m) => Here(m)'
    BY <1>6 DEF Here
  <2>4. pc \in Looping /\ Same' /\ Backend \in eligible =>
         \/ Backend \in found.todo
         \/ /\ pc # "next" /\ found.now = [id |-> Backend, at |-> running'[Backend]]
            /\ pc # "pin" => found.pin.gen = running'[Backend].gen
         \/ \E m \in found.matches : Here(m)'
    BY <1>6, <2>2, <2>3 DEF OwnerInv, MatchInv
  <2>5. pc \in Checking /\ Same' /\ Backend \in eligible => Here(Match)'
    BY <2>1, <2>2, <2>3 DEF OwnerInv, MatchInv, Here
  <2>6. QED
    BY <1>2, <1>3, <1>10, <2>1, <2>4, <2>5 DEF OwnerInv, MatchInv
<1>8. HeldInv'
  <2>1. "container_stable" \in Connected /\ "container_stable" \in Checking
    BY DEF Connected, Asked, Identified, Checking
  <2>2. pc = "container_stable" => Match \in found.matches /\ Match' = Match
    BY <1>2, <2>1 DEF OwnerInv, MatchInv, Match
  <2>3. pc = "container_stable" /\ Alive(Match.process)' => Alive(Match.process)
    <3>1. pc = "container_stable" => Fits(Match.process)
      BY <2>2 DEF OwnerInv, MatchInv
    <3>2. QED
      BY <1>10, <2>2, <3>1
  <2>4. QED
    BY <1>2, <1>6, <2>1, <2>3 DEF OwnerInv, HeldInv
<1>9. QED
  BY <1>2, <1>5, <1>7, <1>8 DEF OwnerInv

\* While the accepted connection's cgroup stands its container runs, Docker knows it, and
\* its main process is one of the socket's.
LEMMA AcceptedRuns ==
    ASSUME HostInv, OwnerInv, Same, pc \in {"connect"} \cup Connected
    PROVE  /\ running[Backend] # NotUp /\ known[Backend] = running[Backend]
           /\ running[Backend].pid \in Pids
           /\ process[running[Backend].pid] = [gen |-> running[Backend].gen, cgroup |-> Backend]
           /\ Relation(Backend) # "none"
<1>1. found.identity # 0
  BY DEF OwnerInv, MatchInv
<1>2. accepted \in {Backend, "inner"} /\ (inner # 0 => running[Backend] # NotUp)
  BY DEF HostInv
<1>3. running[Backend] # NotUp
  BY <1>1, <1>2 DEF Same, Identity, NotUp
<1>4. QED
  BY <1>2, <1>3, RuntimeOwnerAssumption DEF HostInv, Relation

\* A step that reads nothing of the peer leaves its part alone.
LEMMA PeerKept ==
    ASSUME PeerInv, UNCHANGED <<process, daemon, events>>,
           found'.peer = found.peer, found'.unit = found.unit,
           pc' \in Connected => pc \in Connected, pc' \in Asked => pc \in Asked
    PROVE  PeerInv'
BY DEF PeerInv, Alive

\* A read that leaves what was found alone and goes on to a place that asks no more.
LEMMA GoesOn ==
    ASSUME OwnerInv, NEW step, NEW next, Go(next, found), pc = step,
           <<step, next>> \in {<<"peer", "systemd_a">>, <<"engine_a", "list">>,
              <<"inspect_b", "stable_b">>, <<"engine_b", "systemd_b">>,
              <<"systemd_b", "final">>, <<"final", "peer_stable">>, <<"attestation_b", "live">>,
              <<"live", "resolved">>}
    PROVE  OwnerInv'
<1> USE DEF Connected, Asked, Identified, Looping, Checking, Vouched
<1>1. UNCHANGED <<accepted, eligible, process, daemon, running, inner, events, together, found>>
      /\ pc' = next
  BY DEF Go, hostvars, given
<1>2. PeerInv'
  BY <1>1, PeerKept DEF OwnerInv
<1>3. Match' = Match /\ Same' = Same
  BY <1>1 DEF Match, Same, Identity
<1>4. \A m : Fits(m)' = Fits(m) /\ Here(m)' = Here(m)
  BY <1>1 DEF Fits, Here, Relation, Alive
<1>5. MatchInv'
  BY <1>1, <1>3, <1>4 DEF OwnerInv, MatchInv
<1>6. HeldInv'
  BY <1>1, <1>3 DEF OwnerInv, HeldInv
<1>7. QED
  BY <1>1, <1>2, <1>5, <1>6 DEF OwnerInv

LEMMA GivesUp ==
    ASSUME OwnerInv, pc' = "incomplete", found' = found, UNCHANGED hostvars
    PROVE  OwnerInv'
<1> USE DEF Connected, Asked, Identified, Looping, Checking, Vouched
<1>1. UNCHANGED <<accepted, eligible, process, daemon, running, inner, events>>
  BY DEF hostvars, given
<1>2. \A m : Fits(m)' = Fits(m)
  BY <1>1 DEF Fits, Relation, Alive
<1>3. QED
  BY <1>1, <1>2 DEF OwnerInv, PeerInv, MatchInv, HeldInv

LEMMA OwnerReadStep ==
    ASSUME HostInv, OwnerInv, Correlate
    PROVE  OwnerInv'
<1> DEFINE Host0 == UNCHANGED <<accepted, eligible, process, daemon, running, inner, known, attested, events>>
<1> DEFINE Rest == Host0 /\ UNCHANGED together
<1> USE DEF Connected, Asked, Identified, Looping, Checking, Vouched
<1>0. ASSUME Go("incomplete", found)
      PROVE  OwnerInv'
  BY <1>0, GivesUp DEF Go
<1>a. ASSUME NEW step, NEW rec, Go(step, rec)
      PROVE  pc' = step /\ found' = rec /\ Rest
  BY <1>a DEF Go, hostvars, given
<1>b. ASSUME Host0
      PROVE  /\ \A m : Fits(m)' = Fits(m) /\ Here(m)' = Here(m)
             /\ found'.identity = found.identity => Same' = Same
             /\ found'.matches = found.matches => Match' = Match
  BY <1>b DEF Fits, Here, Relation, Alive, Same, Identity, Match
<1> HIDE DEF Host0
<1>1. CASE ReadAttestation
  <2>1. CASE attested # "none"
    <3>1. pc = "start" /\ pc' = "accepted" /\ found' = [found EXCEPT !.unit = attested] /\ Rest
      BY <1>1, <1>a, <2>1 DEF ReadAttestation, At
    <3>2. found'.matches = found.matches /\ DOMAIN found' = DOMAIN found
      BY <3>1 DEF OwnerInv
    <3>3. QED
      BY <1>b, <3>1, <3>2 DEF OwnerInv, PeerInv, MatchInv, HeldInv
  <2>2. QED
    BY <1>0, <1>1, <2>1 DEF ReadAttestation
<1>2. CASE AcceptIdentity
  <2>1. CASE Identity(accepted) # 0
    <3>1. Identity(accepted) \in 1 .. events + 1
      <4>1. accepted \in {Backend, "inner"} /\ inner \in 0 .. events + 1 /\ events \in Nat
        BY DEF HostInv
      <4>2. running[Backend] # NotUp => running[Backend].gen \in 1 .. events + 1
        BY RuntimeOwnerAssumption DEF HostInv
      <4>3. CASE accepted = "inner"
        BY <2>1, <4>1, <4>3 DEF Identity
      <4>4. CASE accepted # "inner"
        BY <2>1, <4>1, <4>2, <4>4 DEF Identity, NotUp
      <4>5. QED
        BY <4>3, <4>4
    <3>3. pc' = "connect" /\ found' = [found EXCEPT !.identity = Identity(accepted)] /\ Rest
      BY <1>2, <1>a, <2>1 DEF AcceptIdentity
    <3>4. found'.identity = Identity(accepted) /\ found'.matches = found.matches
          /\ DOMAIN found' = DOMAIN found
      BY <3>3 DEF OwnerInv
    <3>5. events' = events
      BY <3>3 DEF Host0
    <3>6. QED
      BY <1>b, <3>1, <3>3, <3>4, <3>5 DEF OwnerInv, PeerInv, MatchInv, HeldInv
  <2>2. QED
    BY <1>0, <1>2, <2>1 DEF AcceptIdentity
<1>3. CASE Connect
  <2>1. CASE daemon # NoDaemon
    <3>1. /\ pc = "connect" /\ pc' = "peer" /\ Rest
          /\ found' = [found EXCEPT !.peer = [pid |-> daemon.pid, gen |-> daemon.gen, cgroup |-> "daemon"]]
      BY <1>3, <1>a, <2>1 DEF Connect, At
    <3>2. /\ found'.peer.pid = daemon.pid /\ found'.peer.gen = daemon.gen
          /\ found'.peer.cgroup = "daemon"
          /\ found'.identity = found.identity /\ found'.matches = found.matches
          /\ DOMAIN found' = DOMAIN found
      BY <3>1 DEF OwnerInv
    <3>3. daemon.pid \in Pids /\ daemon.gen \in 1 .. events + 1
      BY <2>1 DEF HostInv
    <3>4. events' = events /\ daemon' = daemon
      BY <3>1 DEF Host0
    <3>5. PeerInv'
      BY <3>1, <3>2, <3>3, <3>4 DEF PeerInv
    <3>6. MatchInv' /\ HeldInv'
      BY <1>b, <3>1, <3>2, <3>4 DEF OwnerInv, MatchInv, HeldInv
    <3>7. QED
      BY <3>1, <3>2, <3>5, <3>6 DEF OwnerInv
  <2>2. QED
    BY <1>0, <1>3, <2>1 DEF Connect
<1>4. CASE InspectPeer
  BY <1>0, <1>4, GoesOn DEF InspectPeer, Session, At
<1>5. CASE SystemdA
  <2>1. CASE Go("engine_a", found) /\ At("systemd_a") /\ Owner
    <3>1. pc = "systemd_a" /\ pc' = "engine_a" /\ Rest /\ found' = found
      BY <1>a, <2>1 DEF At
    <3>2. PeerInv'
      BY <2>1, <3>1 DEF Host0, OwnerInv, PeerInv, Owner, Alive
    <3>3. events' = events
      BY <3>1 DEF Host0
    <3>4. MatchInv' /\ HeldInv'
      BY <1>b, <3>1, <3>3 DEF OwnerInv, MatchInv, HeldInv
    <3>5. QED
      BY <3>1, <3>2, <3>4 DEF OwnerInv
  <2>2. QED
    BY <1>0, <1>5, <2>1 DEF SystemdA, Session
<1>6. CASE EngineA
  BY <1>0, <1>6, GoesOn DEF EngineA, Session, At
<1>7. CASE List
  <2>1. CASE Go("next", [found EXCEPT !.todo = Containers]) /\ At("list")
    <3>1. /\ pc = "list" /\ pc' = "next" /\ Rest
          /\ found' = [found EXCEPT !.todo = Containers]
      BY <1>a, <2>1 DEF At
    <3>2. /\ found'.todo = Containers /\ found'.identity = found.identity
          /\ found'.matches = found.matches /\ found'.peer = found.peer /\ found'.unit = found.unit
          /\ DOMAIN found' = DOMAIN found
      BY <3>1 DEF OwnerInv
    <3>3. UNCHANGED <<process, daemon, events>>
      BY <3>1 DEF Host0
    <3>4. PeerInv'
      BY <3>1, <3>2, <3>3, PeerKept DEF OwnerInv
    <3>5. MatchInv' /\ HeldInv'
      BY <1>b, <3>1, <3>2, <3>3, RuntimeOwnerAssumption DEF OwnerInv, MatchInv, HeldInv
    <3>6. QED
      BY <3>1, <3>2, <3>4, <3>5 DEF OwnerInv
  <2>2. QED
    BY <1>0, <1>7, <2>1 DEF List, Session
<1>8. ASSUME NEW c \in Containers, Inspect(c)
      PROVE  OwnerInv'
  <2> DEFINE read == [found EXCEPT !.todo = @ \ {c}, !.now = [id |-> c, at |-> Candidate(c)]]
  <2>1. ASSUME NEW step \in {"next", "pin"}, Go(step, read), At("next"),
               (step = "next") <=> (Candidate(c) = NotUp)
        PROVE  OwnerInv'
    <3>1. pc = "next" /\ pc' = step /\ Rest /\ found' = read
      BY <1>a, <2>1 DEF At
    <3>2. /\ found'.todo = found.todo \ {c} /\ found'.now = [id |-> c, at |-> Candidate(c)]
          /\ found'.identity = found.identity /\ found'.unit = found.unit
          /\ found'.matches = found.matches /\ found'.peer = found.peer
          /\ DOMAIN found' = DOMAIN found
      BY <3>1 DEF OwnerInv
    <3>3. UNCHANGED <<process, daemon, events, eligible, running>>
      BY <3>1 DEF Host0
    <3>4. PeerInv'
      BY <3>1, <3>2, <3>3, PeerKept DEF OwnerInv
    <3>5. ASSUME Same', Backend \in eligible
          PROVE  \/ Backend \in found'.todo
                 \/ step # "next" /\ found'.now = [id |-> Backend, at |-> running[Backend]]
                 \/ \E m \in found'.matches : Here(m)
      <4>1. Same
        BY <1>b, <3>1, <3>2, <3>5
      <4>2. running[Backend] # NotUp /\ known[Backend] = running[Backend]
        BY <3>1, <4>1, AcceptedRuns
      <4>3. CASE c = Backend
        BY <2>1, <3>2, <3>5, <4>2, <4>3 DEF Candidate
      <4>4. CASE c # Backend
        BY <3>1, <3>2, <3>5, <4>1, <4>4 DEF OwnerInv, MatchInv
      <4>5. QED
        BY <4>3, <4>4
    <3>6. step = "pin" => found'.now.at.pid \in Pids
      BY <2>1, <3>2 DEF Candidate, HostInv
    <3>7. MatchInv' /\ HeldInv'
      BY <1>b, <3>1, <3>2, <3>3, <3>5, <3>6 DEF OwnerInv, MatchInv, HeldInv
    <3>8. QED
      BY <3>1, <3>2, <3>4, <3>7 DEF OwnerInv
  <2>2. QED
    BY <1>0, <1>8, <2>1 DEF Inspect, Session
<1>9. CASE Pin
  <2> DEFINE p == process[found.now.at.pid]
  <2>1. CASE p # Nobody /\ Relation(p.cgroup) = "none"
    <3>1. pc = "pin" /\ pc' = "next" /\ Rest /\ found' = found
      BY <1>9, <1>a, <2>1 DEF Pin, At
    <3>2. UNCHANGED <<process, daemon, events, eligible, running>>
      BY <3>1 DEF Host0
    <3>3. PeerInv'
      BY <3>1, <3>2, PeerKept DEF OwnerInv
    <3>4. ASSUME Same
          PROVE  found.now # [id |-> Backend, at |-> running[Backend]]
      <4>1. /\ process[running[Backend].pid] = [gen |-> running[Backend].gen, cgroup |-> Backend]
            /\ Relation(Backend) # "none"
        BY <3>1, <3>4, AcceptedRuns
      <4>2. QED
        BY <2>1, <4>1
    <3>5. MatchInv' /\ HeldInv'
      BY <1>b, <3>1, <3>2, <3>4 DEF OwnerInv, MatchInv, HeldInv
    <3>6. QED
      BY <3>1, <3>3, <3>5 DEF OwnerInv
  <2>2. CASE p # Nobody /\ Relation(p.cgroup) # "none"
    <3>1. pc = "pin" /\ pc' = "inspect_b" /\ Rest
          /\ found' = [found EXCEPT !.pin = [pid |-> found.now.at.pid, gen |-> p.gen, cgroup |-> p.cgroup]]
      BY <1>9, <1>a, <2>2 DEF Pin, At
    <3>2. /\ found'.todo = found.todo /\ found'.now = found.now
          /\ found'.identity = found.identity /\ found'.unit = found.unit
          /\ found'.matches = found.matches /\ found'.peer = found.peer
          /\ found'.pin = [pid |-> found.now.at.pid, gen |-> p.gen, cgroup |-> p.cgroup]
          /\ DOMAIN found' = DOMAIN found
      BY <3>1 DEF OwnerInv
    <3>3. UNCHANGED <<process, daemon, events, eligible, running>>
      BY <3>1 DEF Host0
    <3>4. PeerInv'
      BY <3>1, <3>2, <3>3, PeerKept DEF OwnerInv
    <3>5. Fits(found'.pin)
      <4>1. found.now.at.pid \in Pids
        BY <3>1 DEF OwnerInv, MatchInv
      <4>2. p.gen \in 0 .. events + 1
        BY <4>1 DEF HostInv, Process
      <4>3. QED
        BY <2>2, <3>2, <4>1, <4>2 DEF Fits
    <3>6. ASSUME Same, found.now = [id |-> Backend, at |-> running[Backend]]
          PROVE  found'.pin.gen = running[Backend].gen
      <4>1. process[running[Backend].pid] = [gen |-> running[Backend].gen, cgroup |-> Backend]
        BY <3>1, <3>6, AcceptedRuns
      <4>2. QED
        BY <3>2, <3>6, <4>1
    <3>7. MatchInv' /\ HeldInv'
      <4>1. PICK q : q = found'.pin
        OBVIOUS
      <4>2. Fits(q)'
        BY <1>b, <3>1, <3>5, <4>1
      <4>3. QED
        BY <1>b, <3>1, <3>2, <3>3, <3>6, <4>1, <4>2 DEF OwnerInv, MatchInv, HeldInv
    <3>8. QED
      BY <3>1, <3>2, <3>4, <3>7 DEF OwnerInv
  <2>3. QED
    BY <1>0, <1>9, <2>1, <2>2 DEF Pin
<1>10. CASE InspectB
  BY <1>0, <1>10, GoesOn DEF InspectB, Session, At
<1>11. CASE StableB
  <2> DEFINE new == [id |-> found.now.id, at |-> found.now.at, process |-> found.pin]
  <2>1. CASE Stable(found.pin) /\ Identity(accepted) = found.identity
    <3>1. pc = "stable_b" /\ pc' = "next" /\ Rest
          /\ found' = [found EXCEPT !.matches = @ \cup {new}]
      BY <1>11, <1>a, <2>1 DEF StableB, At
    <3>2. /\ found'.todo = found.todo /\ found'.matches = found.matches \cup {new}
          /\ found'.identity = found.identity /\ found'.unit = found.unit
          /\ found'.peer = found.peer /\ DOMAIN found' = DOMAIN found
      BY <3>1 DEF OwnerInv
    <3>3. UNCHANGED <<process, daemon, events, eligible, running>>
      BY <3>1 DEF Host0
    <3>4. PeerInv'
      BY <3>1, <3>2, <3>3, PeerKept DEF OwnerInv
    <3>5. IsFiniteSet(found'.matches)
      <4>1. \A S, x : IsFiniteSet(S) => IsFiniteSet(S \cup {x})
        BY FS_AddElement
      <4>2. IsFiniteSet(found.matches)
        BY DEF OwnerInv, MatchInv
      <4>3. PICK S, x : S = found.matches /\ x = new /\ found'.matches = S \cup {x}
        BY <3>2
      <4>4. IsFiniteSet(S)
        BY <4>2, <4>3
      <4>5. IsFiniteSet(S \cup {x})
        BY <4>1, <4>4
      <4>6. QED
        BY <4>3, <4>5
    <3>6. \A m \in found'.matches : Fits(m.process)
      <4>1. Fits(new.process)
        BY <3>1 DEF OwnerInv, MatchInv
      <4>2. QED
        BY <3>2, <4>1 DEF OwnerInv, MatchInv
    <3>7. ASSUME Same', Backend \in eligible
          PROVE  Backend \in found'.todo \/ \E m \in found'.matches : Here(m)
      <4>1. Same
        BY <1>b, <3>1, <3>2, <3>7
      <4>2. \/ Backend \in found.todo
            \/ found.now = [id |-> Backend, at |-> running[Backend]]
               /\ found.pin.gen = running[Backend].gen
            \/ \E m \in found.matches : Here(m)
        BY <3>1, <3>7, <4>1 DEF OwnerInv, MatchInv
      <4>3. ASSUME found.now = [id |-> Backend, at |-> running[Backend]],
                   found.pin.gen = running[Backend].gen
            PROVE  Here(new)
        BY <4>3 DEF Here
      <4>4. QED
        BY <3>2, <4>2, <4>3
    <3>8. MatchInv' /\ HeldInv'
      BY <1>b, <3>1, <3>2, <3>3, <3>5, <3>6, <3>7 DEF OwnerInv, MatchInv, HeldInv
    <3>9. QED
      BY <3>1, <3>2, <3>4, <3>8 DEF OwnerInv
  <2>2. QED
    BY <1>0, <1>11, <2>1 DEF StableB
<1>12. CASE Matched
  <2>1. CASE Cardinality(found.matches) = 1
    <3>1. pc = "next" /\ pc' = "engine_b" /\ Rest /\ found' = found /\ found.todo = {}
      BY <1>12, <1>a, <2>1 DEF Matched, At
    <3>2. IsFiniteSet(found.matches)
      BY DEF OwnerInv, MatchInv
    <3>3. PICK m : found.matches = {m}
      BY <2>1, <3>2, FS_Singleton
    <3>4. Match = m
      BY <3>3 DEF Match
    <3>5. UNCHANGED <<process, daemon, events, eligible, running>>
      BY <3>1 DEF Host0
    <3>6. PeerInv'
      BY <3>1, <3>5, PeerKept DEF OwnerInv
    <3>7. Same /\ Backend \in eligible => Here(Match)
      BY <3>1, <3>3, <3>4 DEF OwnerInv, MatchInv
    <3>8. MatchInv' /\ HeldInv'
      BY <1>b, <3>1, <3>3, <3>5, <3>7 DEF OwnerInv, MatchInv, HeldInv
    <3>9. QED
      BY <3>1, <3>6, <3>8 DEF OwnerInv
  <2>2. QED
    BY <1>0, <1>12, <2>1 DEF Matched
<1>13. CASE EngineB \/ SystemdB \/ InspectFinal
  BY <1>0, <1>13, GoesOn DEF EngineB, SystemdB, InspectFinal, Session, At
<1>14. CASE PeerStable
  <2>1. CASE Stable(found.peer)
    <3>1. /\ pc = "peer_stable" /\ pc' = "container_stable" /\ found' = found /\ Host0
          /\ together' = [holds |-> Truly, named |-> TrulyNamed]
      BY <1>14, <2>1 DEF PeerStable, At, hostvars, given, Host0
    <3>2. UNCHANGED <<process, daemon, events, eligible, running>>
      BY <3>1 DEF Host0
    <3>3. PeerInv'
      BY <3>1, <3>2, PeerKept DEF OwnerInv
    <3>4. MatchInv'
      BY <1>b, <3>1, <3>2 DEF OwnerInv, MatchInv
    <3>5. Alive(found.peer) /\ Owner
      BY <2>1, <3>1 DEF Stable, OwnerInv, PeerInv, Owner
    <3>6. Fits(Match.process)
      BY <3>1 DEF OwnerInv, MatchInv, Match
    <3>7. Same /\ Alive(Match.process) => Truly
      BY <3>5, <3>6 DEF Truly, Same, Fits
    <3>8. Same /\ Backend \in eligible => TrulyNamed
      BY <3>1 DEF OwnerInv, MatchInv, Here, TrulyNamed
    <3>9. Alive(Match.process)' => Alive(Match.process)
      BY <1>b, <3>1, <3>2 DEF Alive
    <3>10. HeldInv'
      BY <1>b, <3>1, <3>2, <3>7, <3>8, <3>9 DEF HeldInv
    <3>11. QED
      BY <3>1, <3>3, <3>4, <3>10 DEF OwnerInv
  <2>2. QED
    BY <1>14, <2>1, GivesUp DEF PeerStable
<1>15. CASE ContainerStable
  <2>1. CASE Stable(Match.process) /\ Identity(accepted) = found.identity
    <3>1. pc = "container_stable" /\ pc' = "attestation_b" /\ Rest /\ found' = found
      BY <1>15, <1>a, <2>1 DEF ContainerStable, At
    <3>2. together.holds /\ (Backend \in eligible => together.named)
      BY <2>1, <3>1 DEF OwnerInv, HeldInv, Same, Stable
    <3>3. UNCHANGED <<process, daemon, events, eligible, running>>
      BY <3>1 DEF Host0
    <3>4. PeerInv'
      BY <3>1, <3>3, PeerKept DEF OwnerInv
    <3>5. MatchInv' /\ HeldInv'
      BY <1>b, <3>1, <3>2, <3>3 DEF OwnerInv, MatchInv, HeldInv
    <3>6. QED
      BY <3>1, <3>4, <3>5 DEF OwnerInv
  <2>2. QED
    BY <1>0, <1>15, <2>1 DEF ContainerStable
<1>16. CASE AttestationB \/ Resolve
  BY <1>0, <1>16, GoesOn DEF AttestationB, Resolve, Session, At
<1>17. CASE GiveUp
  BY <1>17, GivesUp DEF GiveUp
<1>18. QED
  BY <1>1, <1>2, <1>3, <1>4, <1>5, <1>6, <1>7, <1>8, <1>9, <1>10, <1>11, <1>12, <1>13, <1>14,
     <1>15, <1>16, <1>17 DEF Correlate

LEMMA OwnerAlways == OwnerSpec => []OwnerInv
<1>1. OwnerInit => HostInv /\ OwnerInv
  <2> SUFFICES ASSUME OwnerInit PROVE HostInv /\ OwnerInv
    OBVIOUS
  <2>1. HostInv
    <3>1. PICK u \in Units, m \in BOOLEAN, d \in Pids, p \in [Containers -> Pids] :
            /\ \A c, e \in Containers : p[c] # d /\ (p[c] = p[e] => c = e)
            /\ daemon = [pid |-> d, gen |-> 1, unit |-> u, main |-> m]
            /\ running = [c \in Containers |-> [pid |-> p[c], gen |-> 1]]
            /\ process = [q \in Pids |->
                            CASE q = d -> [gen |-> 1, cgroup |-> "daemon"]
                              [] \E c \in Containers : p[c] = q ->
                                   [gen |-> 1, cgroup |-> CHOOSE c \in Containers : p[c] = q]
                              [] OTHER -> Nobody]
            /\ attested \in {u, "none"}
      BY Zenon DEF OwnerInit
    <3>0. /\ accepted \in {Backend, "inner"} /\ inner \in 0 .. 0 + 1
          /\ running[Backend] = [pid |-> p[Backend], gen |-> 1]
      BY <3>1, RuntimeOwnerAssumption DEF OwnerInit
    <3>2. \A c \in Containers : (CHOOSE e \in Containers : p[e] = p[c]) = c
      BY <3>1
    <3>3. process[d] = [gen |-> 1, cgroup |-> "daemon"]
      BY <3>1
    <3>4. \A c \in Containers : process[p[c]] = [gen |-> 1, cgroup |-> c]
      BY <3>1, <3>2
    <3>5. \A q \in Pids : process[q] \in Process(0)
      <4>1. Nobody \in Process(0)
            /\ \A g \in Containers \cup {"daemon"} : [gen |-> 1, cgroup |-> g] \in Process(0)
        BY DEF Nobody, Process
      <4>2. QED
        BY <3>1, <3>2, <4>1
    <3>6. events = 0 /\ known = running
      BY DEF OwnerInit
    <3>7. process \in [Pids -> Process(0)]
      BY <3>1, <3>5
    <3>8. daemon.pid = d /\ daemon.gen = 1 /\ 1 \in 1 .. 0 + 1
      BY <3>1
    <3>9. DOMAIN running = Containers
          /\ \A c \in Containers : running[c].pid = p[c] /\ running[c].gen = 1
      BY <3>1
    <3>10. QED
      BY <3>0, <3>3, <3>4, <3>6, <3>7, <3>8, <3>9 DEF HostInv, NotUp
  <2>2. OwnerInv
    BY FS_EmptySet DEF OwnerInit, OwnerInv, NothingRead, PeerInv, MatchInv, HeldInv, Connected, Asked,
      Identified, Looping, Checking, Vouched
  <2>3. QED
    BY <2>1, <2>2
<1>2. ASSUME HostInv, OwnerInv, [OwnerNext]_ownervars
      PROVE  OwnerInv'
  <2>1. CASE UNCHANGED ownervars
    BY <1>2, <2>1 DEF ownervars, hostvars, given, OwnerInv, PeerInv, MatchInv, HeldInv, Alive, Same,
      Identity, Match, Fits, Here, Relation
  <2>2. QED
    BY <1>2, <2>1, OwnerHostStep, OwnerReadStep DEF OwnerNext
<1>3. QED
  BY <1>1, <1>2, HostStep, PTL DEF OwnerSpec

\* An answer rests on a daemon, its unit and a process in the accepted socket's cgroup or
\* the one above that were real at one instant, on a host of any size that restarts any
\* of them any number of times and uses their process ids again
\* (DockerRuntimeOwnerCorrelator.correlate).
THEOREM ResolvedAlwaysHeldTogether == OwnerSpec => []ResolvedHeldTogether
<1>1. OwnerInv => ResolvedHeldTogether
  BY DEF OwnerInv, HeldInv, ResolvedHeldTogether, Vouched
<1>2. QED
  BY <1>1, OwnerAlways, PTL

\* Where the accepted container may be a candidate, the answer names it and the start it
\* had at that instant, whichever other containers' stale records share a process id with
\* one of its own (DockerRuntimeOwnerCorrelator.correlate).
THEOREM ResolvedAlwaysNamesTheContainer == OwnerSpec => []ResolvedNamesTheContainer
<1>1. OwnerInv => ResolvedNamesTheContainer
  BY DEF OwnerInv, HeldInv, ResolvedNamesTheContainer, Vouched
<1>2. QED
  BY <1>1, OwnerAlways, PTL

-----------------------------------------------------------------------------
(* The secret on disk.                                                     *)

\* The run that created the file owns it until it fails or is killed, and knows how
\* much of it is written; only a run that is done has announced its token.
OwnsFile(i) == init[i] \in {"created", "writing", "written", "done"}

SecretInv ==
    /\ init \in [Inits -> {"start", "absent", "created", "writing", "written", "done", "failed"}]
    /\ file \in [of : Inits \cup {"none"}, written : {"nothing", "part", "all"}]
    /\ \A i \in Inits :
          /\ OwnsFile(i) => file.of = i
          /\ init[i] \in {"written", "done"} => file.written = "all"
    /\ announced \subseteq {i \in Inits : init[i] = "done"}

LEMMA SecretStep ==
    ASSUME SecretInv, [Next]_vars
    PROVE  SecretInv'
<1> USE SessionsAssumption DEF SecretInv, OwnsFile, NoFile
<1>1. CASE UNCHANGED diskvars
  BY <1>1 DEF diskvars
<1>2. ASSUME NEW i \in Inits, CheckAbsent(i)
      PROVE  SecretInv'
  BY <1>2 DEF CheckAbsent, To
<1>3. ASSUME NEW i \in Inits, OpenExclusive(i)
      PROVE  SecretInv'
  <2>1. CASE file = NoFile
    <3>1. \A j \in Inits : ~ OwnsFile(j)
      BY <2>1
    <3>2. QED
      BY <1>3, <2>1, <3>1 DEF OpenExclusive, To
  <2>2. CASE file # NoFile
    BY <1>3, <2>2 DEF OpenExclusive, To
  <2>3. QED
    BY <2>1, <2>2
<1>4. ASSUME NEW i \in Inits, WriteToken(i)
      PROVE  SecretInv'
  <2>1. \A j \in Inits : j # i => ~ OwnsFile(j)
    BY <1>4 DEF WriteToken
  <2>2. file' \in [of : Inits \cup {"none"}, written : {"nothing", "part", "all"}]
        /\ file'.of = i
    BY <1>4 DEF WriteToken
  <2>3. QED
    BY <1>4, <2>1, <2>2 DEF WriteToken, To
<1>5. ASSUME NEW i \in Inits, Announce(i)
      PROVE  SecretInv'
  BY <1>5 DEF Announce, To
<1>6. ASSUME NEW i \in Inits, InitFails(i)
      PROVE  SecretInv'
  <2>1. \A j \in Inits : j # i => ~ OwnsFile(j)
    BY <1>6 DEF InitFails
  <2>2. QED
    BY <1>6, <2>1 DEF InitFails, To
<1>7. ASSUME NEW i \in Inits, Killed(i)
      PROVE  SecretInv'
  BY <1>7 DEF Killed, To
<1>8. QED
  BY <1>1, <1>2, <1>3, <1>4, <1>5, <1>6, <1>7
  DEF Next, vars, Start, Stop, Tick, SetBack, Arrive, Lookup, Serve, Revoke, Replace, Create,
      Serving, diskvars

\* However many runs of init race, fail or are killed, a token that was printed is the
\* one on disk, whole, for good (initialize_master_secret).
THEOREM AnnouncedSecretAlwaysStands == Spec => []AnnouncedSecretStands
<1>1. Init => SecretInv
  BY DEF Init, SecretInv, OwnsFile, NoFile
<1>2. SecretInv => AnnouncedSecretStands
  BY DEF SecretInv, OwnsFile, AnnouncedSecretStands
<1>3. QED
  BY <1>1, <1>2, SecretStep, PTL DEF Spec

-----------------------------------------------------------------------------
(* The sessions in memory.                                                 *)

Requested == [op : {"idle", "use", "logout", "signin", "served", "revoke", "create"},
              token : Nat, now : Nat]

\* Every token anybody holds or was refused was made, and the store holds none of the
\* refused: a number is never given out again, so none of them comes back.
StoreInv ==
    /\ now \in Nat /\ made \in Nat
    /\ request \in [Requests -> Requested]
    /\ \A r \in Requests : request[r].token <= made
    /\ cookie \in 0 .. made
    /\ refused \subseteq 0 .. made
    /\ DOMAIN sessions \subseteq 1 .. made
    /\ \A t \in refused : t \notin DOMAIN sessions

LEMMA StoreStep ==
    ASSUME StoreInv, [Next]_vars
    PROVE  StoreInv'
<1> USE SessionsAssumption DEF StoreInv, Idle, Requested
<1>1. CASE UNCHANGED <<now, made, request, cookie, refused, sessions>>
  BY <1>1
<1>2. CASE Start \/ Stop
  <2>1. UNCHANGED <<now, made, cookie, refused>> /\ DOMAIN sessions' \subseteq DOMAIN sessions
    BY <1>2 DEF Start, Stop
  <2>2. request' = request \/ request' = [r \in Requests |-> Idle]
    BY <1>2 DEF Start, Stop
  <2>3. request' \in [Requests -> Requested] /\ \A r \in Requests : request'[r].token <= made
    BY <2>2
  <2>4. QED
    BY <2>1, <2>3
<1>3. CASE Tick \/ SetBack
  <2>1. now' \in Nat
    BY <1>3 DEF Tick, SetBack
  <2>2. UNCHANGED <<made, request, cookie, refused, sessions>>
    BY <1>3 DEF Tick, SetBack
  <2>3. QED
    BY <2>1, <2>2
<1>4. ASSUME NEW r \in Requests, NEW op \in {"use", "logout", "signin"}, Arrive(r, op)
      PROVE  StoreInv'
  BY <1>4 DEF Arrive, Busy, Serving
<1>5. ASSUME NEW r \in Requests, Lookup(r)
      PROVE  StoreInv'
  BY <1>5 DEF Lookup, Without, Done, Serving
<1>6. ASSUME NEW r \in Requests, Serve(r)
      PROVE  StoreInv'
  BY <1>6 DEF Serve, Done, Serving
<1>7. ASSUME NEW r \in Requests, Revoke(r)
      PROVE  StoreInv'
  <2>1. /\ UNCHANGED <<now, made>> /\ request' = [request EXCEPT ![r] = Idle]
        /\ cookie' \in {0, cookie} /\ refused' = refused \cup {request[r].token}
    BY <1>7 DEF Revoke, Done, Serving
  <2>2. DOMAIN sessions' = DOMAIN sessions \ {request[r].token}
    BY <1>7 DEF Revoke, Without
  <2>3. request' \in [Requests -> Requested] /\ \A q \in Requests : request'[q].token <= made
    BY <2>1
  <2>4. request[r].token \in 0 .. made
    OBVIOUS
  <2>5. refused' \subseteq 0 .. made /\ \A t \in refused' : t \notin DOMAIN sessions'
    BY <2>1, <2>2, <2>4
  <2>6. cookie' \in 0 .. made /\ DOMAIN sessions' \subseteq 1 .. made
    BY <2>1, <2>2
  <2>7. QED
    BY <2>1, <2>3, <2>5, <2>6
<1>8. ASSUME NEW r \in Requests, Replace(r)
      PROVE  StoreInv'
  <2>1. /\ UNCHANGED <<now, made, cookie>>
        /\ request' = [request EXCEPT ![r] = [op |-> "create", token |-> 0, now |-> now]]
        /\ refused \subseteq refused' /\ refused' \subseteq refused \cup {request[r].token}
    BY <1>8 DEF Replace, Busy, Serving
  <2>2. DOMAIN sessions' = DOMAIN sessions \ {request[r].token}
    BY <1>8 DEF Replace, Without
  <2>3. request' \in [Requests -> Requested] /\ \A q \in Requests : request'[q].token <= made
    BY <2>1
  <2>4. QED
    BY <2>1, <2>2, <2>3
<1>9. ASSUME NEW r \in Requests, Create(r)
      PROVE  StoreInv'
  BY <1>9 DEF Create, Without, Done, Serving
<1>10. QED
  BY <1>1, <1>2, <1>3, <1>4, <1>5, <1>6, <1>7, <1>8, <1>9
  DEF Next, vars, CheckAbsent, OpenExclusive, WriteToken, Announce, InitFails, Killed, DiskOnly

\* A token refused once stays refused, for late requests, clocks set back and restarts
\* alike (SessionStore.lookup, revoke, _prune_locked).
THEOREM RefusedIsForgotten == Spec => RefusedStaysRefused
<1>1. Init => StoreInv
  BY DEF Init, StoreInv, Requested, Idle
<1>2. ASSUME StoreInv, [Next]_vars
      PROVE  [\A r \in Requests : request[r].op = "use" /\ request'[r].op = "served" =>
                  request[r].token \notin refused]_vars
  <2> SUFFICES ASSUME NEW r \in Requests, request[r].op = "use", request'[r].op = "served"
               PROVE  request[r].token \notin refused
    OBVIOUS
  <2>0. request \in [Requests -> Requested]
    BY <1>2 DEF StoreInv
  <2>1. request' # request /\ request'[r] # Idle /\ request'[r] # request[r]
    BY DEF Idle
  <2>2. ASSUME NEW q \in Requests, NEW x, request' = [request EXCEPT ![q] = x]
        PROVE  q = r /\ x.op = "served"
    BY <2>0, <2>1, <2>2
  <2>3. \A q \in Requests : ~ Done(q)
    BY <2>2 DEF Done, Idle
  <2>4. \A q \in Requests, op \in {"use", "logout", "signin", "create"}, t \in Nat : ~ Busy(q, op, t)
    BY <2>2 DEF Busy
  <2>5. PICK q \in Requests : Lookup(q)
    <3>1. cookie \in Nat
      BY <1>2 DEF StoreInv
    <3>2. ~ (Start \/ Stop \/ Tick \/ SetBack \/ UNCHANGED vars)
      BY <2>1 DEF Start, Stop, Tick, SetBack, vars
    <3>3. \A i \in Inits : ~ (\/ CheckAbsent(i) \/ OpenExclusive(i) \/ WriteToken(i) \/ Announce(i)
                               \/ InitFails(i) \/ Killed(i))
      BY <2>1 DEF CheckAbsent, OpenExclusive, WriteToken, Announce, InitFails, Killed, DiskOnly
    <3>4. \A q \in Requests : ~ (Serve(q) \/ Revoke(q) \/ Replace(q) \/ Create(q))
      BY <2>3, <2>4 DEF Serve, Revoke, Replace, Create
    <3>5. \A q \in Requests, op \in {"use", "logout", "signin"} : ~ Arrive(q, op)
      BY <2>4, <3>1 DEF Arrive
    <3>6. QED
      BY <1>2, <3>2, <3>3, <3>4, <3>5 DEF Next
  <2>6. q = r
    <3>1. request' = [request EXCEPT ![q].op = IF request[q].op = "use" THEN "served" ELSE "revoke"]
      BY <2>3, <2>5 DEF Lookup
    <3>2. QED
      BY <2>0, <2>1, <3>1
  <2>7. r \in Requests /\ request[r].token \in DOMAIN sessions'
    BY <2>3, <2>5, <2>6 DEF Lookup
  <2>8. QED
    BY <1>2, <2>5, <2>7 DEF Lookup, Without, StoreInv
<1>3. QED
  BY <1>1, <1>2, StoreStep, PTL DEF Spec, RefusedStaysRefused
=============================================================================
