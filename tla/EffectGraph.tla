---------------------------- MODULE EffectGraph ----------------------------
(***************************************************************************)
(* What else a service job may move: SystemdProvider.observe_effect_graph  *)
(* (agent/providers/systemd.py), the bounded walk over the loaded units    *)
(* from one service and one verb, whose answer the backend plans and       *)
(* protects by (Gates!LifecycleProtection) only when it is "complete".     *)
(*                                                                         *)
(* A piece of work is a unit name and the kind of job systemd may put on   *)
(* it. The walk is cut by a node, a depth and an edge limit, by a budget   *)
(* of references and by a deadline, meets names that are aliases and units *)
(* that are gone, and must own up to every one of those cuts.              *)
(***************************************************************************)
EXTENDS Naturals, Sequences, FiniteSets

CONSTANTS
    Names,        \* unit names; TargetUnit is one
    TargetUnit,   \* the service asked about
    Drawn,        \* the forward relations the graphs of a model use
    MaxDrawn,     \* bound on the relations in a graph
    Limits        \* the limits a caller may ask for: nodes, depth, edges

ASSUME EffectGraphAssumption ==
    /\ TargetUnit \in Names
    /\ MaxDrawn \in Nat
    /\ \A l \in Limits : l.nodes \in Nat /\ l.depth \in Nat /\ l.edges \in Nat

VARIABLES
    graph,        \* host: forward relations <<unit, relation, name>>
    canon,        \* host: the canonical id of a name
    unit,         \* host: what is peculiar about a unit
    action,       \* the verb asked about
    limit,        \* the limits of this walk
    pending,      \* work not looked at yet, oldest first: name, kind, depth
    queued,       \* work ever put there
    admitted,     \* names ever put there
    resolved,     \* aliases: the canonical id of each name read
    visited,      \* work done: canonical id, kind
    todo,         \* references of the unit at hand still to be followed
    at,           \* that unit and its depth
    edges,        \* provisional_edges
    budget,       \* reference_budget
    gaps,         \* what the walk owns up to
    answer        \* the EffectGraphObservation, NoAnswer before

hostvars == <<graph, canon, unit, action, limit>>
walkvars == <<hostvars, pending, queued, admitted, resolved, visited, todo, at, edges, budget, gaps, answer>>

Actions   == {"start", "stop", "restart"}
Peculiar  == {"plain", "absent", "unloaded", "unneeded", "active", "changing"}
Work(n, k) == [name |-> n, kind |-> k]
NoAnswer  == [status |-> "none", units |-> {}, triggers |-> {}, upholders |-> {}]

\* _START_JOB_RELATIONSHIPS and the tables after it: the kind of work each relation makes
StartJobs ==
    [Requires |-> "start", Wants |-> "start", BindsTo |-> "start", Upholds |-> "start",
     Requisite |-> "verify", Conflicts |-> "stop", ConflictedBy |-> "stop"]
StopJobs     == {"RequiredBy", "RequisiteOf", "BoundBy", "ConsistsOf"}
Released     == {"Requires", "Requisite", "Wants", "BindsTo", "Upholds"}
Conditional  == {"OnFailure", "OnSuccess", "Triggers"}
Reactivation == {"TriggeredBy", "UpheldBy"}

\* systemd keeps these as the other end of a forward relation
OtherEnd ==
    [RequiredBy |-> "Requires", RequisiteOf |-> "Requisite", BoundBy |-> "BindsTo",
     ConsistsOf |-> "PartOf", ConflictedBy |-> "Conflicts", TriggeredBy |-> "Triggers",
     UpheldBy |-> "Upholds"]

Loaded(n) == unit[n] # "absent" /\ canon[n] = n
Related(u, r) ==
    IF r \in DOMAIN OtherEnd
    THEN {v \in Names : Loaded(v) /\ \E n \in Names : canon[n] = u /\ <<v, OtherEnd[r], n>> \in graph}
    ELSE {n \in Names : <<u, r, n>> \in graph}

\* Any small graph without loops, in which at most one name is not a plain unit.
WalkInit ==
    /\ \E f \in [1..MaxDrawn -> {e \in Names \X Drawn \X Names : e[1] # e[3]}] :
         graph = {f[i] : i \in 1..MaxDrawn}
    /\ \E n, m \in Names, p \in Peculiar :
         /\ n = m \/ p = "plain"
         /\ canon = [x \in Names |-> IF x = n THEN m ELSE x]
         /\ unit = [x \in Names |-> IF x = n THEN p ELSE "plain"]
    /\ action \in Actions /\ limit \in Limits
    /\ pending = <<>> /\ queued = {} /\ admitted = {} /\ resolved = [n \in {} |-> n]
    /\ visited = {} /\ todo = {} /\ at = [name |-> TargetUnit, kind |-> "none", depth |-> 0]
    /\ edges = {} /\ budget = limit.edges * 7 /\ gaps = {} /\ answer = NoAnswer

\* StopWhenUnneeded, where anything is stopped
StopsUnneeded(u, k) ==
    unit[u] = "unneeded" /\ (action # "start" \/ k \in {"stop", "restart", "inspect"})

\* effect_units: all that was visited for more than a look, and what stops when unneeded
Answer(status, triggers, upholders) ==
    answer' = [status |-> status, triggers |-> triggers, upholders |-> upholders,
               units |-> {w.name : w \in {v \in visited : \/ v.kind # "inspect"
                                                          \/ StopsUnneeded(v.name, v.kind)}}]

-----------------------------------------------------------------------------
(* The walk.                                                               *)

\* The target must be loaded and be its own canonical id.
Begin ==
    /\ answer = NoAnswer /\ queued = {}
    /\ IF Loaded(TargetUnit)
       THEN /\ pending' = <<[name |-> TargetUnit, kind |-> action, depth |-> 0]>>
            /\ queued' = {Work(TargetUnit, action)} /\ admitted' = {TargetUnit}
            /\ UNCHANGED answer
       ELSE answer' = [NoAnswer EXCEPT !.status = "failed"] /\ UNCHANGED <<pending, queued, admitted>>
    /\ UNCHANGED <<hostvars, resolved, visited, todo, at, edges, budget, gaps>>

\* references, for every relation that kind of work follows. "edge" tells what is
\* recorded as an effect from what is only read.
References(u, k) ==
    LET ref(rs, child, edge) ==
          UNION {{[relation |-> r, to |-> n, kind |-> child, edge |-> edge] : n \in Related(u, r)} : r \in rs}
        starts == UNION {ref({r}, StartJobs[r], TRUE) : r \in DOMAIN StartJobs}
        stops  == ref(StopJobs, k, TRUE) \cup ref({"PropagatesStopTo"}, "restart", TRUE)
                    \cup ref(Released, "inspect", FALSE)
    IN IF k \notin Actions THEN {}
       ELSE (IF k # "stop" THEN starts ELSE {}) \cup (IF k # "start" THEN stops ELSE {})
              \cup ref(Conditional, "footprint", TRUE) \cup ref(Reactivation, "source", TRUE)

\* _reactivation_source_evidence: neither active nor settled
RuntimeGap(u) == unit[u] = "changing"

\* What a unit itself makes the walk own up to.
UnitGaps(u, k) ==
    (IF unit[u] = "unloaded" THEN {"load_state"} ELSE {})
    \cup (IF RuntimeGap(u) THEN {"runtime"} ELSE {})
    \cup (IF StopsUnneeded(u, k) THEN {"unneeded"} ELSE {})
    \cup {IF r = "Upholds" THEN "upholding" ELSE IF r = "PropagatesStopTo" THEN "graceful" ELSE "conditional" :
            r \in {s.relation : s \in {q \in References(u, k) :
                      \/ q.relation = "Upholds" /\ q.kind = "start"
                      \/ q.relation = "PropagatesStopTo" \/ q.relation \in Conditional}}}

\* The oldest piece of work: its name is read once, and its unit once for each kind.
Visit ==
    /\ answer = NoAnswer /\ todo = {} /\ pending # <<>>
    /\ LET w == Head(pending)
           c == canon[w.name]
           gone == unit[c] = "absent"
       IN /\ pending' = Tail(pending)
          /\ resolved' = IF gone THEN resolved
                         ELSE [n \in DOMAIN resolved \cup {w.name} |-> canon[n]]
          /\ IF gone \/ Work(c, w.kind) \in visited
             THEN UNCHANGED <<visited, todo, at>>
             ELSE /\ visited' = visited \cup {Work(c, w.kind)}
                  /\ at' = [w EXCEPT !.name = c]
                  /\ todo' = References(c, w.kind)
          /\ gaps' = gaps \cup (IF gone THEN {"unresolved"} ELSE {})
                          \cup (IF ~gone /\ c # w.name THEN {"alias"} ELSE {})
                          \cup (IF gone \/ Work(c, w.kind) \in visited THEN {} ELSE UnitGaps(c, w.kind))
    /\ UNCHANGED <<hostvars, queued, admitted, edges, budget, answer>>

\* Faulty variant of Enqueue: a name is queued once, whatever kind of work it has.
EnqueueByName(n, k, d) ==
    /\ IF n \in admitted THEN UNCHANGED <<pending, queued, admitted>>
       ELSE /\ pending' = Append(pending, [name |-> n, kind |-> k, depth |-> d])
            /\ queued' = queued \cup {Work(n, k)} /\ admitted' = admitted \cup {n}
    /\ gaps' = gaps

\* enqueue: work is queued once; a limit that stops it is a gap.
Enqueue(n, k, d) ==
    LET known == Work(n, k) \in queued
        cut   == (IF d > limit.depth THEN {"depth_limit"} ELSE
                  IF n \notin admitted /\ Cardinality(admitted) >= limit.nodes THEN {"node_limit"} ELSE {})
    IN IF known \/ cut # {}
       THEN gaps' = gaps \cup (IF known THEN {} ELSE cut) /\ UNCHANGED <<pending, queued, admitted>>
       ELSE /\ pending' = Append(pending, [name |-> n, kind |-> k, depth |-> d])
            /\ queued' = queued \cup {Work(n, k)} /\ admitted' = admitted \cup {n}
            /\ UNCHANGED gaps

\* One reference of the unit at hand, in whichever order systemd lists them.
Follow(r) ==
    /\ answer = NoAnswer /\ r \in todo
    /\ todo' = todo \ {r}
    /\ LET edge == <<at.name, r.relation, r.to>>
           full == r.edge /\ edge \notin edges /\ Cardinality(edges) >= limit.edges
       IN IF budget = 0 \/ full
          THEN /\ gaps' = gaps \cup {"edge_limit"}
               /\ budget' = (IF budget = 0 THEN 0 ELSE budget - 1)
               /\ UNCHANGED <<pending, queued, admitted, edges>>
          ELSE /\ budget' = budget - 1
               /\ edges' = IF r.edge THEN edges \cup {edge} ELSE edges
               /\ Enqueue(r.to, r.kind, at.depth + 1)
    /\ UNCHANGED <<hostvars, resolved, visited, at, answer>>

\* The end: every edge is settled against what was read, and what may start the
\* target again is told from what may start something else again.
Reactivates(e) == e[2] \in Reactivation /\ e[3] \in DOMAIN resolved
Sources(r, es) == {canon[e[3]] : e \in {d \in es : d[1] = TargetUnit /\ d[2] = r /\ Reactivates(d)
                                                       /\ unit[canon[d[3]]] = "active"}}

\* Faulty variant of EndGaps: what starts another unit again is not looked at.
EndGapsOfTarget ==
    (IF \E e \in edges : e[3] \notin DOMAIN resolved THEN {"unresolved"} ELSE {})
    \cup (IF \E e \in edges : Reactivates(e) /\
               \/ RuntimeGap(canon[e[3]])
               \/ \E k \in Actions : Work(canon[e[3]], k) \in visited
          THEN {"reactivation"} ELSE {})

EndGaps ==
    (IF \E e \in edges : e[3] \notin DOMAIN resolved THEN {"unresolved"} ELSE {})
    \cup (IF \E e \in edges : Reactivates(e) /\
               \/ RuntimeGap(canon[e[3]])
               \/ \E k \in Actions : Work(canon[e[3]], k) \in visited
               \/ unit[canon[e[3]]] = "active" /\ e[1] # TargetUnit
          THEN {"reactivation"} ELSE {})

Conclude ==
    /\ answer = NoAnswer /\ queued # {} /\ pending = <<>> /\ todo = {}
    /\ gaps' = gaps \cup EndGaps
    /\ Answer(IF gaps' = {} THEN "complete" ELSE "partial", Sources("TriggeredBy", edges), Sources("UpheldBy", edges))
    /\ UNCHANGED <<hostvars, pending, queued, admitted, resolved, visited, todo, at, edges, budget>>

\* A read fails, or the deadline passes, at the end too.
Fail ==
    /\ answer = NoAnswer
    /\ gaps' = gaps \cup {"read_failed"}
    /\ \E settled \in SUBSET (IF pending = <<>> /\ todo = {} THEN edges ELSE {}) :
         Answer(IF queued = {} THEN "failed" ELSE "partial",
                Sources("TriggeredBy", settled), Sources("UpheldBy", settled))
    /\ UNCHANGED <<hostvars, pending, queued, admitted, resolved, visited, todo, at, edges, budget>>

WalkNext ==
    \/ Begin \/ Visit \/ Conclude \/ Fail
    \/ \E r \in todo : Follow(r)

WalkSpec == WalkInit /\ [][WalkNext]_walkvars

-----------------------------------------------------------------------------
(* Properties.                                                             *)

\* The jobs one job may bring: systemd's own rules, for jobs alone.
Brings(u, k) ==
    {Work(canon[r.to], r.kind) : r \in {q \in References(u, k) : q.kind \in Actions \cup {"verify"}}}

\* A set of jobs closed under those rules that holds the one asked for.
Closed(jobs) ==
    /\ Work(TargetUnit, action) \in jobs
    /\ \A w \in jobs : Brings(w.name, w.kind) \subseteq jobs

\* A walk that calls itself complete has named every unit a job may touch: no limit,
\* alias, lost unit or repeated name let one slip (observe_effect_graph's gaps). The
\* jobs one may lead to are the least closed set, so a closed set of visited work
\* holds them all.
CompleteIsClosed ==
    answer.status = "complete" =>
        /\ Closed({w \in visited : w.kind \in Actions \cup {"verify"}})
        /\ {w.name : w \in {v \in visited : v.kind # "inspect"}} \subseteq answer.units

\* A complete answer names every active unit that would start the target again after
\* it was stopped, and nothing else it may start or stop has such a unit: a stop that
\* is undone behind its back is never planned as a plain one.
CompleteNamesReactivators ==
    answer.status = "complete" =>
        LET active(u, r) == {v \in Related(u, r) : unit[v] = "active"}
        IN /\ answer.triggers = active(TargetUnit, "TriggeredBy")
           /\ answer.upholders = active(TargetUnit, "UpheldBy")
           /\ \A w \in visited : (w.kind \in Actions /\ w.name # TargetUnit) =>
                active(w.name, "TriggeredBy") \cup active(w.name, "UpheldBy") = {}
=============================================================================
