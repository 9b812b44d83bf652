---------------------------- MODULE MCPlanning ----------------------------
EXTENDS Planning

Managed   == [stance |-> "managed", intent |-> "v1", desired |-> "m2"]
Released  == [stance |-> "observed", intent |-> "none", desired |-> "none"]
Unclaimed == [block |-> "none", gaps |-> FALSE]
Claimed   == [block |-> "external", gaps |-> TRUE]

Free == [standing |-> Managed, owner |-> Unclaimed, caps |-> {"write", "guard"}]

StandSet == {Free, [Free EXCEPT !.caps = {"write"}, !.owner = Claimed],
             [Free EXCEPT !.standing = Released]}

ReadingSet == [k \in {"mtu", "container", "service"} |->
                 CASE k = "mtu" -> {"m1"}
                   [] k = "container" -> {"running", "exited"}
                   [] OTHER -> {"active"}]

Facts == [understood |-> TRUE, state |-> "active", startable |-> TRUE, stoppable |-> TRUE,
          reactivated |-> FALSE]

Wired(effects, type) ==
    [effects |-> effects \cup {"target"}, connection |-> IF type = "service" THEN "backend" ELSE "scope",
     connectionType |-> type, runtime |-> "docker", agent |-> "agent", agentType |-> "service",
     facts |-> Facts]

\* The backend in a container, or as a service of its own; an action that reaches
\* nothing, the container runtime, the network manager with it, or the agent.
HostSet == {Wired({}, "scope"), Wired({"docker"}, "scope"), Wired({"docker", "netman"}, "scope"),
            Wired({"docker", "agent"}, "scope"), Wired({"backend"}, "service"), Wired({}, "service")}

BlindSet == {{}, {"graph"}, {"socket"}, {"owner"}, {"provider"}, {"claims"}, {"agent"}}

Configured == [i \in {"i1", "i2"} |-> IF i = "i1" THEN "netman" ELSE "none"]

Apart == [c \in {"c1", "c2"} |-> IF c = "c1" THEN "i1" ELSE "i2"]

SceneSet ==
    {[start |-> 1, op |-> [kind |-> "mtu", action |-> "set"], address |-> Apart,
      host |-> Wired({}, "scope"), stand |-> Free, known |-> {}],
     [start |-> 2, op |-> [kind |-> "container", action |-> "stop"], address |-> Apart,
      host |-> Wired({}, "scope"), stand |-> Free, known |-> {"c1"}]}
      \cup
    {[start |-> 2, op |-> [kind |-> "service", action |-> "restart"], address |-> Apart,
      host |-> h, stand |-> Free, known |-> {"c1"}] : h \in HostSet}
=============================================================================
