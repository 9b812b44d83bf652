------------------------------ MODULE MCEstate ------------------------------
\* Small instances of Estate for TLC.
EXTENDS Estate, TLC

CONSTANTS r1, r2, o1, o2, low, high

Link(kind, read, mtu) ==
    [kind |-> kind, physical |-> FALSE, name |-> "br0", addressesRead |-> read,
     addresses |-> IF read THEN {"gw"} ELSE {}, source |-> "linux_network",
     value |-> [admin_up |-> low, mtu |-> mtu]]

\* A bridge as adopted, the same drifted with its addresses unread, and its name
\* reused by a tunnel whose MTU cannot be read.
Links == {Link("bridge", TRUE, low), Link("bridge", FALSE, high),
          Link("tunnel", TRUE, "unreadable")}

Network(gws) == [bridge |-> "none", gateways |-> gws]
Device(s) == [device |-> "br0", state |-> s, external |-> FALSE, profile |-> TRUE]
Daemon(up) == [tun |-> "yes", running |-> up, addresses |-> {"gw"}]

Came(c) == [came |-> c, records |-> {}]
Ok(rs)  == [came |-> "ok", records |-> rs]

Round(d, n, t) == [docker |-> d, networkmanager |-> n, tailscale |-> t]

\* Nobody; Docker's bridge; a profile, and a tunnel daemon, while Docker cannot be read.
Rounds ==
    {Round(Came("no_socket"), Came("no_binary"), Came("no_binary")),
     Round(Ok({Network({"gw"})}), Ok({Device("unmanaged")}), Came("timeout")),
     Round(Came("foreign"), Ok({Device("connected")}), Ok({Daemon(TRUE)}))}

Actors == Permutations({r1, r2}) \cup Permutations({o1, o2})
=============================================================================
