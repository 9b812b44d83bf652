SPECIFICATION OwnerSpec
CONSTANTS
    p1 = p1
    p2 = p2
    p3 = p3
    p4 = p4
    Pids <- MCPids
    Containers <- MCContainers
    Backend = "c1"
    Units <- MCUnits
    MaxEvents = 3
SYMMETRY Alike
INVARIANT ResolvedHeldTogether
INVARIANT ResolvedNamesTheContainer
CHECK_DEADLOCK FALSE
