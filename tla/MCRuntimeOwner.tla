--------------------------- MODULE MCRuntimeOwner ---------------------------
(***************************************************************************)
(* One daemon and two containers on four process ids: one is free, so that *)
(* a restart may take it, and an end frees another for anybody. The ids    *)
(* are alike.                                                              *)
(***************************************************************************)
EXTENDS RuntimeOwner, TLC

CONSTANTS p1, p2, p3, p4

MCPids       == {p1, p2, p3, p4}
MCContainers == {"c1", "c2"}
MCUnits      == {"docker", "other"}
Alike        == Permutations(MCPids)
=============================================================================
