--------------------------- MODULE MCEffectGraph ---------------------------
(***************************************************************************)
(* Every graph of up to two relations over three names. The limits are     *)
(* those of a roomy walk and of one that each limit cuts short.            *)
(***************************************************************************)
EXTENDS EffectGraph

MCNames  == {"t", "a", "b"}
MCDrawn  == {"Requires", "Conflicts", "PartOf", "Triggers", "Upholds"}
MCLimits == {[nodes |-> 3, depth |-> 4, edges |-> 8], [nodes |-> 2, depth |-> 4, edges |-> 8],
             [nodes |-> 3, depth |-> 1, edges |-> 8], [nodes |-> 3, depth |-> 4, edges |-> 1]}
=============================================================================
