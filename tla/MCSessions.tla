----------------------------- MODULE MCSessions -----------------------------
(***************************************************************************)
(* Two runs of init, two request threads, and a clock that passes the      *)
(* lifetime of a session and may be set back once.                         *)
(***************************************************************************)
EXTENDS Sessions
=============================================================================
