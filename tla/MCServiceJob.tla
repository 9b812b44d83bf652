---------------------------- MODULE MCServiceJob ----------------------------
(***************************************************************************)
(* Two managers, so that job numbers are used twice, two jobs of each, so  *)
(* that another's comes before ours, and three executions.                 *)
(***************************************************************************)
EXTENDS ServiceJob
=============================================================================
