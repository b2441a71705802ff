------------------------------- MODULE MCWatch -------------------------------
(* Model of Watch for TLC. *)
EXTENDS Watch
=============================================================================
