----------------------------- MODULE MCPerfRing -----------------------------
(* Model of PerfRing for TLC. *)
EXTENDS PerfRing
=============================================================================
