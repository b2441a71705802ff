---------------------------- MODULE MCCommandLine ----------------------------
(* Model of CommandLine for TLC: one watch, so there is nothing to permute,
   and a liveness property, so that threads are not permuted either. *)
EXTENDS CommandLine
=============================================================================
