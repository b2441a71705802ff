----------------------------- MODULE MCBlocking -----------------------------
(* Model of Blocking for TLC: the jobs and the join tasks are model values. *)
(* No symmetry: the run checks liveness properties.                         *)
EXTENDS Blocking
=============================================================================
