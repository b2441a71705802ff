---------------------------- MODULE MCMapsCache ----------------------------
(* Model of MapsCache for TLC. *)
EXTENDS MapsCache, TLC

CallerSymmetry == Permutations(Callers)
=============================================================================
