---------------------------- MODULE MCHitPipeline ----------------------------
(***************************************************************************)
(* Model of HitPipeline for TLC.  Queue, ring and channel hold two         *)
(* elements each, so that a handful of samples overruns them all.  No      *)
(* symmetry: the run checks a liveness property.                           *)
(***************************************************************************)
EXTENDS HitPipeline
=============================================================================
