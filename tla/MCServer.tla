------------------------------ MODULE MCServer ------------------------------
(* Model of Server for TLC. *)
EXTENDS Server, TLC

ServerSymmetry == Permutations(Watches) \cup Permutations(Clients)
                    \cup Permutations(Tids)
=============================================================================
