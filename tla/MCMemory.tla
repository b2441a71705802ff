------------------------------ MODULE MCMemory ------------------------------
(***************************************************************************)
(* Model of Memory for TLC.  Four bytes with rows of two and at most three *)
(* bytes in a request.  The ranges are two valid ones that overlap, of     *)
(* which one has a row and a half and ends with the address space, and the *)
(* other is a single byte one before the end, so that there is a next      *)
(* address; and those one step beyond: empty, one byte too long, and over  *)
(* the end.                                                                *)
(***************************************************************************)
EXTENDS Memory, TLC

EdgeRanges == {<<1, 3>>, <<2, 1>>, <<0, 0>>, <<0, 4>>, <<3, 2>>}

RequestSymmetry == Permutations(Jobs)
=============================================================================
