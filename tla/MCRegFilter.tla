---------------------------- MODULE MCRegFilter ----------------------------
(***************************************************************************)
(* Model of RegFilter and RegText for TLC: two registers, two values, one  *)
(* of them in hexadecimal, and both spellings of each connective.  Of the  *)
(* operators, one that is monotone in the register and one that is not are *)
(* enough for the shapes of the input.                                     *)
(***************************************************************************)
EXTENDS RegText, Bitwise, TLC

MCRegIndex == "ax" :> 1 @@ "BX" :> 2
MCValueOf == "1" :> 1 @@ "0x2" :> 2
MCBitAnd(a, b) == a & b
\* A vector may be too short for the last register.
MCSamples == {<<a>> : a \in 0..3} \cup {<<a, b>> : a \in {1, 3}, b \in 0..3}
\* Enough to complete whatever can be completed.
MCCompletions == UNION {[1..n -> {"ax", "<=", "1"}] : n \in 0..3}
=============================================================================
