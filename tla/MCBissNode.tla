------------------------------ MODULE MCBissNode ------------------------------
(* A frame of three bits in words of two: a full word and a partial one.   *)
EXTENDS BissNode
=============================================================================
