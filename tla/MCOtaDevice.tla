----------------------------- MODULE MCOtaDevice -----------------------------
(***************************************************************************)
(* OtaDevice with a factory image and a small set of updates, each linked  *)
(* for one slot.                                                           *)
(***************************************************************************)
EXTENDS OtaDevice

CONSTANTS factory, a1, b1

MCImages == {factory, a1, b1}
MCImagesCopy == {factory, a1}
MCLinked == [i \in Images |-> IF i = b1 THEN "B" ELSE "A"]
=============================================================================
