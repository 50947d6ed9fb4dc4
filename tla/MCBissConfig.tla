----------------------------- MODULE MCBissConfig -----------------------------
(* A six-bit frame: one anchor bit, two of position, an error bit, and two *)
(* of CRC over position and error bit; and hosts that change up to         *)
(* MaxChanges settings, valid or not, one at a time.                       *)
EXTENDS BissConfig

MCInitial == [n \in Names |->
  CASE n = "clock" -> 2
    [] n = "frame" -> 6
    [] n = "posOffset" -> 1   [] n = "posBits" -> 2
    [] n = "modulo" -> Disabled
    [] n = "edge" -> 1
    [] n = "delay" -> 2
    [] n = "scanEnd" -> 5     [] n = "scanStep" -> 1
    [] n = "timeout" -> 3
    [] n = "anchorBits" -> 1  [] n = "anchorMask" -> 1  [] n = "anchorValue" -> 1
    [] n = "errorBit" -> 3    [] n = "warningBit" -> Disabled
    [] n = "statusGate" -> 2
    [] n = "crcOffset" -> 4   [] n = "crcBits" -> 2
    [] n = "coverOffset" -> 1 [] n = "coverBits" -> 3
    [] n = "poly" -> 3
    [] n = "invert" -> 1
    [] n = "crcGate" -> 1
    [] OTHER -> 0]

MCInputs ==
  {"role"} \X {1} \cup {"clock"} \X {0, 1, 4} \cup {"frame"} \X {3, 5, 7}
  \cup {"posOffset"} \X {4} \cup {"posBits"} \X {4}
  \cup {"edge"} \X {0} \cup {"delay"} \X {0, 6, 15}
  \cup {"scan"} \X {1} \cup {"scanStart"} \X {3} \cup {"scanEnd"} \X {2, 6}
  \cup {"scanStep"} \X {4, 15}
  \cup {"anchorOffset"} \X {5} \cup {"anchorBits"} \X {0, 2}
  \cup {"anchorMask"} \X {3}
  \cup {"errorBit"} \X {6, Disabled} \cup {"warningBit"} \X {0}
  \cup {"statusGate"} \X {0}
  \cup {"crcOffset"} \X {3} \cup {"crcBits"} \X {0, 3}
  \cup {"coverOffset"} \X {0, 3} \cup {"coverBits"} \X {0, 1, 4}
  \cup {"poly"} \X {0, 1, 4, 8} \cup {"init"} \X {2} \cup {"xor"} \X {1}
  \cup {"invert"} \X {0} \cup {"crcGate"} \X {0} \cup {"target"} \X {5}
=============================================================================
