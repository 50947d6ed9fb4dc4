SPECIFICATION NodeSpec
CONSTANTS
  Modulo = 3
  Target = 1
  Marks = {m1, m2}
  FrameBits = 3
  WordBits = 2
  FifoDepth = 3
  First = 1
  Start = 2
  End = 6
  Step = 3
  InFlight = 3
INVARIANTS
  WholeFrames
PROPERTIES
  PulseOnPassing
  SilenceNoticed
  ScanTriesAll
