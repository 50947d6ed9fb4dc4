CONSTANTS
  factory = factory
  a1 = a1
  b1 = b1
  NoImage = NoImage
  Erased = Erased
  Partial = Partial
  Torn = Torn
  Images <- MCImages
  Factory <- factory
  Linked <- MCLinked
  DefaultMode = "DIRECT_AB"
  DefaultSeq = 1
  BootFaults = FALSE
  LossLimit = 3
  MaxSeq = 11
SPECIFICATION Spec
INVARIANTS RunsWholeImage ConfirmedIsTrusted AppliedIsTrue
PROPERTIES EndsUpRunning StagedImageRuns UnconfirmedRollsBack
\* A bootloader with nothing left to run loops for ever.
CHECK_DEADLOCK FALSE
