CONSTANTS
  factory = factory
  a1 = a1
  b1 = b1
  NoImage = NoImage
  Erased = Erased
  Partial = Partial
  Torn = Torn
  Images <- MCImagesCopy
  Factory <- factory
  Linked <- MCLinked
  DefaultMode = "COPY_TO_ACTIVE"
  DefaultSeq = 0
  BootFaults = FALSE
  LossLimit = 4
  MaxSeq = 24
SPECIFICATION Spec
INVARIANT RunsWholeImage
