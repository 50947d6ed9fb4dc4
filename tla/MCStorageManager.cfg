SPECIFICATION FairSpec
CONSTANTS
  PackSize = 1
  MaxSequence = 2
  Preemptive = TRUE
  Events = 2
INVARIANTS
  BusExclusive
  PackComplete
  EvidenceDone
PROPERTIES
  EvidenceKept
  EvidenceEnds
