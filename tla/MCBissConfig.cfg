CONSTANTS
  Width = 4
  CrcWidth = 3
  ByteWidth = 2
  MaxFrame = 6
  MaxPosition = 4
  MaxCrc = 3
  CycleRate = 12
  MaxDelay = 3
  MaxChanges = 2
  Initial <- MCInitial
  Inputs <- MCInputs
SPECIFICATION Spec
INVARIANTS
  ProfileDecodable
  RunsAsReported
  CrcIsRemainder
  FlipsAreCaught
