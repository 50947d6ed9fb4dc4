SPECIFICATION CommandsSpec
CONSTANTS
  Posted <- NoPosts
  QueueLength = 2
  Tables <- OneTable
  TableMax = 2
  Guarded <- Spoiling
INVARIANTS
  RunsWhatWasSet
PROPERTIES
  RunsFrozen
  ArmTakesEffect
