SPECIFICATION Spec
CONSTANTS
  Posted <- AllEvents
  QueueLength = 2
INVARIANTS
  RunningAsArmed
  HeldAsUsed
  ClockAsReported
PROPERTIES
  DisarmStops
  ResetFreesAll
