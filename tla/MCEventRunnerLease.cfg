SPECIFICATION Spec
CONSTANTS
  Events = {e1, e2}
  Sessions = {e1}
  MaxConcurrent = 2
  RetirementLimit = 1
  HardLimit = 1
  QueueCapacity = 1
  ResetMayFail = TRUE
INVARIANTS Safety
PROPERTIES ImplementsLease EveryEventEnds
CHECK_DEADLOCK FALSE
