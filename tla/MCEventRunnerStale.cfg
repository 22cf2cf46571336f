SPECIFICATION Spec
CONSTANTS
  Events = {e1, e2, e3}
  Sessions = {e1, e2}
  MaxConcurrent = 2
  RetirementLimit = 1
  HardLimit = 3
  QueueCapacity = 1
  ResetMayFail = FALSE
INVARIANTS CancellationIsOver
CHECK_DEADLOCK FALSE
