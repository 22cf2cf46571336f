SPECIFICATION Spec
CONSTANTS
  Events = {e1, e2, e3}
  Sessions = {e1, e2}
  MaxConcurrent = 2
  RetirementLimit = 1
  HardLimit = 2
  QueueCapacity = 1
  ResetMayFail = FALSE
SYMMETRY Symmetric
INVARIANTS Safety SuccessIsComplete
PROPERTIES GenerationWaitsOrRejects
CHECK_DEADLOCK FALSE
