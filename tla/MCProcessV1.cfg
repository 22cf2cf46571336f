SPECIFICATION Spec
CONSTANTS
  Ids = {i1, i2, i3, i4, i5}
  Timed = {i1}
  MaxConcurrent = 2
  QueueCapacity = 1
  MaxRetired = 2
  ControlCapacity = 1
  FirstControlCapacity = 2
INVARIANTS Safety
PROPERTIES ImplementsWindow NoWaiterLost
CHECK_DEADLOCK FALSE
