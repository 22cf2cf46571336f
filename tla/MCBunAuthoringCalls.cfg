SPECIFICATION Spec
CONSTANTS
  Attempts = {a1}
  Invokes = {i1}
  Opens = {s1}
  Publications = {p1}
  Calls = {k1}
  MaxActive = 2
  MaxUnfinished = 1
  MaxRetired = 2
  MaxQueued = 1
  MaxOutbound = 1
PROPERTIES HostCallsAreActive
CHECK_DEADLOCK FALSE
