SPECIFICATION Spec
CONSTANTS
  Attempts = {a1}
  Invokes = {i1}
  Opens = {s1, s2, s3}
  Publications = {p1, p2}
  Calls = {k1}
  MaxActive = 2
  MaxUnfinished = 1
  MaxRetired = 2
  MaxQueued = 1
  MaxOutbound = 1
SYMMETRY Symmetric
INVARIANTS Safety
PROPERTIES ServedOnce CancelledOpensNothing
CHECK_DEADLOCK FALSE
