SPECIFICATION Spec
CONSTANTS
  Inspections = {i1, i2, i3}
  Revisions = {r1, r2}
  MaxOutstanding = 2
INVARIANTS Safety
PROPERTIES StartAnswers EndReachesEveryone
CHECK_DEADLOCK FALSE
