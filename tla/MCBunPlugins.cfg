SPECIFICATION Spec
CONSTANTS
  Sends = {s1, s2}
  Receives = {r1, r2}
  Messages = 1
  MaxOutbound = 2
  Ids = {i1, i2, i3}
  Activations = {"a1", "a2"}
  Shutdowns = {"m1", "m2"}
  Dependencies <- TwoDependencies
  Imports <- SomeImports
  MaxConcurrent = 2
  MaxRetired = 2
  MaxSessions = 2
  MaxServed = 4
INVARIANTS StreamSafety LegacySafety
PROPERTIES FailureIsFinal AbortReachesProvider NoAnswerAfterShutdown IdsComeBackLate
CHECK_DEADLOCK FALSE
