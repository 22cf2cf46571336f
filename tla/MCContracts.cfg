SPECIFICATION Spec
CONSTANTS
  MaxHops = 2
  Surprise = "surprise"
  MaxTokens = 8
  MaxDepth = 3
  Length = 4
  Repetitions <- SomeRepetitions
  CodeUnits <- ByCodeUnits
  Collation <- ByCollation
  Contracts <- SomeContracts
  Instances = {"p", "q"}
  RouteIds = {"r", "s", "t"}
  EndpointIds <- SomeEndpoints
  Definitions <- SomeDefinitions
  MaxDeclared = 2
  MaxRoutes = 3
  MaxEndpoints = 2
  ChainLength = 3
  MaxTime = 3
  MaxBudget = 3
  TokenLimit = 256
  RootLengths = {36, 234}
  PartLengths = {11, 12}
  LongestPart = 12
  DetailLimit = 4
  Causes <- SomeCauses
INVARIANTS TypesOK DomainErrorsSurvive AnswersAreGiven PatternUnambiguous
INVARIANTS BoundAsDeclared ScopesNarrow RefusedExactly FailuresRelayed
CHECK_DEADLOCK FALSE
