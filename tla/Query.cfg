CONSTANTS
  IntMax = 100
  ExactInDouble = 8
  MaxTablesToEnumerate = 3
  MaxRows = 12
  MaxExpressionDepth = 3
  StatisticsTarget = 2
  EqGuess = 20
  LeastShare = 100
  CaseFold <- MCCaseFold
  Sources <- MCSources
  Databases <- MCDatabases
  Probes <- MCProbes
SPECIFICATION Spec
INVARIANTS
  FailuresLeaveNothing
  ParseInvertsPrint
  AnswerIsRight
  WritesAreExact
  EstimatesAreExact
CHECK_DEADLOCK FALSE
