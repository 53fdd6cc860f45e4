\* A source whose answer is wrong. Others: Sources <- MCOuterJoin, MCProjection
\* or MCHavingIn; and with MCAnalyzed, EveryBoundIsExact is violated.
CONSTANTS
  IntMax = 100
  ExactInDouble = 8
  MaxTablesToEnumerate = 3
  MaxRows = 12
  MaxExpressionDepth = 3
  StatisticsTarget = 2
  EqGuess = 20
  LeastShare = 100
  CaseFold <- MCCaseFold
  Sources <- MCInNull
  Databases <- MCDatabases
  Probes <- MCProbes
SPECIFICATION Spec
INVARIANT AnswerIsRight
CHECK_DEADLOCK FALSE
