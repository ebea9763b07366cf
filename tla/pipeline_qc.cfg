SPECIFICATION Spec
CONSTANTS
  NBeats = 4
  MaxRepairs = 2
  SchemaAttempts = 3
  Scores <- MCScores
  PassScore <- MCPassScore
  Signatures <- MCSignatures
  Features <- MCFeatures
  Conditioning = {TRUE, FALSE}
  ClipUsd = 3
  CallUsd = 1
  MaxUsd = 34
  MaxIterations = 19
  MaxCrashes = 0
  LateCheckpoints = FALSE
INVARIANTS
  TypeOK
  SuccessIsComplete
  KeptClipIsBest
  DegradedOnlyAfterCap
  ShotsInOrder
  BudgetRespected
  PartialIsDelivered
  OnlyDegradedBreaksChain
PROPERTIES
  RunAdvances
\* A settled job stops.
CHECK_DEADLOCK FALSE
