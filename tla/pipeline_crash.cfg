SPECIFICATION FairSpec
CONSTANTS
  NBeats = 2
  MaxRepairs = 2
  SchemaAttempts = 3
  Scores <- MCScores
  PassScore <- MCPassScore
  Signatures <- MCSignatures
  Features <- MCFeatures
  Conditioning = {TRUE}
  ClipUsd = 3
  CallUsd = 1
  MaxUsd = 20
  MaxIterations = 12
  MaxCrashes = 2
  LateCheckpoints = TRUE
INVARIANTS
  TextWrittenOnce
PROPERTIES
  StatusLifecycle
  JobSettles
\* A settled job stops.
CHECK_DEADLOCK FALSE
