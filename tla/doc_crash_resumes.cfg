SPECIFICATION FairSpec
CONSTANTS
  NBeats = 2
  MaxRepairs = 2
  SchemaAttempts = 3
  Scores <- MCScores
  PassScore <- MCPassScore
  Signatures <- MCSignatures
  Features <- MCAllOn
  Conditioning = {TRUE}
  ClipUsd = 3
  CallUsd = 1
  MaxUsd = 20
  MaxIterations = 12
  MaxCrashes = 1
  LateCheckpoints = TRUE
PROPERTIES
  CrashResumes
\* A settled job stops.
CHECK_DEADLOCK FALSE
