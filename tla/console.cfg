SPECIFICATION FairSpec
CONSTANTS
    NJobs <- MCNJobs
    MaxGets = 1
    MaxFaults = 1
INVARIANTS WaitingIsWatched LeakNeedsOverlap
PROPERTY ButtonComesBack
\* The console rests when all jobs are over and nothing polls.
CHECK_DEADLOCK FALSE
