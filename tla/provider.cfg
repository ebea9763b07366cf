CONSTANTS
    a = a
    b = b
    Calls <- MCCalls
    MaxAttempts = 2
    MaxPolls = 2
    MaxFaults = 1
    MaxExpiries = 1
SPECIFICATION FairSpec
INVARIANT SessionKept
PROPERTIES BuysAsPromised GoesForward CallEnds
\* The system rests when both calls have ended.
CHECK_DEADLOCK FALSE
