SPECIFICATION FairSpec
CONSTANTS
    r1 = r1
    r2 = r2
    r3 = r3
    Requests <- MCRequests
    Body <- MCBody
    MaxFaults = 2
    MaxCrashes = 1
    MaxDeletes = 1
INVARIANTS OneJobPerKey CreatedIsScheduled
PROPERTIES KeepsPromise RequestsAnswered
\* When every request is answered nothing is left to do.
CHECK_DEADLOCK FALSE
