SPECIFICATION RetrySpec
CONSTANTS
    Tasks = {t1, t2, t3}
    SlowTasks = FALSE
    MaxCrashes = 2
    MaxFaults = 2
INVARIANT OwnerHoldsLock
PROPERTIES StatusLifecycle StaleJobSettles
