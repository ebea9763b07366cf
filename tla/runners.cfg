SPECIFICATION RunnersSpec
CONSTANTS
    Tasks = {t1, t2}
    SlowTasks = TRUE
    MaxCrashes = 1
    MaxFaults = 0
    NBeats = 1
    MaxIterations = 4
INVARIANTS ReleasedIsTerminal LossNeedsSlowRun ClipBoughtOnce
PROPERTY RunsJobLock
\* Safety properties: permuting the tasks changes nothing.
SYMMETRY TaskSymmetry
