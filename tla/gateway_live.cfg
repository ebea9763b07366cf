SPECIFICATION FairSpec
CONSTANTS
    high = high
    fast = fast
    Aliases <- MCAliases
    Fallback <- MCFallback
    Schemas = {story}
    Calls = {c1, c2}
    Threshold = 1
    Window = 1
    MaxAttempts = 2
    OtherErrors = FALSE
INVARIANT HalfOpenHasProbe
PROPERTY CallEnds
