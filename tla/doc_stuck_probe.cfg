SPECIFICATION FairSpec
CONSTANTS
    high = high
    fast = fast
    Aliases <- MCAliases
    Fallback <- MCFallback
    Schemas = {story}
    Calls = {c1}
    Threshold = 2
    Window = 1
    MaxAttempts = 2
    OtherErrors = TRUE
PROPERTY HalfOpenIsDecided
