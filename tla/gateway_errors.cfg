SPECIFICATION Spec
CONSTANTS
    high = high
    fast = fast
    Aliases <- MCAliases
    Fallback <- MCFallback
    Schemas = {story}
    Calls = {c1, c2}
    Threshold = 3
    Window = 1
    MaxAttempts = 2
    OtherErrors = TRUE
SYMMETRY CallSymmetry
INVARIANT ClosedBelowThreshold
PROPERTY PostsRunOut LadderInOrder
