SPECIFICATION FairSpec
CONSTANTS
    c1 = c1
    c2 = c2
    c3 = c3
    Callers <- MCCallers
    FailureThreshold = 3
    RecoverySeconds = 4
    FailureCap = 4
INVARIANT
    CountMatchesState
PROPERTY
    NotStuckOpen
