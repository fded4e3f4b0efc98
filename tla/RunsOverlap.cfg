SPECIFICATION Spec
CONSTANTS
    w1 = w1
    w2 = w2
    s1 = s1
    s2 = s2
    r1 = r1
    r2 = r2
    r3 = r3
    Procs <- TwoProcs
    Sources <- OneSource
    Runs <- TwoRuns
    GlobalMax = 2
    MaxParallel = 1
    MaxAttempts = 2
    MaxVersion = 2
    FailureThreshold = 2
    RecoverySeconds = 1
    FailureCap = 2
    Errors = {"other"}
    CanHang = FALSE
    CanCancel = FALSE
    CanCrash = FALSE
    CanBackfill = FALSE
INVARIANTS
    NoOverlap
