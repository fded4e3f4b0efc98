SPECIFICATION FairSpec
CONSTANTS
    w1 = w1
    w2 = w2
    s1 = s1
    s2 = s2
    r1 = r1
    r2 = r2
    r3 = r3
    Procs <- OneProc
    Sources <- TwoSources
    Runs <- ThreeRuns
    GlobalMax = 2
    MaxParallel = 1
    MaxAttempts = 2
    MaxVersion = 2
    FailureThreshold = 1
    RecoverySeconds = 2
    FailureCap = 1
    Errors = {"other"}
    CanHang = TRUE
    CanCancel = FALSE
    CanCrash = FALSE
    CanBackfill = FALSE
INVARIANTS
    SomeHolderMoves
PROPERTIES
    CoolDown
    RunsEnd
