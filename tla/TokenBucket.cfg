SPECIFICATION FairWindowSpec
CONSTANTS
    c1 = c1
    c2 = c2
    c3 = c3
    c4 = c4
    Callers <- MCCallers
    Cost <- MCCost
    Rate = 2
    Burst = 5
    AgeCap = 3
    MaxSpan = 3
INVARIANTS
    WithinRate
PROPERTIES
    OversizedNeverReturns
    BucketIsIdeal
    Served
