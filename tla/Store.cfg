SPECIFICATION FairStoreSpec
CONSTANTS
    w1 = w1
    w2 = w2
    i1 = i1
    i2 = i2
    i3 = i3
    a = a
    b = b
    Writers <- TwoWriters
    Ids <- ThreeIds
    Value <- SharedValue
    Confidences = {10, 90}
    BatchSize = 2
    MaxBatches = 2
    MaxLag = 1
    Months = 3
    FirstMonths <- November
    LastMonth <- February
INVARIANTS
    TypeOK
    MaintainedIsCovered
    MaintenanceSucceeds
    StoredIffObserved
    RowSumsUp
PROPERTIES
    TransactionsEnd
