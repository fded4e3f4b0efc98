SPECIFICATION Spec
CONSTANTS
    kafka = kafka
    webhook = webhook
    NumRecords = 4
    NumPayloads = 2
    LastOf <- FourLastOf
    Kind <- FourKinds
    Ind <- FourInd
    Publishers <- TwoPublishers
    Tlp <- FourTlp
    MaxTlp <- TwoMaxTlp
    QueueMax = 1
    BatchSize = 2
    SkipOnError = FALSE
    Faults <- PluginFaults
    Cancellable = TRUE
INVARIANTS
    TypeOK
    DurabilityFence
    PersistInOrder
    FanOutInOrder
    SuccessIsComplete
    NothingLost
    NeverStalls
PROPERTIES
    ImplementsContract
CHECK_DEADLOCK FALSE
