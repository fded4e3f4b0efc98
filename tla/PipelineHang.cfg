SPECIFICATION FairSpec
CONSTANTS
    kafka = kafka
    webhook = webhook
    NumRecords = 3
    NumPayloads = 1
    LastOf <- ThreeLastOf
    Kind <- ThreeKinds
    Ind <- ThreeInd
    Publishers <- OnePublisher
    Tlp <- ThreeTlp
    MaxTlp <- OneMaxTlp
    QueueMax = 1
    BatchSize = 2
    SkipOnError = FALSE
    Faults <- PluginFaults
    Cancellable = FALSE
PROPERTY
    Termination
CHECK_DEADLOCK FALSE
