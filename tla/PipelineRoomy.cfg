SPECIFICATION FairSpec
CONSTANTS
    kafka = kafka
    webhook = webhook
    NumRecords = 4
    NumPayloads = 1
    LastOf <- BadLastOf
    Kind <- BadKinds
    Ind <- BadInd
    Publishers <- OnePublisher
    Tlp <- BadTlp
    MaxTlp <- OneMaxTlp
    QueueMax = 5
    BatchSize = 2
    SkipOnError = FALSE
    Faults <- PluginFaults
    Cancellable = TRUE
PROPERTY
    Termination
