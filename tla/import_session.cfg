SPECIFICATION FairSpec
CONSTANTS
    MaxGenerations = 2
    MaxWorkerBatches = 2
    BatchCap = 2
    SidecarCap = 1
    DetailCap = 1
    WorkerFaults = TRUE
INVARIANTS
    TypeOK
    DeliveredAsAnnounced
    StopsPromptly
    ReuseIsQuiet
    HandshakeNeverStalls
PROPERTIES
    GenerationEnds
    ImplementsDelivery
CHECK_DEADLOCK FALSE
