SPECIFICATION FairSpec
CONSTANTS
    s1 = s1
    s2 = s2
    s3 = s3
    Sessions <- ThreeSessions
    PoolSize = 2
    ExitAfterUse = FALSE
    WorkerFaults = TRUE
    MaxLaunchFailures = 2
INVARIANTS
    TypeOK
    NoSlotLeak
    NoLeaseOutlivesPool
PROPERTIES
    AcquireReturns
CHECK_DEADLOCK FALSE
