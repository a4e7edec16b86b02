SPECIFICATION FairSpec
CONSTANTS
    s1 = s1
    s2 = s2
    s3 = s3
    Sessions <- ThreeSessions
    PoolSize = 1
    ExitAfterUse = TRUE
    WorkerFaults = TRUE
    MaxLaunchFailures = 1
INVARIANTS
    ExclusiveLease
    NoDirtyReuse
    NoSpuriousLaunchFailure
PROPERTIES
    AcquireReturns
    ShutdownCompletes
