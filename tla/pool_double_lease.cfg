SPECIFICATION Spec
CONSTANTS
    s1 = s1
    s2 = s2
    s3 = s3
    Sessions <- TwoSessions
    PoolSize = 2
    ExitAfterUse = FALSE
    WorkerFaults = TRUE
    MaxLaunchFailures = 0
SYMMETRY SessionSymmetry
INVARIANT ExclusiveLease
