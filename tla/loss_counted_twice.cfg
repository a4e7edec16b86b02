SPECIFICATION Spec
CONSTANTS
    MaxEvents = 2
    MaxBatches = 1
    CountCap = 1
INVARIANTS
    OneLossIsRecovered
CHECK_DEADLOCK FALSE
