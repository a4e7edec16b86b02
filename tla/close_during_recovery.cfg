SPECIFICATION FairSpec
CONSTANTS
    MaxEvents = 1
    MaxBatches = 1
    CountCap = 1
PROPERTIES
    CloseEnds
CHECK_DEADLOCK FALSE
