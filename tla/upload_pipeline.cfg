SPECIFICATION FairSpec
CONSTANTS
    MaxEvents = 2
    MaxBatches = 2
    CountCap = 1
INVARIANTS
    TypeOK
    BudgetsBalance
    ReadyIsWhole
PROPERTIES
    OnlyNewestIsShown
    OpenIsAnswered
    StopEnds
CHECK_DEADLOCK FALSE
