\* A ring of 4 that grows by 2 to 8, two models of up to three copies of 3,
\* 8 or too much, batches of 7, and one wait that times out or call that fails.
SPECIFICATION Spec
CONSTANTS
    InitialCapacity = 4
    Growth = 2
    MaxCapacity = 8
    MaxBatchBytes = 7
    Alignment = 2
    Sizes = {3, 8, 9}
    MaxModels = 2
    MaxCopies = 3
    MaxFaults = 1
INVARIANTS
    TypeOK
    CopiesAreDisjoint
    SourceOutlivesCopies
    DestinationOutlivesCopies
    UsedBytesBalance
PROPERTIES
    ModelIsCopied
    QueuedModelArrives
