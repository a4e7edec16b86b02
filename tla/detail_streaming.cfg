SPECIFICATION FairSpec
CONSTANTS
    Regions <- TwoRegions
    Cost <- TwoCosts
    Fallbacks <- TwoFallbacks
    ConstantBytes = 1
    ReservedBytes = 2
    TextureBytes = 1
    Targets = {1, 4, 6}
    Views <- ThreeViews
    FrameSlots = 2
    MaxCandidates = 1
    MaxRequests = 3
    MaxChanges = 2
    Faults = TRUE
INVARIANTS
    TypeOK
    DrawnOnce
    DrawnOutlivesFrames
    OneOutstanding
PROPERTIES
    AdmissionFits
    CompleteIsBest
    TakenIsAnswered
