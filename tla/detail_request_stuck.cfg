SPECIFICATION FairSpec
CONSTANTS
    Regions <- TwoRegions
    Cost <- TwoCosts
    Fallbacks <- NoFallbacks
    ConstantBytes = 1
    ReservedBytes = 2
    TextureBytes = 1
    Targets = {8}
    Views <- ThreeViews
    FrameSlots = 2
    MaxCandidates = 1
    MaxRequests = 3
    MaxChanges = 1
    Faults = FALSE
PROPERTIES
    CompletesAgain
