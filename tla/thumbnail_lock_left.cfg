SPECIFICATION FairSpec
CONSTANTS
    p1 = p1
    p2 = p2
    Free = Free
    Providers = {p1, p2}
    step = step
    other = other
    Kinds = {step, other}
    Step = {step}
    Seekable = {step}
    Limit = 12
    Bytes <- SmallParts
    MaxUses <- FewUses
PROPERTIES
    CallsInFlightDrain
CHECK_DEADLOCK FALSE
