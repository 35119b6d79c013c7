CONSTANTS
    s1 = s1  s2 = s2  x1 = x1  x2 = x2
    Streams = {s1}
    Scratches = {x1, x2}
    ScratchOf <- SharedScratch
    BlockScratches = {x2}
    LKeyCount = 3
    LogicalTree <- MCTree
    CombInfo <- MCCombInfo
    ZeroKeys = {0}
    EodKeys = {}
    TailKeys = {2}
    Quiet = {0}
    OffsetAdjust <- Adjusted
    RuntimeImpl = "FULL_ROSE"
    OutfixDies = FALSE
    RequiresEodCheck = TRUE
    AnchoredDistance = 3
    MinWidth = 0
    MinWidthExcludingBoundaries = 1
    MaxBiAnchoredWidth = 2
    LargestBuffer = 2
    MaxOffset = 3
    NoCall = NoCall
SPECIFICATION Spec
INVARIANTS
    TypeOK
    RaisedWhereDue
    NoneMissed
    NegativesRaised
    LastCombInOrder
PROPERTY SilentAfterStop
CHECK_DEADLOCK FALSE
