CONSTANTS
    s1 = s1  s2 = s2  x1 = x1  x2 = x2
    Streams = {}
    Scratches = {x1}
    ScratchOf <- SharedScratch
    BlockScratches = {x1}
    LKeyCount = 3
    LogicalTree <- MCTree
    CombInfo <- MCCombInfo
    ZeroKeys = {0}
    EodKeys = {2}
    TailKeys = {}
    Quiet = {}
    OffsetAdjust <- Unadjusted
    RuntimeImpl = "FULL_ROSE"
    OutfixDies = FALSE
    RequiresEodCheck = FALSE
    AnchoredDistance = 3
    MinWidth = 0
    MinWidthExcludingBoundaries = 0
    MaxBiAnchoredWidth = 3
    LargestBuffer = 0
    MaxOffset = 3
    NoCall = NoCall
SPECIFICATION Spec
PROPERTY SilentAfterStop
CHECK_DEADLOCK FALSE
