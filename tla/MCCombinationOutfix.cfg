CONSTANTS
    s1 = s1  s2 = s2  x1 = x1  x2 = x2
    Streams = {s1}
    Scratches = {x1}
    ScratchOf <- SharedScratch
    BlockScratches = {}
    LKeyCount = 3
    LogicalTree <- MCTree
    CombInfo <- MCCombInfo
    ZeroKeys = {}
    EodKeys = {}
    TailKeys = {}
    Quiet = {0, 2}
    OffsetAdjust <- Unadjusted
    RuntimeImpl = "SINGLE_OUTFIX"
    OutfixDies = TRUE
    RequiresEodCheck = FALSE
    AnchoredDistance = 3
    MinWidth = 0
    MinWidthExcludingBoundaries = 0
    MaxBiAnchoredWidth = 3
    LargestBuffer = 0
    MaxOffset = 3
    NoCall = NoCall
SPECIFICATION Spec
INVARIANT NoneMissed
CHECK_DEADLOCK FALSE
