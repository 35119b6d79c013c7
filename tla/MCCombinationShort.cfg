CONSTANTS
    s1 = s1  s2 = s2  x1 = x1  x2 = x2
    Streams = {}
    Scratches = {x1}
    ScratchOf <- SharedScratch
    BlockScratches = {x1}
    LKeyCount = 3
    LogicalTree <- MCTree
    CombInfo <- MCCombInfo
    ZeroKeys = {}
    EodKeys = {}
    TailKeys = {}
    Quiet = {0, 2}
    OffsetAdjust <- Unadjusted
    RuntimeImpl = "PURE_LITERAL"
    OutfixDies = FALSE
    RequiresEodCheck = FALSE
    AnchoredDistance = 3
    MinWidth = 2
    MinWidthExcludingBoundaries = 0
    MaxBiAnchoredWidth = 3
    LargestBuffer = 0
    MaxOffset = 3
    NoCall = NoCall
SPECIFICATION Spec
INVARIANT NegativesRaised
CHECK_DEADLOCK FALSE
