CONSTANTS
    s1 = s1  s2 = s2  x1 = x1  x2 = x2
    Streams = {s1}
    Scratches = {x1}
    ScratchOf <- SharedScratch
    BlockScratches = {}
    LKeyCount = 3
    LogicalTree <- MCTree
    CombInfo <- MCCombInfo
    ZeroKeys = {}
    EodKeys = {2}
    TailKeys = {}
    Quiet = {0, 2}
    OffsetAdjust <- Unadjusted
    RuntimeImpl = "PURE_LITERAL"
    OutfixDies = FALSE
    RequiresEodCheck = FALSE
    AnchoredDistance = 4
    MinWidth = 0
    MinWidthExcludingBoundaries = 0
    MaxBiAnchoredWidth = 4
    LargestBuffer = 0
    MaxOffset = 4
    NoCall = NoCall
SPECIFICATION Spec
INVARIANTS
    TypeOK
    RaisedWhereDue
    NoneMissed
    NegativesRaised
PROPERTY SilentAfterStop
CHECK_DEADLOCK FALSE
