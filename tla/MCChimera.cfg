SPECIFICATION Spec
CHECK_DEADLOCK FALSE
CONSTANTS
    Databases <- DatabasesDef
    Blocks <- BlocksDef
INVARIANTS
    TypeOK
    QueueSound
    GlobalMatches
    ResultTellsOutcome
    StartsAtCodepoint
PROPERTIES
    InOrder
    ScanReturns
