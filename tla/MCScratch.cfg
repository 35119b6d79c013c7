CONSTANTS
    b1 = b1  b2 = b2  v = v  s = s
    Databases <- MCDatabases
    Rose <- MCRose
    Handles = {h1, h2}
    Blocks = {k1, k2}
    StreamHeader = 1
    NULL = NULL
    NoCall = NoCall
SPECIFICATION Spec
INVARIANTS
    TypeOK
    ServesEveryDatabase
    PointersOwnLiveBlocks
    MarkedExactlyWhileScanning
PROPERTY ScanKeepsItsScratch
