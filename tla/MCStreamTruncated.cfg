SPECIFICATION Spec
CONSTANTS
    Bytes <- Letters
    Applications <- TruncatedApplications
    HistoryRequired = 2
    U32 = 2
    Junk = junk
    MaxText = 4
    MaxWrite = 2
INVARIANTS
    HistoryIsTail
