SPECIFICATION Spec
CONSTANTS
    Bytes <- Letters
    Applications <- AllApplications
    HistoryRequired = 2
    U32 = 100
    Junk = junk
    MaxText = 3
    MaxWrite = 2
INVARIANTS
    HistoryIsTail
    EvecRecordsReports
PROPERTY KeepsPromise
