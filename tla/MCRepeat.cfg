SPECIFICATION Spec
CONSTANTS
    Word = 4
    RangeSlots = 8
    SparsePeriod = 1
    Repeats <- MCRepeats
    LastOffset = 15
VIEW Relevant
INVARIANTS
    StoreInBounds
    AnswersAreExact
    ReportsEveryMatch
CHECK_DEADLOCK FALSE
