SPECIFICATION Spec
CONSTANTS
    DELAY_SLOT_COUNT = 4
    Literals = {"ab", "c"}
    Length <- LengthDef
    Delayed = {1, 2, 3}
    LiteralOf <- LiteralOfDef
    Delay <- DelayDef
    Anchored = {"x"}
    AnchoredDistance = 5
    FloatingMinLiteralMatchOffset = 3
    MaxFloatingDelayedMatch = 8
    MaxText = 9
    MaxEnds = 3
INVARIANTS
    TypeOK
    EachRunsOnceWhenDue
    RunInOrder
CHECK_DEADLOCK FALSE
