SPECIFICATION Spec
CONSTANTS
    DkeyCount = 3
    SomKeys = {1, 2}
    U64 = 16
    MaxOffset = 3
    MaxRaised = 3
INVARIANTS
    TypeOK
    DeliversLeftmost
    DeliversOnce
