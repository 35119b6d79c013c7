CONSTANTS
    max_level = 2
    MMB_KEY_BITS = 2
    total_bits = 7
    ByteBits = 1
    WideKeyBits = 4
    WideByteBits = 2
    Digit <- MCDigit
    Keys <- MCKeys
    Ranges <- MCRanges
    Iters <- MCIters
    Memories <- MCMemories
SPECIFICATION ScanSpec
VIEW Memory
INVARIANTS
    ScansAreExact
    ArithmeticIsExact
PROPERTY ImplementsKeySet
