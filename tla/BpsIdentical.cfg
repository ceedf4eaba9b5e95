SPECIFICATION Spec
CONSTANTS
    DigitBits = 2
    Width = 7
    InAddress = 16
    PatchAddress = 8
    FirstBuffer = 8
    Crc <- MCCrc
    Beyond <- Apart
    Pairs <- ShortPairs
    Inputs = {}
    Foreign = {}
    Junk <- MCJunk
INVARIANT IdenticalVerdict
