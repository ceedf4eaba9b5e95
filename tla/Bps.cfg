SPECIFICATION Spec
CONSTANTS
    DigitBits = 2
    Width = 7
    InAddress = 16
    PatchAddress = 8
    FirstBuffer = 8
    Crc <- MCCrc
    Beyond <- Apart
    Pairs <- MCPairs
    Inputs <- MCInputs
    Foreign <- MCForeign
    Junk <- MCJunk
INVARIANTS
    TypeOK PatchConverts WrongInputRejected CursorsInBounds BuffersHandedOver
    PatchHandedOver IdenticalAgrees InfoAgrees DisassemblyAgrees
PROPERTY CallsEnd
