SPECIFICATION EncodingSpec
CONSTANTS
    Registers <- MCRegisters
    Displacements <- MCDisplacements
    Immediates <- MCImmediates
    Counts <- MCCounts
    Offsets <- MCOffsets
    IndexedMemories <- MCIndexedMemories
INVARIANTS
    TypeOK
    DecodesAsMeant
CHECK_DEADLOCK FALSE
