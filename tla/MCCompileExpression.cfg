SPECIFICATION CompileSpec
CONSTANTS
    x = x
    c = c
    p = p
    xs = xs
    f = f
    g = g
    CharBit = 2
    SizeOf <- MCSizeOf
    PointerSize = 8
    Variables <- MCVariables
    TypeOf <- MCTypeOf
    Functions <- MCFunctions
    Text <- MCText
    Registers <- MCRegisters
    NoRegister = 0
    NoResult = 0
    Bodies <- MCBodies
    Programs <- MCPrograms
    Samples <- MCSamples
INVARIANTS
    TypeOK
    BodyWellFormed
    NothingMissing
    NeverBelowZero
    AllocationMapAgrees
    WidthsAgree
    ValuePreserved
CHECK_DEADLOCK FALSE
