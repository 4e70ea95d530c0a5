SPECIFICATION CompileSpec
CONSTANTS
    x = x
    c = c
    p = p
    xs = xs
    f = f
    g = g
    CharBit = 2
    SizeOf <- MCSizeOf
    PointerSize = 8
    Variables <- MCVariables
    TypeOf <- MCUnsignedTypeOf
    Functions <- MCFunctions
    Text <- MCText
    Registers <- MCRegisters
    NoRegister = 0
    NoResult = 0
    Bodies = {}
    Programs <- MCWidening
    Samples <- MCSamples
INVARIANT ValuePreserved
CHECK_DEADLOCK FALSE
