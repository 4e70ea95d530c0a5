CONSTANTS
    rax = rax
    rcx = rcx
    rdx = rdx
    r10 = r10
    rbx = rbx
    Pool <- MCPool5
    CalleeSaved = {rbx}
    ParamRegisters <- MCParams2
    Rax = rax
    Rcx = rcx
    Rdx = rdx
    Temporaries = {10, 11, 12, 13, 14, 15}
    Variables = {1, 2}
    Large = {}
    ObjectSize <- NoObjects
    Guards = {90, 91, 92, 93, 94, 95}
    InlineLimit = 128
    None = None
    Modulus = 256
    Spillages <- MCSpillages
    MemoryLength = 0
    SpillageChoices = {"None"}
    MayFollow <- MCMayFollow
    Narrow = 16
    Trees = TRUE
    WideLiterals = FALSE
    Before = 4
    After = 0
    Arguments = 2
    Operations = {"shl"}
    Complements = {"neg"}
    Calling = TRUE
    BodyLength = 0
    StraightOperations = {}
    StraightConversions = {}
    Looped = FALSE
    Outer = 0
    Inner = 0
    LoopOperations = {}
    LoopConversions = {}
SPECIFICATION Spec
CHECK_DEADLOCK FALSE
INVARIANTS
    ArgumentsIntact
