CONSTANTS
    rax = rax
    rcx = rcx
    rdx = rdx
    r10 = r10
    rbx = rbx
    Pool <- MCPool5
    CalleeSaved = {rbx}
    ParamRegisters <- MCParams2
    Rax = rax
    Rcx = rcx
    Rdx = rdx
    Temporaries = {10, 11, 12, 13, 14, 20}
    Variables = {1, 2, 3, 5}
    Large = {3, 5, 20}
    ObjectSize <- MCObjectSize
    Guards = {90, 91, 92, 93, 94, 95}
    InlineLimit = 16
    None = None
    Modulus = 256
    Spillages <- MCSpillages
    MemoryLength = 3
    SpillageChoices = {"None", "Moderate"}
    MayFollow <- MCMayFollow
    Narrow = 16
    Trees = FALSE
    WideLiterals = FALSE
    Before = 3
    After = 1
    Arguments = 3
    Operations = {"add", "and", "or"}
    Complements = {"neg", "not"}
    Calling = TRUE
    BodyLength = 0
    StraightOperations = {}
    StraightConversions = {}
    Looped = FALSE
    Outer = 0
    Inner = 0
    LoopOperations = {}
    LoopConversions = {}
SPECIFICATION Spec
CHECK_DEADLOCK FALSE
INVARIANTS
    ArgumentsIntact
    MemoryAgrees
    SameObservations
