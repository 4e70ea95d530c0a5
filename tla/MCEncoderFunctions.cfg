CONSTANTS
    rax = rax
    rcx = rcx
    rdx = rdx
    r10 = r10
    rbx = rbx
    Pool <- MCPool4
    CalleeSaved = {rbx}
    ParamRegisters <- MCParams2
    Rax = rax
    Rcx = rcx
    Rdx = rdx
    Temporaries = {10, 11, 12, 13, 14}
    Variables = {1, 2}
    Large = {}
    ObjectSize <- NoObjects
    Guards = {90, 91, 92, 93, 94}
    InlineLimit = 128
    None = None
    Modulus = 256
    Spillages <- MCSpillages
    MayFollow <- MCMayFollow
    Narrow = 16
    Trees = FALSE
    WideLiterals = FALSE
    BodyLength = 4
    StraightOperations = {"sub", "shl"}
    StraightConversions = {"movsx"}
    Looped = TRUE
    Outer = 2
    Inner = 2
    LoopOperations = {"xor", "shr"}
    LoopConversions = {"movzx"}
    SpillageChoices = {"Moderate"}
    Calling = FALSE
    Before = 0
    After = 0
    Arguments = 0
    Operations = {}
    Complements = {}
    MemoryLength = 0
SPECIFICATION Spec
CHECK_DEADLOCK FALSE
INVARIANTS
    TypeOK
    Coherent
    UsesCoverReaders
    AllocatorAgrees
    NoAssertionFails
    SameObservations
    LiveOutIsStored
