CONSTANTS
    rax = rax
    rcx = rcx
    rdx = rdx
    Pool <- MCPool
    VirtualRegisters = {v1, v2, v3}
    ScratchOwners = {s1, s2}
    None = None
SPECIFICATION Spec
CHECK_DEADLOCK FALSE
INVARIANTS
    TypeOK
    MapsAreInverse
    ScratchIsHeld
    ScratchIsReturned
PROPERTY
    ReservedStaysVacant
