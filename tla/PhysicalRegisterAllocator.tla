---------------------- MODULE PhysicalRegisterAllocator ----------------------
(***************************************************************************)
(* The table of physical registers of the x86-64 encoder (class            *)
(* PhysicalRegisterAllocator, Core/encoder.h) with its three kinds of      *)
(* client: virtual registers, the reservations made by Lock, and the       *)
(* ScratchRegister guards of MemoryOperations.h that own a register until  *)
(* they are destroyed or committed.                                        *)
(*                                                                         *)
(* The two maps of the class are total functions here: a register that is  *)
(* not a key of _occupancy maps to None, an owner that is not a key of     *)
(* _colourOf maps to None.                                                 *)
(***************************************************************************)
EXTENDS Naturals, Sequences

CONSTANTS
    Pool,             \* _pool: the allocatable registers in the order they are tried
    VirtualRegisters, \* indices of virtual registers
    ScratchOwners,    \* the synthetic indices handed out by NextScratchOwner
    None              \* absence: std::nullopt, or no entry in a map

Registers == {Pool[i] : i \in DOMAIN Pool}
Owners == VirtualRegisters \cup ScratchOwners

ASSUME PoolAssumption == Pool \in Seq(Registers)
ASSUME NoneAssumption == None \notin Registers \cup Owners
ASSUME OwnersAssumption == VirtualRegisters \cap ScratchOwners = {}

VARIABLES
    occupancy, \* _occupancy: register -> owner
    colourOf,  \* _colourOf: owner -> register
    preferred, \* _preferred
    locked,    \* _lockedRegisters of the encoder, read through the predicate _reserved
    evictable, \* _evictable of the encoder, read by the exhaustion handler
    scratch,   \* live ScratchRegister objects: owner -> the register they name
    threw      \* an assertion or "Out of physical registers" ended the compilation

vars == <<occupancy, colourOf, preferred, locked, evictable, scratch, threw>>

TypeOK ==
    /\ occupancy \in [Registers -> Owners \cup {None}]
    /\ colourOf \in [Owners -> Registers \cup {None}]
    /\ preferred \in Registers \cup {None}
    /\ locked \in SUBSET Registers
    /\ evictable \in SUBSET VirtualRegisters
    /\ scratch \in [ScratchOwners -> Registers \cup {None}]
    /\ threw \in BOOLEAN

Init ==
    /\ occupancy = [r \in Registers |-> None]
    /\ colourOf = [o \in Owners |-> None]
    /\ preferred = None
    /\ locked = {}
    /\ evictable = {}
    /\ scratch = [s \in ScratchOwners |-> None]
    /\ threw = FALSE

-----------------------------------------------------------------------------
(* Allocate *)

IsReserved(r) == r \in locked
\* Mutant: the lock of a register is not looked at.
AvailableIfVacant(r) == occupancy[r] = None

Available(r) == occupancy[r] = None /\ ~IsReserved(r)

\* The register an allocation picks while one is available: the preferred one
\* if it can be had, else the first of the pool.
PreferredAvailable == preferred # None /\ Available(preferred)
Chosen(r) ==
    IF PreferredAvailable
    THEN r = preferred
    ELSE \E i \in DOMAIN Pool :
            /\ r = Pool[i]
            /\ Available(r)
            /\ \A j \in 1..(i - 1) : ~Available(Pool[j])

Claim(owner, r) ==
    /\ occupancy' = [occupancy EXCEPT ![r] = owner]
    /\ colourOf' = [colourOf EXCEPT ![owner] = r]

\* Mutant: whoever is not required may lose its register, guards included.
VictimsOfAnyKind == {o \in evictable \cup ScratchOwners : colourOf[o] # None /\ ~IsReserved(colourOf[o])}

\* What the handler set by SetExhaustionHandler may evict: an evictable owner
\* whose register is not locked.  Which one EvictOne takes (the furthest next
\* use) is the encoder's business; the table must be right for every choice.
Victims == {v \in evictable : colourOf[v] # None /\ ~IsReserved(colourOf[v])}

\* The handler frees the victim's register and the loop claims it: no other
\* register has become available.
ClaimAfterEviction(owner, victim) ==
    LET r == colourOf[victim] IN
    /\ occupancy' = [occupancy EXCEPT ![r] = owner]
    /\ colourOf' = [colourOf EXCEPT ![victim] = None, ![owner] = r]
    /\ evictable' = evictable \ {victim}

\* Allocate(owner), returning r.
AllocateTo(owner, r) ==
    \/ Chosen(r) /\ Claim(owner, r) /\ UNCHANGED evictable
    \/ /\ \A q \in Registers : ~Available(q)
       /\ \E v \in Victims : r = colourOf[v] /\ ClaimAfterEviction(owner, v)

CanAllocate == Victims # {} \/ \E q \in Registers : Available(q)

Throw ==
    /\ threw' = TRUE
    /\ UNCHANGED <<occupancy, colourOf, preferred, locked, evictable, scratch>>

\* A materialisation allocates for a virtual register.
Allocate(v) ==
    /\ colourOf[v] = None
    /\ \E r \in Registers : AllocateTo(v, r)
    /\ UNCHANGED <<preferred, locked, scratch, threw>>

\* "Virtual register already holds a physical colour", or nothing is evictable.
AllocateThrows(v) == (colourOf[v] # None \/ ~CanAllocate) /\ Throw

-----------------------------------------------------------------------------
(* Free and Reassign *)

FreeOwner(owner) ==
    IF colourOf[owner] = None
    THEN UNCHANGED <<occupancy, colourOf>>
    ELSE /\ occupancy' = [occupancy EXCEPT ![colourOf[owner]] = None]
         /\ colourOf' = [colourOf EXCEPT ![owner] = None]

\* ReleaseRegister, Redefine, Evict and PrepareForCall free a virtual register.
Free(v) ==
    /\ FreeOwner(v)
    /\ UNCHANGED <<preferred, locked, evictable, scratch, threw>>

\* Mutant: the table is not told that the register left its owner.
ReassignKeepingFrom(from, to) ==
    /\ occupancy' = [occupancy EXCEPT ![colourOf[from]] = to]
    /\ colourOf' = [colourOf EXCEPT ![to] = colourOf[from]]

ReassignOwner(from, to) ==
    /\ occupancy' = [occupancy EXCEPT ![colourOf[from]] = to]
    /\ colourOf' = [colourOf EXCEPT ![from] = None, ![to] = colourOf[from]]

\* The two assertions of Reassign.
CanReassign(from, to) == colourOf[from] # None /\ colourOf[to] = None

\* TransferRegister.
Reassign(from, to) ==
    /\ from # to
    /\ IF CanReassign(from, to)
       THEN /\ ReassignOwner(from, to)
            /\ UNCHANGED <<preferred, locked, evictable, scratch, threw>>
       ELSE Throw

-----------------------------------------------------------------------------
(* ScratchRegister *)

Live(s) == scratch[s] # None

\* ScratchRegister{allocator}: NextScratchOwner never repeats, so the owner is
\* one that holds nothing.
NewScratch(s) ==
    /\ ~Live(s) /\ colourOf[s] = None
    /\ \E r \in Registers : AllocateTo(s, r) /\ scratch' = [scratch EXCEPT ![s] = r]
    /\ UNCHANGED <<preferred, locked, threw>>

\* ScratchRegister::Take.
TakeScratch(s, from) ==
    /\ ~Live(s) /\ colourOf[s] = None
    /\ IF colourOf[from] = None
       THEN Throw
       ELSE /\ ReassignOwner(from, s)
            /\ scratch' = [scratch EXCEPT ![s] = colourOf[from]]
            /\ UNCHANGED <<preferred, locked, evictable, threw>>

\* ScratchRegister::Commit disarms the guard and hands the register on.
CommitScratch(s, to) ==
    /\ Live(s)
    /\ IF CanReassign(s, to)
       THEN /\ ReassignOwner(s, to)
            /\ scratch' = [scratch EXCEPT ![s] = None]
            /\ UNCHANGED <<preferred, locked, evictable, threw>>
       ELSE Throw

\* Mutant: the destructor forgets to free.
DestroyWithoutFree(s) ==
    /\ Live(s)
    /\ scratch' = [scratch EXCEPT ![s] = None]
    /\ UNCHANGED <<occupancy, colourOf, preferred, locked, evictable, threw>>

\* ~ScratchRegister of a guard that was not committed.
DestroyScratch(s) ==
    /\ Live(s)
    /\ FreeOwner(s)
    /\ scratch' = [scratch EXCEPT ![s] = None]
    /\ UNCHANGED <<preferred, locked, evictable, threw>>

-----------------------------------------------------------------------------
(* What the encoder does to the allocator's inputs *)

\* Mutant: the snapshot is used as it is, guards that are still held included.
BeginWithSnapshot ==
    /\ \E required \in SUBSET VirtualRegisters :
          evictable' = {o \in Owners \ required : colourOf[o] # None}
    /\ UNCHANGED <<occupancy, colourOf, preferred, locked, scratch, threw>>

\* EncodeSingle and FlushLiveOut recompute _evictable from Snapshot, leaving out
\* the owners the instruction requires.  Guards are local to one instruction.
BeginInstruction ==
    /\ \A s \in ScratchOwners : ~Live(s)
    /\ \E required \in SUBSET VirtualRegisters :
          evictable' = {v \in VirtualRegisters \ required : colourOf[v] # None}
    /\ UNCHANGED <<occupancy, colourOf, preferred, locked, scratch, threw>>

Prefer(r) ==
    /\ preferred' = r
    /\ UNCHANGED <<occupancy, colourOf, locked, evictable, scratch, threw>>

ClearPreference ==
    /\ preferred' = None
    /\ UNCHANGED <<occupancy, colourOf, locked, evictable, scratch, threw>>

Lock(r) ==
    /\ locked' = locked \cup {r}
    /\ UNCHANGED <<occupancy, colourOf, preferred, evictable, scratch, threw>>

Unlock(r) ==
    /\ locked' = locked \ {r}
    /\ UNCHANGED <<occupancy, colourOf, preferred, evictable, scratch, threw>>

-----------------------------------------------------------------------------

VirtualRegisterStep ==
    \E v \in VirtualRegisters :
        \/ Allocate(v)
        \/ AllocateThrows(v)
        \/ Free(v)
        \/ \E w \in VirtualRegisters : Reassign(v, w)

ScratchStep ==
    \E s \in ScratchOwners :
        \/ NewScratch(s)
        \/ DestroyScratch(s)
        \/ \E v \in VirtualRegisters : TakeScratch(s, v) \/ CommitScratch(s, v)

EncoderStep ==
    \/ BeginInstruction
    \/ ClearPreference
    \/ \E r \in Registers : Prefer(r) \/ Lock(r) \/ Unlock(r)

Next == ~threw /\ (VirtualRegisterStep \/ ScratchStep \/ EncoderStep)

Spec == Init /\ [][Next]_vars

-----------------------------------------------------------------------------
(* Properties *)

\* The two maps stay inverse to each other: a register is never shared by two
\* owners, an owner never holds two registers, and neither map keeps an entry
\* the other has lost (Claim, Free and Reassign each update both).
MapsAreInverse ==
    \A r \in Registers, o \in Owners : occupancy[r] = o <=> colourOf[o] = r

\* The register a live ScratchRegister names is the one its owner holds: no
\* allocation, eviction or transfer of somebody else takes it away while
\* instructions that use AsOperand are being built.
ScratchIsHeld ==
    \A s \in ScratchOwners : Live(s) => colourOf[s] = scratch[s]

\* An owner index of a guard that is gone holds nothing, so the register of a
\* destroyed or committed guard is not lost to the pool.
ScratchIsReturned ==
    \A s \in ScratchOwners : ~Live(s) => colourOf[s] = None

\* A vacant register that is reserved stays vacant: whatever is preferred and
\* however short of registers the allocator is, it never hands out the register
\* an argument has already been placed in.
ReservedVacancyKept == \A r \in locked : occupancy[r] = None => occupancy'[r] = None
ReservedStaysVacant == [][ReservedVacancyKept]_vars
=============================================================================
