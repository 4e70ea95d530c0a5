------------------ MODULE PhysicalRegisterAllocator_proofs -------------------
(***************************************************************************)
(* Proofs about PhysicalRegisterAllocator for every pool, every set of     *)
(* virtual registers and every set of scratch owners.                      *)
(*                                                                         *)
(* The three safety invariants are inductive together with the types.      *)
(* Every step moves the two maps in one of three ways (a claim, a release, *)
(* a hand-over) or leaves them alone, so the preservation of the inverse   *)
(* property is proved once for each way.                                   *)
(***************************************************************************)
EXTENDS PhysicalRegisterAllocator, TLAPS

Inv == TypeOK /\ MapsAreInverse /\ ScratchIsHeld /\ ScratchIsReturned

\* The pool's elements are the registers.
LEMMA PoolElement == \A i \in DOMAIN Pool : Pool[i] \in Registers
  BY DEF Registers

\* A chosen register is a vacant, unreserved register of the machine.
LEMMA ChosenIsAvailable ==
  ASSUME TypeOK, NEW r, Chosen(r)
  PROVE  r \in Registers /\ Available(r)
<1>1. CASE PreferredAvailable
  BY <1>1 DEF Chosen, PreferredAvailable, TypeOK
<1>2. CASE ~PreferredAvailable
  BY <1>2, PoolElement DEF Chosen
<1> QED BY <1>1, <1>2

\* Claiming a vacant register for an owner without one keeps the maps inverse.
LEMMA ClaimInverse ==
  ASSUME TypeOK, MapsAreInverse,
         NEW owner \in Owners, NEW r \in Registers,
         occupancy[r] = None, colourOf[owner] = None,
         Claim(owner, r)
  PROVE  /\ occupancy' \in [Registers -> Owners \cup {None}]
         /\ colourOf' \in [Owners -> Registers \cup {None}]
         /\ MapsAreInverse'
  BY NoneAssumption DEF TypeOK, MapsAreInverse, Claim

\* Evicting a virtual register and claiming its register keeps the maps inverse.
LEMMA EvictionInverse ==
  ASSUME TypeOK, MapsAreInverse,
         NEW owner \in Owners, NEW victim \in VirtualRegisters,
         colourOf[victim] # None, colourOf[owner] = None,
         ClaimAfterEviction(owner, victim)
  PROVE  /\ occupancy' \in [Registers -> Owners \cup {None}]
         /\ colourOf' \in [Owners -> Registers \cup {None}]
         /\ MapsAreInverse'
<1>1. victim \in Owners /\ colourOf[victim] \in Registers
  BY NoneAssumption DEF TypeOK, Owners
<1> QED
  BY <1>1, NoneAssumption DEF TypeOK, MapsAreInverse, ClaimAfterEviction

\* Releasing an owner keeps the maps inverse.
LEMMA FreeInverse ==
  ASSUME TypeOK, MapsAreInverse, NEW owner \in Owners, FreeOwner(owner)
  PROVE  /\ occupancy' \in [Registers -> Owners \cup {None}]
         /\ colourOf' \in [Owners -> Registers \cup {None}]
         /\ MapsAreInverse'
         /\ colourOf' = [colourOf EXCEPT ![owner] = None]
  BY NoneAssumption DEF TypeOK, MapsAreInverse, FreeOwner

\* Handing a register on to an owner that has none keeps the maps inverse.
LEMMA ReassignInverse ==
  ASSUME TypeOK, MapsAreInverse,
         NEW from \in Owners, NEW to \in Owners, from # to,
         CanReassign(from, to), ReassignOwner(from, to)
  PROVE  /\ occupancy' \in [Registers -> Owners \cup {None}]
         /\ colourOf' \in [Owners -> Registers \cup {None}]
         /\ MapsAreInverse'
  BY NoneAssumption DEF TypeOK, MapsAreInverse, CanReassign, ReassignOwner

\* An allocation for an owner without a register gives it r, takes nothing from
\* any owner but an evictable virtual register, and keeps the maps inverse.
LEMMA AllocateEffect ==
  ASSUME TypeOK, MapsAreInverse,
         NEW owner \in Owners, NEW r \in Registers,
         colourOf[owner] = None, AllocateTo(owner, r)
  PROVE  /\ occupancy' \in [Registers -> Owners \cup {None}]
         /\ colourOf' \in [Owners -> Registers \cup {None}]
         /\ evictable' \in SUBSET VirtualRegisters
         /\ MapsAreInverse'
         /\ colourOf'[owner] = r
         /\ \A s \in ScratchOwners : s # owner => colourOf'[s] = colourOf[s]
<1>1. CASE Chosen(r) /\ Claim(owner, r) /\ UNCHANGED evictable
  <2>1. occupancy[r] = None
    BY <1>1, ChosenIsAvailable DEF Available
  <2>2. colourOf' = [colourOf EXCEPT ![owner] = r]
    BY <1>1 DEF Claim
  <2>3. evictable' \in SUBSET VirtualRegisters
    BY <1>1 DEF TypeOK
  <2>4. \A s \in ScratchOwners : s \in Owners
    BY DEF Owners
  <2>5. colourOf'[owner] = r /\ \A s \in ScratchOwners : s # owner => colourOf'[s] = colourOf[s]
    BY <2>2, <2>4 DEF TypeOK
  <2> QED
    BY <1>1, <2>1, <2>3, <2>5, ClaimInverse
<1>2. ASSUME NEW v \in Victims, r = colourOf[v], ClaimAfterEviction(owner, v)
      PROVE  /\ occupancy' \in [Registers -> Owners \cup {None}]
             /\ colourOf' \in [Owners -> Registers \cup {None}]
             /\ evictable' \in SUBSET VirtualRegisters
             /\ MapsAreInverse'
             /\ colourOf'[owner] = r
             /\ \A s \in ScratchOwners : s # owner => colourOf'[s] = colourOf[s]
  <2>1. v \in VirtualRegisters /\ colourOf[v] # None
    BY DEF Victims, TypeOK
  <2>2. colourOf' = [colourOf EXCEPT ![v] = None, ![owner] = r]
    BY <1>2 DEF ClaimAfterEviction
  <2>3. evictable' \in SUBSET VirtualRegisters
    BY <1>2 DEF ClaimAfterEviction, TypeOK
  <2>4. \A s \in ScratchOwners : s \in Owners /\ s # v
    BY <2>1, OwnersAssumption DEF Owners
  <2>5. colourOf'[owner] = r /\ \A s \in ScratchOwners : s # owner => colourOf'[s] = colourOf[s]
    BY <2>2, <2>4 DEF TypeOK
  <2> QED
    BY <1>2, <2>1, <2>3, <2>5, EvictionInverse
<1> QED
  BY <1>1, <1>2 DEF AllocateTo

\* The initial table satisfies the invariant.
LEMMA InitInv == Init => Inv
<1> SUFFICES ASSUME Init PROVE Inv
  OBVIOUS
<1>1. TypeOK
  BY DEF Init, TypeOK
<1>2. MapsAreInverse
  BY NoneAssumption DEF Init, MapsAreInverse
<1>3. ScratchIsHeld /\ ScratchIsReturned
  BY DEF Init, ScratchIsHeld, ScratchIsReturned, Live, Owners
<1> QED BY <1>1, <1>2, <1>3 DEF Inv

\* Every step of a virtual register preserves the invariant.
LEMMA VirtualRegisterInv == Inv /\ VirtualRegisterStep => Inv'
<1> SUFFICES ASSUME Inv, NEW v \in VirtualRegisters,
                    \/ Allocate(v)
                    \/ AllocateThrows(v)
                    \/ Free(v)
                    \/ \E w \in VirtualRegisters : Reassign(v, w)
             PROVE  Inv'
  BY DEF VirtualRegisterStep
<1>0. TypeOK /\ MapsAreInverse /\ ScratchIsHeld /\ ScratchIsReturned
  BY DEF Inv
<1>v. v \in Owners /\ v \notin ScratchOwners
  BY OwnersAssumption DEF Owners
<1>s. \A s \in ScratchOwners : s \in Owners /\ s # v
  BY <1>v DEF Owners
<1>1. CASE Allocate(v)
  <2>1. PICK r \in Registers : AllocateTo(v, r)
    BY <1>1 DEF Allocate
  <2>2. /\ occupancy' \in [Registers -> Owners \cup {None}]
        /\ colourOf' \in [Owners -> Registers \cup {None}]
        /\ evictable' \in SUBSET VirtualRegisters
        /\ MapsAreInverse'
        /\ \A s \in ScratchOwners : colourOf'[s] = colourOf[s]
    BY <1>0, <1>1, <1>v, <1>s, <2>1, AllocateEffect DEF Allocate
  <2>3. TypeOK'
    BY <1>0, <1>1, <2>2 DEF Allocate, TypeOK
  <2>4. ScratchIsHeld' /\ ScratchIsReturned'
    BY <1>0, <1>1, <2>2 DEF Allocate, ScratchIsHeld, ScratchIsReturned, Live
  <2> QED BY <2>2, <2>3, <2>4 DEF Inv
<1>2. CASE AllocateThrows(v)
  BY <1>0, <1>2 DEF AllocateThrows, Throw, Inv, TypeOK, MapsAreInverse,
                    ScratchIsHeld, ScratchIsReturned, Live
<1>3. CASE Free(v)
  <2>1. /\ occupancy' \in [Registers -> Owners \cup {None}]
        /\ colourOf' \in [Owners -> Registers \cup {None}]
        /\ MapsAreInverse'
        /\ colourOf' = [colourOf EXCEPT ![v] = None]
    BY <1>0, <1>3, <1>v, FreeInverse DEF Free
  <2>2. \A s \in ScratchOwners : colourOf'[s] = colourOf[s]
    BY <1>0, <1>s, <2>1 DEF TypeOK
  <2>3. TypeOK'
    BY <1>0, <1>3, <2>1 DEF Free, TypeOK
  <2>4. ScratchIsHeld' /\ ScratchIsReturned'
    BY <1>0, <1>3, <2>2 DEF Free, ScratchIsHeld, ScratchIsReturned, Live
  <2> QED BY <2>1, <2>3, <2>4 DEF Inv
<1>4. ASSUME NEW w \in VirtualRegisters, Reassign(v, w)
      PROVE  Inv'
  <2>w. w \in Owners /\ v # w
    BY <1>4 DEF Owners, Reassign
  <2>1. CASE CanReassign(v, w)
    <3>1. ReassignOwner(v, w) /\ UNCHANGED <<preferred, locked, evictable, scratch, threw>>
      BY <1>4, <2>1 DEF Reassign
    <3>2. /\ occupancy' \in [Registers -> Owners \cup {None}]
          /\ colourOf' \in [Owners -> Registers \cup {None}]
          /\ MapsAreInverse'
      BY <1>0, <1>v, <2>w, <2>1, <3>1, ReassignInverse
    <3>3. \A s \in ScratchOwners : colourOf'[s] = colourOf[s]
      BY <1>0, <1>s, <3>1, OwnersAssumption DEF ReassignOwner, TypeOK
    <3>4. TypeOK'
      BY <1>0, <3>1, <3>2 DEF TypeOK
    <3>5. ScratchIsHeld' /\ ScratchIsReturned'
      BY <1>0, <3>1, <3>3 DEF ScratchIsHeld, ScratchIsReturned, Live
    <3> QED BY <3>2, <3>4, <3>5 DEF Inv
  <2>2. CASE ~CanReassign(v, w)
    BY <1>0, <1>4, <2>2 DEF Reassign, Throw, Inv, TypeOK, MapsAreInverse,
                            ScratchIsHeld, ScratchIsReturned, Live
  <2> QED BY <2>1, <2>2
<1> QED
  BY <1>1, <1>2, <1>3, <1>4

\* Every step of a scratch guard preserves the invariant.
LEMMA ScratchInv == Inv /\ ScratchStep => Inv'
<1> SUFFICES ASSUME Inv, NEW s \in ScratchOwners,
                    \/ NewScratch(s)
                    \/ DestroyScratch(s)
                    \/ \E v \in VirtualRegisters : TakeScratch(s, v) \/ CommitScratch(s, v)
             PROVE  Inv'
  BY DEF ScratchStep
<1>0. TypeOK /\ MapsAreInverse /\ ScratchIsHeld /\ ScratchIsReturned
  BY DEF Inv
<1>s. \A t \in ScratchOwners : t \in Owners /\ t \notin VirtualRegisters
  BY OwnersAssumption DEF Owners
<1>1. CASE NewScratch(s)
  <2>1. PICK r \in Registers : AllocateTo(s, r) /\ scratch' = [scratch EXCEPT ![s] = r]
    BY <1>1 DEF NewScratch
  <2>2. /\ occupancy' \in [Registers -> Owners \cup {None}]
        /\ colourOf' \in [Owners -> Registers \cup {None}]
        /\ evictable' \in SUBSET VirtualRegisters
        /\ MapsAreInverse'
        /\ colourOf'[s] = r
        /\ \A t \in ScratchOwners : t # s => colourOf'[t] = colourOf[t]
    BY <1>0, <1>1, <1>s, <2>1, AllocateEffect DEF NewScratch
  <2>3. TypeOK'
    BY <1>0, <1>1, <2>1, <2>2 DEF NewScratch, TypeOK
  <2>4. ScratchIsHeld' /\ ScratchIsReturned'
    BY <1>0, <2>1, <2>2, NoneAssumption
       DEF ScratchIsHeld, ScratchIsReturned, Live, TypeOK
  <2> QED BY <2>2, <2>3, <2>4 DEF Inv
<1>2. CASE DestroyScratch(s)
  <2>1. /\ occupancy' \in [Registers -> Owners \cup {None}]
        /\ colourOf' \in [Owners -> Registers \cup {None}]
        /\ MapsAreInverse'
        /\ colourOf' = [colourOf EXCEPT ![s] = None]
    BY <1>0, <1>2, <1>s, FreeInverse DEF DestroyScratch
  <2>2. scratch' = [scratch EXCEPT ![s] = None]
    BY <1>2 DEF DestroyScratch
  <2>3. TypeOK'
    BY <1>0, <1>2, <2>1, <2>2 DEF DestroyScratch, TypeOK
  <2>4. ScratchIsHeld' /\ ScratchIsReturned'
    BY <1>0, <1>s, <2>1, <2>2 DEF ScratchIsHeld, ScratchIsReturned, Live, TypeOK
  <2> QED BY <2>1, <2>3, <2>4 DEF Inv
<1>3. ASSUME NEW v \in VirtualRegisters, TakeScratch(s, v)
      PROVE  Inv'
  <2>v. v \in Owners /\ v # s
    BY <1>s DEF Owners
  <2>1. CASE colourOf[v] = None
    BY <1>0, <1>3, <2>1 DEF TakeScratch, Throw, Inv, TypeOK, MapsAreInverse,
                            ScratchIsHeld, ScratchIsReturned, Live
  <2>2. CASE colourOf[v] # None
    <3>1. /\ ReassignOwner(v, s)
          /\ scratch' = [scratch EXCEPT ![s] = colourOf[v]]
          /\ UNCHANGED <<preferred, locked, evictable, threw>>
          /\ CanReassign(v, s)
      BY <1>3, <2>2 DEF TakeScratch, CanReassign
    <3>2. /\ occupancy' \in [Registers -> Owners \cup {None}]
          /\ colourOf' \in [Owners -> Registers \cup {None}]
          /\ MapsAreInverse'
      BY <1>0, <1>s, <2>v, <3>1, ReassignInverse
    <3>3. /\ colourOf[v] \in Registers
          /\ colourOf'[s] = colourOf[v]
          /\ \A t \in ScratchOwners : t # s => colourOf'[t] = colourOf[t]
      BY <1>0, <1>s, <2>v, <2>2, <3>1 DEF ReassignOwner, TypeOK
    <3>4. TypeOK'
      BY <1>0, <3>1, <3>2, <3>3 DEF TypeOK
    <3>5. ScratchIsHeld' /\ ScratchIsReturned'
      BY <1>0, <3>1, <3>3, NoneAssumption
         DEF ScratchIsHeld, ScratchIsReturned, Live, TypeOK
    <3> QED BY <3>2, <3>4, <3>5 DEF Inv
  <2> QED BY <2>1, <2>2
<1>4. ASSUME NEW v \in VirtualRegisters, CommitScratch(s, v)
      PROVE  Inv'
  <2>v. v \in Owners /\ v # s
    BY <1>s DEF Owners
  <2>1. CASE ~CanReassign(s, v)
    BY <1>0, <1>4, <2>1 DEF CommitScratch, Throw, Inv, TypeOK, MapsAreInverse,
                            ScratchIsHeld, ScratchIsReturned, Live
  <2>2. CASE CanReassign(s, v)
    <3>1. /\ ReassignOwner(s, v)
          /\ scratch' = [scratch EXCEPT ![s] = None]
          /\ UNCHANGED <<preferred, locked, evictable, threw>>
      BY <1>4, <2>2 DEF CommitScratch
    <3>2. /\ occupancy' \in [Registers -> Owners \cup {None}]
          /\ colourOf' \in [Owners -> Registers \cup {None}]
          /\ MapsAreInverse'
      BY <1>0, <1>s, <2>v, <2>2, <3>1, ReassignInverse
    <3>3. /\ colourOf'[s] = None
          /\ \A t \in ScratchOwners : t # s => colourOf'[t] = colourOf[t]
      BY <1>0, <1>s, <2>v, <3>1 DEF ReassignOwner, TypeOK
    <3>4. TypeOK'
      BY <1>0, <3>1, <3>2 DEF TypeOK
    <3>5. ScratchIsHeld' /\ ScratchIsReturned'
      BY <1>0, <3>1, <3>3 DEF ScratchIsHeld, ScratchIsReturned, Live, TypeOK
    <3> QED BY <3>2, <3>4, <3>5 DEF Inv
  <2> QED BY <2>1, <2>2
<1> QED
  BY <1>1, <1>2, <1>3, <1>4

\* The encoder's own steps do not touch the maps.
LEMMA EncoderInv == Inv /\ EncoderStep => Inv'
<1> SUFFICES ASSUME Inv, EncoderStep PROVE Inv'
  OBVIOUS
<1>1. UNCHANGED <<occupancy, colourOf, scratch, threw>>
  BY DEF EncoderStep, BeginInstruction, ClearPreference, Prefer, Lock, Unlock
<1>2. /\ preferred' \in Registers \cup {None}
      /\ locked' \in SUBSET Registers
      /\ evictable' \in SUBSET VirtualRegisters
  BY DEF Inv, TypeOK, EncoderStep, BeginInstruction, ClearPreference, Prefer, Lock, Unlock
<1> QED
  BY <1>1, <1>2 DEF Inv, TypeOK, MapsAreInverse, ScratchIsHeld, ScratchIsReturned, Live

LEMMA NextInv == Inv /\ [Next]_vars => Inv'
<1>1. Inv /\ UNCHANGED vars => Inv'
  BY DEF vars, Inv, TypeOK, MapsAreInverse, ScratchIsHeld, ScratchIsReturned, Live
<1> QED
  BY <1>1, VirtualRegisterInv, ScratchInv, EncoderInv DEF Next

\* Every variable keeps its type in every run of the allocator's clients.
THEOREM TypeCorrect == Spec => []TypeOK
<1>1. Inv => TypeOK
  BY DEF Inv
<1> QED BY <1>1, InitInv, NextInv, PTL DEF Spec

\* _occupancy and _colourOf are inverse to each other in every reachable state,
\* for every pool and any number of owners.
THEOREM InverseMaps == Spec => []MapsAreInverse
<1>1. Inv => MapsAreInverse
  BY DEF Inv
<1> QED BY <1>1, InitInv, NextInv, PTL DEF Spec

\* A live ScratchRegister owns the register it names until it is destroyed or
\* committed, whatever is allocated or evicted in between.
THEOREM ScratchOwnership == Spec => []ScratchIsHeld
<1>1. Inv => ScratchIsHeld
  BY DEF Inv
<1> QED BY <1>1, InitInv, NextInv, PTL DEF Spec

\* The owner index of a ScratchRegister that was destroyed, moved from or
\* committed holds nothing: no path loses the register to the pool.
THEOREM ScratchReturn == Spec => []ScratchIsReturned
<1>1. Inv => ScratchIsReturned
  BY DEF Inv
<1> QED BY <1>1, InitInv, NextInv, PTL DEF Spec

\* An allocation never fills a vacant reserved register.
LEMMA AllocateKeepsReserved ==
  ASSUME Inv, NEW owner \in Owners, NEW r \in Registers, AllocateTo(owner, r)
  PROVE  ReservedVacancyKept
<1>1. CASE Chosen(r) /\ Claim(owner, r) /\ UNCHANGED evictable
  <2>1. r \notin locked
    BY <1>1, ChosenIsAvailable DEF Available, IsReserved, Inv
  <2>2. occupancy' = [occupancy EXCEPT ![r] = owner]
    BY <1>1 DEF Claim
  <2> QED BY <2>1, <2>2 DEF ReservedVacancyKept, Inv, TypeOK
<1>2. ASSUME NEW v \in Victims, r = colourOf[v], ClaimAfterEviction(owner, v)
      PROVE  ReservedVacancyKept
  <2>1. r \notin locked
    BY <1>2 DEF Victims, IsReserved
  <2>2. occupancy' = [occupancy EXCEPT ![r] = owner]
    BY <1>2 DEF ClaimAfterEviction
  <2> QED BY <2>1, <2>2 DEF ReservedVacancyKept, Inv, TypeOK
<1> QED
  BY <1>1, <1>2 DEF AllocateTo

\* Handing a register over fills no vacant register: the one handed over had an
\* owner.
LEMMA ReassignKeepsReserved ==
  ASSUME Inv, NEW from \in Owners, NEW to \in Owners,
         CanReassign(from, to), ReassignOwner(from, to)
  PROVE  ReservedVacancyKept
<1>1. colourOf[from] \in Registers
  BY DEF Inv, TypeOK, CanReassign
<1>2. occupancy[colourOf[from]] = from /\ from # None
  BY <1>1, NoneAssumption DEF Inv, MapsAreInverse
<1>3. occupancy' = [occupancy EXCEPT ![colourOf[from]] = to]
  BY DEF ReassignOwner
<1> QED BY <1>1, <1>2, <1>3 DEF ReservedVacancyKept, Inv, TypeOK

\* A release only vacates.
LEMMA FreeKeepsReserved ==
  ASSUME Inv, NEW owner \in Owners, FreeOwner(owner)
  PROVE  ReservedVacancyKept
  BY DEF FreeOwner, ReservedVacancyKept, Inv, TypeOK

LEMMA NextKeepsReserved == Inv /\ Next => ReservedVacancyKept
<1> SUFFICES ASSUME Inv, Next PROVE ReservedVacancyKept
  OBVIOUS
<1>0. VirtualRegisters \subseteq Owners /\ ScratchOwners \subseteq Owners
  BY DEF Owners
<1>u. ASSUME UNCHANGED occupancy PROVE ReservedVacancyKept
  BY <1>u DEF ReservedVacancyKept
<1>1. ASSUME NEW v \in VirtualRegisters, Allocate(v) PROVE ReservedVacancyKept
  BY <1>0, <1>1, AllocateKeepsReserved DEF Allocate
<1>2. ASSUME NEW v \in VirtualRegisters, AllocateThrows(v) PROVE ReservedVacancyKept
  BY <1>2, <1>u DEF AllocateThrows, Throw
<1>3. ASSUME NEW v \in VirtualRegisters, Free(v) PROVE ReservedVacancyKept
  BY <1>0, <1>3, FreeKeepsReserved DEF Free
<1>4. ASSUME NEW v \in VirtualRegisters, NEW w \in VirtualRegisters, Reassign(v, w)
      PROVE  ReservedVacancyKept
  BY <1>0, <1>4, <1>u, ReassignKeepsReserved DEF Reassign, Throw
<1>5. ASSUME NEW s \in ScratchOwners, NewScratch(s) PROVE ReservedVacancyKept
  BY <1>0, <1>5, AllocateKeepsReserved DEF NewScratch
<1>6. ASSUME NEW s \in ScratchOwners, DestroyScratch(s) PROVE ReservedVacancyKept
  BY <1>0, <1>6, FreeKeepsReserved DEF DestroyScratch
<1>7. ASSUME NEW s \in ScratchOwners, NEW v \in VirtualRegisters, TakeScratch(s, v)
      PROVE  ReservedVacancyKept
  BY <1>0, <1>7, <1>u, ReassignKeepsReserved DEF TakeScratch, CanReassign, Throw
<1>8. ASSUME NEW s \in ScratchOwners, NEW v \in VirtualRegisters, CommitScratch(s, v)
      PROVE  ReservedVacancyKept
  BY <1>0, <1>8, <1>u, ReassignKeepsReserved DEF CommitScratch, Throw
<1>9. CASE EncoderStep
  BY <1>9, <1>u DEF EncoderStep, BeginInstruction, ClearPreference, Prefer, Lock, Unlock
<1> QED
  BY <1>1, <1>2, <1>3, <1>4, <1>5, <1>6, <1>7, <1>8, <1>9
     DEF Next, VirtualRegisterStep, ScratchStep

\* No step of any client makes the allocator hand out a vacant register that is
\* reserved for an argument.
THEOREM ReservedNeverHandedOut == Spec => ReservedStaysVacant
<1>1. Inv /\ [Next]_vars => [ReservedVacancyKept]_vars
  BY NextKeepsReserved
<1> QED BY <1>1, InitInv, NextInv, PTL DEF Spec, ReservedStaysVacant
=============================================================================
