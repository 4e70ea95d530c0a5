----------------------------- MODULE EncoderState -----------------------------
(***************************************************************************)
(* The state of X8664VirtualInstructionEncoder (Core/encoder.h) and the    *)
(* small steps every instruction handler is written with: the register     *)
(* allocator, eviction, use counts, the virtual register map.              *)
(*                                                                         *)
(* The encoder is a record s, and each operator maps a record to the next: *)
(*   occupancy, colour  the allocator's two maps                           *)
(*   preferred, locked  _preferred and _lockedRegisters                    *)
(*   mat, val           materialisation and value of each virtual register *)
(*   evicted, evictable the sets of those names                            *)
(*   uses, sites        _remainingUses and _useSites                       *)
(*   spilled            the registers IsSpilled holds of                   *)
(*   spills, code       _pendingSpills and the code of the instruction     *)
(*   reg                the register the last allocation returned          *)
(*   err                the first assertion that failed, "" if none        *)
(***************************************************************************)
EXTENDS LivePaths, SequencesExt, FiniteSets

(* Virtual instructions, the basic blocks BuildControlFlowGraph cuts them  *)
(* into, and the registers live at the edges of a block.  The code finds   *)
(* these by sweeps over the blocks; module ComputeLiveness checks that the *)
(* sweeps find what the paths of module LivePaths define.                  *)
(*                                                                         *)
(* A virtual instruction is a record [op, dst, srcs, n]: n is an immediate,*)
(* a label, the number of a parameter or the arguments of a call.          *)

CONSTANT None

\* SourceRegistersOf: the operands that are read, in order.
SourceRegistersOf(i) == i.srcs

IsTerminator(i) == i.op \in {"Return", "UnconditionalJump", "CompareAndJump"}

\* DestinationOf: the registers an instruction writes, at most one.
DestinationOf(i) == {i.dst} \ {None}

\* _hasControlFlow
HasControlFlow(input) ==
    \E i \in DOMAIN input : /\ input[i].op # "Return"
                            /\ input[i].op = "Label" \/ IsTerminator(input[i])

-----------------------------------------------------------------------------
(* BuildControlFlowGraph *)

IsLeader(input, i) ==
    i = 1 \/ input[i].op = "Label" \/ IsTerminator(input[i - 1])

\* A block is known by its first and its last instruction, both included.
BlockAt(input, first) ==
    [first |-> first,
     last  |-> CHOOSE last \in first..Len(input) :
                  /\ last = Len(input) \/ IsLeader(input, last + 1)
                  /\ \A i \in (first + 1)..last : ~IsLeader(input, i)]
BlocksOf(input) ==
    LET leaders[i \in 0..Len(input)] ==
            IF i = 0 THEN <<>>
            ELSE IF IsLeader(input, i) THEN Append(leaders[i - 1], i) ELSE leaders[i - 1]
        firsts == leaders[Len(input)]
    IN  [b \in DOMAIN firsts |-> BlockAt(input, firsts[b])]

BlockOfLabel(input, blocks, label) ==
    CHOOSE b \in DOMAIN blocks :
        input[blocks[b].first].op = "Label" /\ input[blocks[b].first].n = label

Following(blocks, b) == {b + 1} \cap DOMAIN blocks
Successors(input, blocks, b) ==
    LET last == input[blocks[b].last]
        target == {BlockOfLabel(input, blocks, last.n)}
    IN  CASE last.op = "Return"            -> {}
          [] last.op = "UnconditionalJump" -> target
          [] last.op = "CompareAndJump"    -> target \cup Following(blocks, b)
          [] OTHER                         -> Following(blocks, b)

-----------------------------------------------------------------------------
(* What a block reads before it writes it, and what it writes *)

Def(input, block) == UNION {DestinationOf(input[i]) : i \in block.first..block.last}
Use(input, block) ==
    {v \in UNION {ToSet(SourceRegistersOf(input[i])) : i \in block.first..block.last} :
        \E i \in block.first..block.last :
            /\ v \in ToSet(SourceRegistersOf(input[i]))
            /\ \A j \in block.first..(i - 1) : v \notin DestinationOf(input[j])}

LiveInOf(input, blocks) ==
    LiveOnEntry(Len(blocks), [b \in DOMAIN blocks |-> Use(input, blocks[b])],
                [b \in DOMAIN blocks |-> Def(input, blocks[b])],
                [b \in DOMAIN blocks |-> Successors(input, blocks, b)])
LiveOutOf(input, blocks, liveIn) ==
    LiveOnExit(Len(blocks), liveIn, [b \in DOMAIN blocks |-> Successors(input, blocks, b)])

-----------------------------------------------------------------------------
(* The encoder. *)

CONSTANTS
    Pool,           \* _pool, already partitioned: caller-saved registers first
    CalleeSaved,    \* the platform's IsCalleeSaved
    ParamRegisters, \* the platform's IntegerParameterRegisterIndex, in order
    Rax, Rcx, Rdx,  \* registers some instructions name; Rax also returns values
    Temporaries,    \* virtual registers of class Temporary
    Variables,      \* virtual registers of class Allocation
    Large,          \* those of either class wider than a register: they live in memory
    ObjectSize,     \* their sizes in bytes
    Guards,         \* owners a ScratchRegister may take: NextScratchOwner
    InlineLimit,    \* the platform's InlineInitialisationLimit
    Modulus,        \* 2^w for a register of w bits
    Narrow          \* 2^w for the w bits an extension starts from

Registers == {Pool[i] : i \in DOMAIN Pool}
VRegs == Temporaries \cup Variables
Owners == VRegs \cup Guards
Never == 1000       \* numeric_limits::max() of NextUse; above every instruction index

ASSUME ClassAssumption == Temporaries \cap Variables = {} /\ VRegs \subseteq Nat
ASSUME WidthAssumption == Modulus \in Nat \ {0} /\ Narrow \in Nat \ {0} /\ Narrow <= Modulus
ASSUME LargeAssumption == Large \subseteq VRegs /\ ObjectSize \in [Large -> Nat \ {0}]
ASSUME GuardAssumption == Guards \cap VRegs = {} /\ InlineLimit \in Nat
ASSUME RegisterAssumption == {Rax, Rcx, Rdx} \cup CalleeSaved \subseteq Registers
ASSUME PoolAssumption == Pool \in Seq(Registers) /\ ParamRegisters \in Seq(Registers)
ASSUME NoneAssumption == None \notin Registers \cup Owners
\* A function has finitely many virtual registers; NextScratchOwner only counts up,
\* so a scratch register always finds an owner that holds no register.
ASSUME OwnerAssumption ==
    /\ IsFiniteSet(VRegs) /\ IsFiniteSet(Guards)
    /\ Cardinality(Registers) < Cardinality(Guards)

-----------------------------------------------------------------------------
(* What EncodeSingle keeps out of the evictable set besides what the         *)
(* instruction requires: operands[0], which is a label in labels and jumps.  *)
Kept(i) ==
    CASE i.op \in {"Return", "Call", "PassArgument", "CopyParameter"} -> {}
      [] i.op \in {"Label", "UnconditionalJump"} -> {i.n}
      [] OTHER -> {i.dst}

-----------------------------------------------------------------------------
(* Operands, emitted instructions *)

Reg(r) == [kind |-> "reg", of |-> r]
Imm(n) == [kind |-> "imm", of |-> n]
Slot(v) == [kind |-> "slot", of |-> v, at |-> 0]
Memory(r) == [kind |-> "memory", of |-> r, at |-> 0]     \* what a register points to
Offset(location, offset) == [location EXCEPT !.at = @ + offset]
StringAddress(n) == [kind |-> "string", of |-> n]
Data == [kind |-> "data", of |-> None]                   \* the bytes an array starts with

\* from: how many values the width extended from has.
SignExtendImmediate(n, from) ==
    LET signBit == from \div 2
    IN  IF from >= Modulus THEN n
        ELSE ((((n % from) + signBit) % from) + Modulus - signBit) % Modulus

\* width is that of the operands, in bytes.
Op2(name, d, s) == [op |-> name, d |-> d, s |-> s, width |-> 8]
Mov(d, s) == Op2("mov", d, s)
Move(width, d, s) == [Mov(d, s) EXCEPT !.width = width]
Op1(name, d) == Op2(name, d, Imm(0))
Plain(name) == Op1(name, Imm(0))

-----------------------------------------------------------------------------
(* Values of the virtual register map: what a register will hold when it is *)
(* materialised.                                                             *)

Unknown == [kind |-> "unknown", n |-> 0, srcs |-> <<>>]
Value(kind, n, srcs) == [kind |-> kind, n |-> n, srcs |-> srcs]

\* SourcesOf: the registers a value still has to be computed from.
SourcesOf(value) == value.srcs

-----------------------------------------------------------------------------
(* Classes *)

IsMutable(v) == v \in Variables

IsLargeObject(v) == v \in Large

\* Class Allocation against SpillThreshold(optimisation), which control flow
\* lowers to Allocation; what no register can hold whatever its class.
SpilledUnder(spillage, hasControlFlow) ==
    Large \cup (IF spillage = "None" \/ hasControlFlow THEN Variables ELSE {})
IsSpilled(s, v) == v \in s.spilled

-----------------------------------------------------------------------------
(* Small steps *)

Fail(s, message) == IF s.err = "" THEN [s EXCEPT !.err = message] ELSE s
Check(s, condition, message) == IF condition THEN s ELSE Fail(s, message)
Emit(s, instruction) == [s EXCEPT !.code = Append(@, instruction)]

IsLocked(s, r) == r \in s.locked
IsFree(s, r) == s.occupancy[r] = None
\* Mutant: a locked register counts as available.
AvailableIfFree(s, r) == IsFree(s, r)

Available(s, r) == IsFree(s, r) /\ ~IsLocked(s, r)
FreeCount(s) == Cardinality({r \in Registers : Available(s, r)})
IsMaterialised(s, v) == s.mat[v] # None

ImmediateOf(s, v) ==
    IF ~IsSpilled(s, v) /\ ~IsMaterialised(s, v) /\ s.val[v].kind = "int" /\ v \notin s.evicted
    THEN s.val[v].n ELSE None
HasImmediate(s, v) == ImmediateOf(s, v) # None

\* Claim, Free and Reassign of the allocator.
Claim(s, v, r) == [s EXCEPT !.occupancy[r] = v, !.colour[v] = r, !.reg = r]
FreeColour(s, v) ==
    IF s.colour[v] = None THEN s
    ELSE [s EXCEPT !.occupancy[s.colour[v]] = None, !.colour[v] = None]
\* Mutant: the register keeps its former owner as well.
ReassignKeepingSource(s, from, to) ==
    [s EXCEPT !.occupancy[s.colour[from]] = to, !.colour[to] = s.colour[from]]

Reassign(s, from, to) ==
    IF s.colour[from] = None THEN Fail(s, "Virtual register does not hold a physical colour")
    ELSE IF s.colour[to] # None THEN Fail(s, "Virtual register already holds a physical colour")
    ELSE [s EXCEPT !.occupancy[s.colour[from]] = to, !.colour[to] = s.colour[from],
                   !.colour[from] = None]

\* NextUse: the site the first of the remaining uses is at.
NextUse(s, v) ==
    IF s.uses[v] = 0 \/ s.sites[v] = <<>> THEN Never
    ELSE s.sites[v][Len(s.sites[v]) - s.uses[v] + 1]

\* Free, and ClearMaterialisation.
Discard(s, v) == [FreeColour(s, v) EXCEPT !.mat[v] = None]

\* Mutant: the value goes to its slot but nobody remembers that it is there.
EvictedForgotten(s, v) == Discard(s, v)

\* The state after Evict(v), and the store Evict returns (none for a dead value).
Evicted(s, v) ==
    [Discard(s, v) EXCEPT !.evicted = IF NextUse(s, v) = Never THEN @ ELSE @ \cup {v}]
EvictStore(s, v) ==
    IF NextUse(s, v) = Never THEN <<>> ELSE <<Mov(Slot(v), Reg(s.mat[v]))>>
Evict(s, v) == [Evicted(s, v) EXCEPT !.code = @ \o EvictStore(s, v)]

\* EvictOne: the evictable owner of an unlocked register whose next use is
\* furthest, the first in the pool's order among equals.  Its store goes to
\* the front of the instruction.
Candidates(s) ==
    {i \in DOMAIN Pool : /\ s.occupancy[Pool[i]] \in s.evictable
                         /\ ~IsLocked(s, Pool[i])}
Distance(s, i) == NextUse(s, s.occupancy[Pool[i]])
Victim(s) ==
    s.occupancy[Pool[CHOOSE i \in Candidates(s) :
                        \A j \in Candidates(s) : /\ Distance(s, j) <= Distance(s, i)
                                                 /\ j < i => Distance(s, j) < Distance(s, i)]]
CanEvictOne(s) == Candidates(s) # {}
EvictAhead(s, v) ==
    [Evicted(s, v) EXCEPT !.evictable = @ \ {v}, !.spills = @ \o EvictStore(s, v)]
EvictOne(s) == EvictAhead(s, Victim(s))

\* Allocate: the register is left in reg.
FirstAvailable(s) == Pool[CHOOSE i \in DOMAIN Pool :
                            /\ Available(s, Pool[i])
                            /\ \A j \in 1..(i - 1) : ~Available(s, Pool[j])]
Pick(s, v) ==
    Claim(s, v, IF s.preferred \in Registers /\ Available(s, s.preferred)
                THEN s.preferred ELSE FirstAvailable(s))
Exhausted(s) == FreeCount(s) = 0
Allocate(s, v) ==
    IF s.colour[v] # None THEN Fail(s, "Virtual register already holds a physical colour")
    ELSE IF Exhausted(s) /\ ~CanEvictOne(s)
    THEN Fail(s, "Out of physical registers and nothing is evictable")
    ELSE Pick(IF Exhausted(s) THEN EvictOne(s) ELSE s, v)
Prefer(s, r) == [s EXCEPT !.preferred = r]

\* ScratchRegister: a guard owns a register until the handler returns, at the
\* latest, or its register is committed to a virtual register.
FreshGuard(s) == CHOOSE g \in Guards : s.colour[g] = None
NewScratch(s) == Allocate(s, FreshGuard(s))
Take(s, from) ==
    IF s.colour[from] = None
    THEN Fail(s, "Cannot take over a register that holds no physical colour")
    ELSE [Reassign(s, from, FreshGuard(s)) EXCEPT !.reg = s.colour[from]]
DestroyGuards(s) ==
    [s EXCEPT !.occupancy = [r \in Registers |-> IF @[r] \in Guards THEN None ELSE @[r]],
              !.colour = [v \in Owners |-> IF v \in Guards THEN None ELSE @[v]]]

PhysicalRegisterOf(s, v) == s.mat[v]
NeedsRegister(s, v) == Check(s, IsMaterialised(s, v), "Register must be materialised")

ConsumeUse(s, v) ==
    IF s.uses[v] = 0 THEN Fail(s, "Virtual register consumed more often than it is used")
    ELSE [s EXCEPT !.uses[v] = @ - 1]

ReleaseRegister(s, v) ==
    [(IF IsMaterialised(s, v) THEN Discard(s, v) ELSE s) EXCEPT !.evicted = @ \ {v}]
ReleaseIfUnused(s, v) == IF s.uses[v] = 0 THEN ReleaseRegister(s, v) ELSE s

DereferenceAndMaybeFree(s, v) == ReleaseIfUnused(ConsumeUse(s, v), v)

\* TransferRegister(from, to): the register is left in reg.
TransferRegister(s, from, to) ==
    [Reassign(Check(s, from \notin s.evicted, "Cannot transfer an evicted register"), from, to)
        EXCEPT !.mat[from] = None, !.reg = PhysicalRegisterOf(s, from)]

Redefine(s, v, value) == [ReleaseRegister(s, v) EXCEPT !.val[v] = value]

\* Owners of a register other than keep that somebody still reads are evicted.
ClearRegister(s, r, keep) ==
    IF s.occupancy[r] \in {None, keep} \/ s.uses[s.occupancy[r]] = 0 THEN s
    ELSE Evict(s, s.occupancy[r])

IsClobberable(s, r) == IsFree(s, r) \/ s.uses[s.occupancy[r]] = 0
=============================================================================
