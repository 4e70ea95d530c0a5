-------------------------------- MODULE Encoder --------------------------------
(***************************************************************************)
(* X8664VirtualInstructionEncoder::Encode: the blocks of a function in     *)
(* order, each instruction through EncodeSingle, and what is live at the   *)
(* end of a block stored by FlushLiveOut before the block is left.         *)
(*                                                                         *)
(* Beside the encoder run the virtual instructions (ref) and the emitted   *)
(* code (m).  A block other than the first may be entered from anywhere,   *)
(* so at its beginning they agree only on what FlushLiveOut promises: the  *)
(* slots of the live registers.                                            *)
(***************************************************************************)
EXTENDS EncoderHandlers, EncoderSemantics

CONSTANTS
    MayFollow(_),   \* what the lowering may append to a function, {} when it is complete
    Spillages(_)    \* the values of EncodingSpillage a function is encoded with

VARIABLES
    input,      \* the function
    blocks,     \* _blocks: [first, last, liveIn, liveOut]; empty until Encode is called
    block,      \* the block being encoded, 0 before the first
    pc,         \* the next instruction
    flushed,    \* FlushLiveOut has run for the block
    e,          \* the encoder
    m,          \* the processor
    ref         \* the virtual registers

vars == <<input, blocks, block, pc, flushed, e, m, ref>>

-----------------------------------------------------------------------------
(* The lowering, and Encode up to the first block *)

NoRegister == [v \in VRegs |-> None]
NoColour == [v \in Owners |-> None]

EncoderStart(f, spillage) ==
    [occupancy |-> [r \in Registers |-> None], colour |-> NoColour,
     preferred |-> None,
     locked |-> {ParamRegisters[f[i].n] : i \in {j \in DOMAIN f :
                    f[j].op = "CopyParameter" /\ f[j].n \in DOMAIN ParamRegisters}},
     mat |-> NoRegister, val |-> [v \in VRegs |-> Unknown],
     evicted |-> {}, evictable |-> {},
     uses |-> [v \in VRegs |-> 0], sites |-> [v \in VRegs |-> <<>>],
     spilled |-> SpilledUnder(spillage, HasControlFlow(f)),
     spills |-> <<>>, code |-> <<>>, reg |-> None, err |-> ""]

Init ==
    /\ input = <<>> /\ blocks = <<>>
    /\ block = 0 /\ pc = 1 /\ flushed = TRUE
    /\ e = EncoderStart(input, "None")
    /\ m = MachineStart([r \in Registers |->
               IF \E i \in DOMAIN ParamRegisters : r = ParamRegisters[i]
               THEN Parameter(CHOOSE i \in DOMAIN ParamRegisters : r = ParamRegisters[i])
               ELSE JunkIn(r)], [v \in VRegs |-> JunkSlot(v)])
    /\ ref = ReferenceStart([v \in VRegs |-> InitialValue(v)])

\* PseudoAssembly appends an instruction.
Lower ==
    /\ blocks = <<>>
    /\ \E i \in MayFollow(input) : input' = Append(input, i)
    /\ UNCHANGED <<blocks, block, pc, flushed, e, m, ref>>

\* Encode resets the encoder, locks the registers of the parameters and finds
\* the blocks and what is live at their edges.
Encode ==
    /\ blocks = <<>>
    /\ MayFollow(input) = {}
    /\ blocks' = LET bs == BlocksOf(input)
                     liveIn == LiveInOf(input, bs)
                     liveOut == LiveOutOf(input, bs, liveIn)
                 IN  [b \in DOMAIN bs |-> [first |-> bs[b].first, last |-> bs[b].last,
                                           liveIn |-> liveIn[b], liveOut |-> liveOut[b]]]
    /\ \E spillage \in Spillages(input) : e' = EncoderStart(input, spillage)
    /\ UNCHANGED <<input, block, pc, flushed, m, ref>>

-----------------------------------------------------------------------------
(* BeginBlock *)

IsRematerialisable(s, v) == ~IsMutable(v) /\ s.val[v].kind = "int"

\* Mutant: an operand that is listed twice is counted once.
SitesOnce(f, b, v) ==
    LET reads == SelectSeq([k \in 1..(b.last - b.first + 1) |-> b.first + k - 1],
                           LAMBDA i : v \in ToSet(f[i].srcs))
    IN  IF v \in b.liveOut THEN Append(reads, b.last + 1) ELSE reads

\* Mutant: that a register is live at the end of the block is not counted.
SitesWithoutEnd(f, b, v) ==
    LET At(sites, i) ==
            sites \o [k \in 1..Cardinality({k \in DOMAIN f[i].srcs : f[i].srcs[k] = v}) |-> i]
    IN  FoldLeft(At, <<>>, [k \in 1..(b.last - b.first + 1) |-> b.first + k - 1])

\* The indices a register is read at in the block, and the end of the block if
\* it is live there.
SitesAt(f, i, v) == [k \in 1..Cardinality({k \in DOMAIN f[i].srcs : f[i].srcs[k] = v}) |-> i]
SitesIn(f, b, v) ==
    LET reads[n \in 0..(b.last - b.first + 1)] ==
            IF n = 0 THEN <<>> ELSE reads[n - 1] \o SitesAt(f, b.first + n - 1, v)
        inside == reads[b.last - b.first + 1]
    IN  IF v \in b.liveOut THEN Append(inside, b.last + 1) ELSE inside

VacateOne(s, r) == IF s.occupancy[r] = None THEN s ELSE ReleaseRegister(s, s.occupancy[r])
Vacate(s) ==
    LET vacated[n \in 0..Len(Pool)] ==
            IF n = 0 THEN s ELSE VacateOne(vacated[n - 1], Pool[n])
    IN  vacated[Len(Pool)]

\* Mutant: the block inherits the registers of the block before it in the text.
EnterBlockResident(s, f, b) ==
    LET sites == [v \in VRegs |-> SitesIn(f, b, v)]
        t == [s EXCEPT !.evictable = {}, !.sites = sites,
                       !.uses = [v \in VRegs |-> Len(sites[v])]]
    IN  IF b.first = 1 THEN t
        ELSE [t EXCEPT !.evicted = {v \in @ : v \notin b.liveIn} \cup
                                   {v \in b.liveIn : ~IsRematerialisable(t, v) /\ t.mat[v] = None}]

EnterBlock(s, f, b) ==
    LET sites == [v \in VRegs |-> SitesIn(f, b, v)]
        t == [Vacate(s) EXCEPT !.evictable = {}, !.sites = sites,
                               !.uses = [v \in VRegs |-> Len(sites[v])]]
    IN  IF b.first = 1 THEN t
        ELSE [t EXCEPT !.evicted = {v \in @ : v \notin b.liveIn} \cup
                                   {v \in b.liveIn : ~IsRematerialisable(t, v)}]

\* Any predecessor may have run: a live register that is not rematerialised is
\* in its slot, everything else is junk.
ValueAtEntry(v) == IF IsRematerialisable(e, v) THEN e.val[v].n ELSE InitialValue(v)
MachineAtEntry(b) ==
    MachineStart([r \in Registers |-> JunkIn(r)],
                 [v \in VRegs |-> IF v \in b.liveIn /\ ~IsRematerialisable(e, v)
                                  THEN InitialValue(v) ELSE JunkSlot(v)])

BeginBlock ==
    /\ block < Len(blocks)
    /\ flushed
    /\ block > 0 => pc = blocks[block].last + 1
    /\ block' = block + 1
    /\ flushed' = FALSE
    /\ e' = EnterBlock(e, input, blocks[block + 1])
    /\ IF block = 0
       THEN UNCHANGED <<m, ref>>
       ELSE /\ m' = MachineAtEntry(blocks[block + 1])
            /\ ref' = ReferenceStart([v \in VRegs |-> ValueAtEntry(v)])
    /\ UNCHANGED <<input, blocks, pc>>

-----------------------------------------------------------------------------
(* EncodeSingle *)

\* CollectDependencies: what has to be in a register before the sources are.
Required(s, sources) ==
    LET Expand(set) ==
            set \cup UNION {ToSet(SourcesOf(s.val[v])) :
                               v \in {w \in set : /\ ~IsSpilled(s, w)
                                                  /\ ~IsMaterialised(s, w)
                                                  /\ w \notin s.evicted}}
        Closure[n \in 0..Cardinality(VRegs)] ==
            IF n = 0 THEN sources ELSE Expand(Closure[n - 1])
    IN  Closure[Cardinality(VRegs)]

Owned(s) == {s.occupancy[r] : r \in Registers} \ {None}

\* Registers are freed until one is left for the result and for each source
\* that needs one.
Needed(s, required) ==
    1 + Cardinality({v \in required : /\ ~IsSpilled(s, v)
                                      /\ ~IsMaterialised(s, v)
                                      /\ ~HasImmediate(s, v)})
MakeOneRoom(s, needed) == IF FreeCount(s) < needed /\ CanEvictOne(s) THEN EvictOne(s) ELSE s
MakeRoom(s, needed) ==
    LET made[n \in 0..Len(Pool)] == IF n = 0 THEN s ELSE MakeOneRoom(made[n - 1], needed)
    IN  made[Len(Pool)]

\* _pendingSpills and _evictable at the beginning of an instruction; its code starts empty.
Begin(s, required, kept) ==
    [s EXCEPT !.code = <<>>, !.spills = <<>>, !.evictable = (Owned(s) \ required) \ kept]
SpillsFirst(s) == [s EXCEPT !.code = s.spills \o @, !.spills = <<>>]

\* A spilled destination that was just written lives in its slot.
SettleInSlot(s, i) ==
    IF i.op \in {"copy", "int"} /\ IsSpilled(s, i.dst)
    THEN [ReleaseRegister(s, i.dst) EXCEPT !.evicted = @ \cup {i.dst}] ELSE s

Encoded(s, i) ==
    LET required == Required(s, ToSet(SourceRegistersOf(i)))
    IN  SpillsFirst(SettleInSlot(
            Handle(MakeRoom(Begin(s, required, Kept(i)), Needed(s, required)), i), i))

AtTerminator == pc = blocks[block].last /\ IsTerminator(input[pc])

InBlock == block \in DOMAIN blocks

EncodeSingle ==
    /\ InBlock
    /\ pc <= blocks[block].last
    /\ AtTerminator => flushed
    /\ e' = Encoded(e, input[pc])
    /\ m' = IF e'.err = "" THEN Run(m, e'.code) ELSE m
    /\ ref' = ReferenceStep(ref, input[pc])
    /\ pc' = pc + 1
    /\ UNCHANGED <<input, blocks, block, flushed>>

-----------------------------------------------------------------------------
(* FlushLiveOut *)

\* Mutant: the register is materialised but not stored.
FlushOneWithoutStore(s, v) ==
    IF IsRematerialisable(s, v) \/ v \in s.evicted THEN s
    ELSE [SpillsFirst(EnsureMaterialisation(Begin(s, Required(s, {v}), {}), v))
             EXCEPT !.code = s.code \o @]

StoreLive(s, v) ==
    IF v \in s.evicted \/ ~IsMaterialised(s, v) THEN s ELSE Emit(s, Mov(Slot(v), Reg(s.mat[v])))
FlushOne(s, v) ==
    IF IsRematerialisable(s, v) \/ v \in s.evicted THEN s
    ELSE [StoreLive(SpillsFirst(EnsureMaterialisation(Begin(s, Required(s, {v}), {}), v)), v)
             EXCEPT !.code = s.code \o @]

\* The live registers, from the lowest index on.
Flushed(s, live) ==
    LET last == Max(live \cup {0})
        done[n \in 0..(last + 1)] ==
            IF n = 0 THEN [s EXCEPT !.code = <<>>]
            ELSE IF n - 1 \in live THEN FlushOne(done[n - 1], n - 1) ELSE done[n - 1]
    IN  done[last + 1]

FlushLiveOut ==
    /\ InBlock
    /\ ~flushed
    /\ AtTerminator \/ pc = blocks[block].last + 1
    /\ e' = Flushed(e, blocks[block].liveOut)
    /\ m' = IF e'.err = "" THEN Run(m, e'.code) ELSE m
    /\ flushed' = TRUE
    /\ UNCHANGED <<input, blocks, block, pc, ref>>

-----------------------------------------------------------------------------

\* The end of Encode asserts that no argument is left without its call.
Finish ==
    /\ block = Len(blocks) /\ blocks # <<>>
    /\ flushed /\ pc = blocks[block].last + 1
    /\ e' = Check(e, e.locked = {}, "Argument registers were locked but no call consumed them")
    /\ block' = block + 1
    /\ UNCHANGED <<input, blocks, pc, flushed, m, ref>>

Next == e.err = "" /\ (Lower \/ Encode \/ BeginBlock \/ EncodeSingle \/ FlushLiveOut \/ Finish)

Spec == Init /\ [][Next]_vars

-----------------------------------------------------------------------------
(* Properties *)

TypeOK ==
    /\ block \in 0..(Len(blocks) + 1) /\ pc \in 1..(Len(input) + 1) /\ flushed \in BOOLEAN
    /\ e.occupancy \in [Registers -> VRegs \cup {None}]
    /\ e.colour \in [Owners -> Registers \cup {None}]
    /\ e.mat \in [VRegs -> Registers \cup {None}]
    /\ e.preferred = None
    /\ e.locked \subseteq Registers /\ e.evicted \subseteq VRegs /\ e.evictable \subseteq VRegs
    /\ e.uses \in [VRegs -> Nat]
    /\ m.reg \in [Registers -> 0..(Modulus - 1)] /\ m.slot \in [VRegs -> 0..(Modulus - 1)]
    /\ ref.env \in [VRegs -> 0..(Modulus - 1)]
    /\ \A v \in Large : {m.object[v], ref.object[v]} \subseteq [1..WordsOf(v) -> 0..(Modulus - 1)]

\* No assertion of the encoder fails and it never runs out of registers: the
\* counts of uses, the locks and the allocator's owners are always what
\* ConsumeUse, TransferRegister, Allocate and the end of Encode rely on.
NoAssertionFails == e.err = ""

Left == IF InBlock THEN pc..blocks[block].last ELSE {}

\* What somebody reads before it is written again.
LiveNow ==
    IF ~InBlock \/ e.err # "" THEN {}
    ELSE {v \in VRegs :
            \/ /\ v \in blocks[block].liveOut
               /\ \A i \in Left : v \notin DestinationOf(input[i])
            \/ \E i \in Left : /\ v \in ToSet(SourceRegistersOf(input[i]))
                              /\ \A j \in pc..(i - 1) : v \notin DestinationOf(input[j])}

\* The value a register that has none yet would be given now.
Denoted(value) ==
    LET a == ref.env[value.srcs[1]]
        b == ref.env[value.srcs[2]]
    IN  CASE value.kind = "int"  -> value.n
          [] value.kind = "copy" -> a
          [] value.kind = "AddressOf" -> Address(value.srcs[1])
          [] value.kind = "string" -> value.n
          [] value.kind \in UnaryOperations  -> Compute(value.kind, a, 0)
          [] value.kind \in BinaryOperations -> Compute(value.kind, a, b)
          [] OTHER -> None

\* Wherever the encoder believes a value to be, there it is: every register that
\* will be read, directly or through a value not computed yet, has its value
\* in its physical register, in its slot, or can still compute it from sources
\* nothing has overwritten.  Eviction, reloading, transfer on the last use and
\* laziness all meet here.
Coherent ==
    \A v \in Required(e, LiveNow) \ Large :
        /\ IsMaterialised(e, v) => m.reg[e.mat[v]] = ref.env[v]
        /\ v \in e.evicted => m.slot[v] = ref.env[v]
        /\ ~IsMaterialised(e, v) /\ v \notin e.evicted =>
              IF IsSpilled(e, v) THEN m.slot[v] = ref.env[v]
              ELSE Denoted(e.val[v]) = ref.env[v]

\* Memory holds what the code has stored so far, byte for byte: the objects, and
\* the slot of every variable some pointer may name.  What a pointer reads or
\* stores depends on no register's being live.
Addressed ==
    UNION {CASE input[k].op = "AddressOf" -> {input[k].srcs[1]}
             [] input[k].op \in {"ZeroMemory", "CopyFromData"} -> {input[k].dst}
             [] OTHER -> {} : k \in 1..(pc - 1)}
MemoryAgrees ==
    e.err = "" => /\ m.object = ref.object
                  /\ \A v \in Addressed \ Large : m.slot[v] = ref.env[v]

\* A register read by an instruction still to come, or by a value not computed
\* yet, has a use left for each of them: a handler that consumes one use too
\* many would give the register away under its last reader.
Readings(v, srcs) == Cardinality({k \in DOMAIN srcs : srcs[k] = v})
Waiting(v) == ~IsMaterialised(e, v) /\ v \notin e.evicted /\ ~IsSpilled(e, v)
UsesCoverReaders ==
    \A v \in Required(e, LiveNow) :
        e.uses[v] >= MapThenSumSet(LAMBDA i : Readings(v, input[i].srcs), Left)
                     + MapThenSumSet(LAMBDA w : Readings(v, e.val[w].srcs),
                                     {w \in Required(e, LiveNow) : Waiting(w)})
                     + (IF v \in blocks[block].liveOut THEN 1 ELSE 0)

\* Between instructions the allocator and the virtual register map tell the same
\* story: the allocator's two maps are inverse to each other, no scratch register
\* is held, and a virtual register is where the allocator says, so that no physical
\* register is lost to an owner nobody remembers.
MapsInverse ==
    e.err = "" =>
        /\ \A r \in Registers, v \in Owners : e.occupancy[r] = v <=> e.colour[v] = r
        /\ \A g \in Guards : e.colour[g] = None
AllocatorAgrees == MapsInverse /\ (e.err = "" => \A v \in VRegs : e.mat[v] = e.colour[v])

\* From the moment it is passed until the call, an argument stays in the locked
\* register of its position, and an incoming parameter stays in its own until
\* it is copied: nothing allocated, evicted or computed between touches them.
ArgumentsIntact ==
    e.err = "" =>
        /\ \A i \in DOMAIN ref.pending \cap DOMAIN ParamRegisters :
              /\ ParamRegisters[i] \in e.locked
              /\ m.reg[ParamRegisters[i]] = ref.pending[i]
        /\ \A i \in Left :
              input[i].op = "CopyParameter" /\ input[i].n \in DOMAIN ParamRegisters =>
                  m.reg[ParamRegisters[input[i].n]] = Parameter(input[i].n)

\* The outside sees the same: calls get their arguments, the function returns its
\* value, branches compare the values the virtual code compares.
SameObservations == e.err = "" => SeesTheSame(m, ref)

\* When a block is left every register that is live there is in its slot or is
\* a constant any successor can load again: this is all a successor relies on,
\* whichever predecessor ran.
LiveOutIsStored ==
    flushed /\ InBlock /\ e.err = "" =>
        \A v \in blocks[block].liveOut :
            IsRematerialisable(e, v) \/ m.slot[v] = ref.env[v]
=============================================================================
