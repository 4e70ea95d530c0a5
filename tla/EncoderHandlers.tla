---------------------------- MODULE EncoderHandlers ----------------------------
(***************************************************************************)
(* The instruction handlers of the encoder (Core/Instructions): for each   *)
(* virtual instruction what EncoderImplementation does when it is reached, *)
(* and for each lazy value what MaterialisationImplementation does when    *)
(* the value is first needed.                                              *)
(***************************************************************************)
EXTENDS EncoderState

-----------------------------------------------------------------------------
(* Materialisation. Each operator leaves the assigned register in reg.      *)

\* An instruction on the register just obtained.
OnResult(s, name, operand) == Emit(s, Op2(name, Reg(s.reg), operand))
Load(s, operand) == OnResult(s, "mov", operand)

\* An operand whose use has been consumed becomes the owner's: a temporary read
\* for the last time hands its register over, anything else is copied.
TakeOver(s, operand, owner) ==
    IF s.uses[operand] = 0 /\ ~IsMutable(operand)
    THEN TransferRegister(s, operand, owner)
    ELSE ReleaseIfUnused(Load(Allocate(s, owner), Reg(PhysicalRegisterOf(s, operand))), operand)

\* The value of an operand becomes the owner's accumulator; an immediate is loaded.
Accumulate(s, operand, owner) ==
    IF HasImmediate(s, operand)
    THEN Load(Allocate(ConsumeUse(s, operand), owner), Imm(ImmediateOf(s, operand)))
    ELSE TakeOver(ConsumeUse(NeedsRegister(s, operand), operand), operand, owner)

\* An operand of the final instruction: an immediate, or the register it is in.
SourceOperand(s, v) ==
    IF HasImmediate(s, v) THEN Imm(ImmediateOf(s, v)) ELSE Reg(PhysicalRegisterOf(s, v))
SourceReady(s, v) == IF HasImmediate(s, v) THEN s ELSE NeedsRegister(s, v)

MaterialiseInteger(s, owner, n) == Load(Allocate(s, owner), Imm(n))
MaterialiseString(s, owner, n) == Load(Allocate(s, owner), StringAddress(n))

MaterialiseAddressOf(s, owner, source) ==
    OnResult(Allocate(ConsumeUse(s, source), owner), "lea", Slot(source))

MaterialiseCopy(s, owner, source) ==
    IF IsSpilled(s, source)
    THEN DereferenceAndMaybeFree(Load(Allocate(s, owner), Slot(source)), source)
    ELSE TakeOver(ConsumeUse(NeedsRegister(s, source), source), source, owner)

\* An extension starts from the low bits of its operand, wherever it is.
ExtendOver(s, owner, source, name) ==
    OnResult(IF s.uses[source] = 0 /\ ~IsMutable(source) THEN TransferRegister(s, source, owner)
             ELSE ReleaseIfUnused(Allocate(s, owner), source),
             name, Reg(PhysicalRegisterOf(s, source)))
MaterialiseExtension(s, owner, source, name) ==
    IF IsSpilled(s, source)
    THEN DereferenceAndMaybeFree(OnResult(Allocate(s, owner), name, Slot(source)), source)
    ELSE ExtendOver(ConsumeUse(NeedsRegister(s, source), source), owner, source, name)

\* Where a constant is extended from: the handlers take the width, which is in
\* bits, for one in bytes, and eight times the narrowest is a whole register.
ExtendedFrom == Modulus

MaterialiseSignExtension(s, owner, source) ==
    IF HasImmediate(s, source)
    THEN Load(DereferenceAndMaybeFree(Allocate(s, owner), source),
              Imm(SignExtendImmediate(ImmediateOf(s, source), ExtendedFrom)))
    ELSE MaterialiseExtension(s, owner, source, "movsx")
MaterialiseZeroExtension(s, owner, source) == MaterialiseExtension(s, owner, source, "movzx")

Combine(s, owner, accumulator, other, name) ==
    DereferenceAndMaybeFree(
        OnResult(Accumulate(SourceReady(s, other), accumulator, owner), name, SourceOperand(s, other)),
        other)

\* An operation that may exchange its operands: an immediate goes second.
Commutative(s, owner, left, right, name) ==
    LET swap == HasImmediate(s, left) /\ ~HasImmediate(s, right)
    IN  Combine(s, owner, IF swap THEN right ELSE left, IF swap THEN left ELSE right, name)

MaterialiseAdd(s, owner, left, right) == Commutative(s, owner, left, right, "add")
MaterialiseAnd(s, owner, left, right) == Commutative(s, owner, left, right, "and")
MaterialiseOr(s, owner, left, right) == Commutative(s, owner, left, right, "or")
MaterialiseXor(s, owner, left, right) == Commutative(s, owner, left, right, "xor")

\* x - x is zero: the operand is read once although it is listed twice.
Zeroed(s, owner, operand) ==
    Load(Allocate(ConsumeUse(SourceReady(s, operand), operand), owner), Imm(0))
MaterialiseSub(s, owner, left, right) ==
    IF left # right THEN Combine(s, owner, left, right, "sub")
    ELSE IF IsMutable(left) THEN Zeroed(s, owner, left)
    ELSE ReleaseIfUnused(Zeroed(s, owner, left), left)

MaterialiseNeg(s, owner, operand) == OnResult(Accumulate(s, operand, owner), "neg", Imm(0))
MaterialiseNot(s, owner, operand) == OnResult(Accumulate(s, operand, owner), "not", Imm(0))

\* A shift takes its count in rcx: the count is moved there when rcx may be
\* clobbered, else the two registers are exchanged around the shift.
ShiftByRegister(s, destination, count, name) ==
    s.code \o
    IF count = Rcx THEN <<Op2(name, Reg(destination), Reg(Rcx))>>
    ELSE IF destination # Rcx /\ IsClobberable(s, Rcx)
    THEN <<Mov(Reg(Rcx), Reg(count)), Op2(name, Reg(destination), Reg(Rcx))>>
    ELSE <<Op2("xchg", Reg(Rcx), Reg(count)),
           Op2(name, Reg(IF destination = Rcx THEN count ELSE destination), Reg(Rcx)),
           Op2("xchg", Reg(Rcx), Reg(count))>>
ShiftBy(s, count, immediate, name) ==
    IF immediate # None THEN OnResult(s, name, Imm(immediate))
    ELSE [Check(NeedsRegister(s, count), PhysicalRegisterOf(s, count) # s.reg,
                "shift count and destination must not share a register")
             EXCEPT !.code = ShiftByRegister(s, s.reg, PhysicalRegisterOf(s, count), name)]
Shifted(s, owner, left, count, name) ==
    DereferenceAndMaybeFree(
        ShiftBy(Accumulate(s, left, owner), count, ImmediateOf(s, count), name), count)

MaterialiseLeftShift(s, owner, left, count) == Shifted(s, owner, left, count, "shl")
MaterialiseRightShift(s, owner, left, count) == Shifted(s, owner, left, count, "shr")

\* The evicted branch of EnsureMaterialisation.
Restored(s, v) == [s EXCEPT !.evicted = @ \ {v}, !.mat[v] = s.reg]
Reload(s, v) == Load(Restored(Allocate(s, v), v), Slot(v))

\* mul and div: an operand in a register they overwrite moves to a temporary
\* of the result, rcx for preference.
MoveAside(s, owner, registers) ==
    IF s.reg \in registers
    THEN Prefer(Load(Allocate(Prefer(s, Rcx), owner), Reg(s.reg)), None)
    ELSE s

RightOperand(s, owner, right) ==
    IF HasImmediate(s, right) THEN MaterialiseInteger(s, owner, ImmediateOf(s, right))
    ELSE [NeedsRegister(s, right) EXCEPT !.reg = PhysicalRegisterOf(s, right)]
LeftOperand(s, left) ==
    [SourceReady(s, left) EXCEPT !.reg = IF HasImmediate(s, left) THEN Rax
                                          ELSE PhysicalRegisterOf(s, left)]

Vacated(s, r, owner) == IF IsClobberable(s, r) THEN s ELSE ClearRegister(s, r, owner)
LeftInRax(s, left) ==
    IF HasImmediate(s, left) THEN Emit(s, Mov(Reg(Rax), Imm(ImmediateOf(s, left))))
    ELSE IF s.reg # Rax THEN Emit(s, Mov(Reg(Rax), Reg(s.reg))) ELSE s
LeftConsumed(s, left) ==
    IF HasImmediate(s, left) \/ IsMutable(left) \/ s.reg = Rax THEN ConsumeUse(s, left)
    ELSE DereferenceAndMaybeFree(s, left)

\* s.reg is where the left operand is; the result is left in rax.
Multiplied(s, owner, left, right, code) ==
    [DereferenceAndMaybeFree(
        LeftConsumed(
            [LeftInRax(Vacated(Vacated(s, Rax, owner), Rdx, owner), left)
                EXCEPT !.code = @ \o code], left), right)
        EXCEPT !.reg = Rax]

\* s.reg is where the right operand is.
WithSource(s, owner, left, right, before, name) ==
    Multiplied(MoveAside(LeftOperand(s, left), owner, {Rdx}), owner, left, right,
               before \o <<Op1(name, Reg(s.reg))>>)

\* A spilled operand is read from its slot first.
FromSlot(s, v) == IF IsSpilled(s, v) /\ v \in s.evicted THEN Reload(s, v) ELSE s
ThroughRax(s, owner, left, right, before, name) ==
    WithSource(MoveAside(RightOperand(FromSlot(FromSlot(s, left), right), owner, right),
                         owner, {Rax, Rdx}),
               owner, left, right, before, name)

MaterialiseMul(s, owner, left, right) == ThroughRax(s, owner, left, right, <<>>, "mul")
MaterialiseDiv(s, owner, left, right) ==
    ThroughRax(s, owner, left, right, <<Op2("xor", Reg(Rdx), Reg(Rdx))>>, "div")

\* Mutant: only the registers of arguments are emptied before a call.
PrepareArgumentsOnly(s) ==
    LET Empty(t, r) ==
            LET owner == t.occupancy[r] IN
            IF owner = None \/ r \notin t.locked THEN t
            ELSE IF t.uses[owner] = 0 THEN Discard(t, owner)
            ELSE Evict(t, owner)
    IN  FoldLeft(Empty, s, Pool)

\* Before a call every caller-saved register is emptied: what is still read
\* goes to its slot.
EmptyForCall(s, r) ==
    LET owner == s.occupancy[r] IN
    IF owner = None \/ r \in CalleeSaved THEN s
    ELSE IF s.uses[owner] = 0 THEN Discard(s, owner)
    ELSE Evict(s, owner)
PrepareForCall(s) ==
    LET emptied[n \in 0..Len(Pool)] ==
            IF n = 0 THEN s ELSE EmptyForCall(emptied[n - 1], Pool[n])
    IN  emptied[Len(Pool)]

\* Mutant: the call leaves the last argument's register locked.
ReleaseAllButLast(s) ==
    [s EXCEPT !.locked = @ \ {ParamRegisters[i] : i \in 1..(Len(ParamRegisters) - 1)}]

ReleaseArgumentRegisters(s) ==
    [s EXCEPT !.locked = @ \ {ParamRegisters[i] : i \in DOMAIN ParamRegisters}]

EmitCall(s, arguments) ==
    ReleaseArgumentRegisters(Emit(PrepareForCall(s), Op1("call", Imm(arguments))))

\* A register the calling convention names: the allocation prefers it.
FromRegister(s, owner, r) ==
    LET Moved(t) == IF t.reg = r THEN t ELSE Load(t, Reg(r))
    IN  Moved(Prefer(Allocate(Prefer(s, r), owner), None))

MaterialiseCall(s, owner, arguments) == FromRegister(EmitCall(s, arguments), owner, Rax)
MaterialiseParameter(s, owner, index) == FromRegister(s, owner, ParamRegisters[index])

Materialise(s, v) ==
    LET value == s.val[v]
        left == value.srcs[1]
        right == value.srcs[2]
    IN  CASE value.kind = "int"    -> MaterialiseInteger(s, v, value.n)
          [] value.kind = "string" -> MaterialiseString(s, v, value.n)
          [] value.kind = "AddressOf" -> MaterialiseAddressOf(s, v, left)
          [] value.kind = "copy"   -> MaterialiseCopy(s, v, left)
          [] value.kind = "movsx"  -> MaterialiseSignExtension(s, v, left)
          [] value.kind = "movzx"  -> MaterialiseZeroExtension(s, v, left)
          [] value.kind = "add"    -> MaterialiseAdd(s, v, left, right)
          [] value.kind = "and"    -> MaterialiseAnd(s, v, left, right)
          [] value.kind = "or"     -> MaterialiseOr(s, v, left, right)
          [] value.kind = "xor"    -> MaterialiseXor(s, v, left, right)
          [] value.kind = "sub"    -> MaterialiseSub(s, v, left, right)
          [] value.kind = "mul"    -> MaterialiseMul(s, v, left, right)
          [] value.kind = "div"    -> MaterialiseDiv(s, v, left, right)
          [] value.kind = "shl"    -> MaterialiseLeftShift(s, v, left, right)
          [] value.kind = "shr"    -> MaterialiseRightShift(s, v, left, right)
          [] value.kind = "neg"    -> MaterialiseNeg(s, v, left)
          [] value.kind = "not"    -> MaterialiseNot(s, v, left)
          [] value.kind = "param"  -> MaterialiseParameter(s, v, value.n)
          [] value.kind = "call"   -> MaterialiseCall(s, v, value.n)

\* Evicted sources are reloaded first, but a copy of a spilled register reads
\* the slot itself.
ReloadSource(s, kind, source) ==
    IF source \notin s.evicted \/ (kind = "copy" /\ IsSpilled(s, source)) THEN s
    ELSE Reload(s, source)
ReloadSources(s, v) ==
    LET sources == SourcesOf(s.val[v])
        reloaded[n \in 0..Len(sources)] ==
            IF n = 0 THEN s ELSE ReloadSource(reloaded[n - 1], s.val[v].kind, sources[n])
    IN  reloaded[Len(sources)]

Produce(s, v) == IF s.val[v].kind = "unknown" THEN Allocate(s, v) ELSE Materialise(s, v)
Settle(s, v) ==
    IF IsSpilled(s, v)
    THEN [Discard(Emit(s, Mov(Slot(v), Reg(s.reg))), v) EXCEPT !.evicted = @ \cup {v}]
    ELSE [s EXCEPT !.mat[v] = s.reg]

EnsureMaterialisation(s, v) ==
    IF v \in s.evicted THEN Reload(s, v)
    ELSE IF IsMaterialised(s, v) \/ (IsSpilled(s, v) /\ s.val[v].kind = "unknown") THEN s
    ELSE Settle(Produce(ReloadSources(s, v), v), v)

-----------------------------------------------------------------------------
(* EncoderImplementation of each virtual instruction *)

EnsureOperand(s, v) == IF HasImmediate(s, v) THEN s ELSE EnsureMaterialisation(s, v)

\* The result is computed at once if it or an operand may change later.
Eagerly(s, destination, operands) ==
    IF \E v \in {destination} \cup operands : IsMutable(v)
    THEN EnsureMaterialisation(s, destination) ELSE s

Lazily(s, i) ==
    Eagerly(Redefine(s, i.dst, Value(i.op, i.n, i.srcs)), i.dst, ToSet(i.srcs))

Unspilled(s, vs) == Check(s, \A v \in vs : ~IsSpilled(s, v), "Operands must not be spilled")

EnsureOperands(s, operands) ==
    LET ensured[n \in 0..Len(operands)] ==
            IF n = 0 THEN s ELSE EnsureOperand(ensured[n - 1], operands[n])
    IN  ensured[Len(operands)]
EncodeArithmetic(s, i, operands) == Lazily(EnsureOperands(s, operands), i)

\* The bitwise operations and the sum refuse spilled registers; their operands are
\* materialised from left to right.
OperandsUnspilled(s, i) == Unspilled(s, {i.dst} \cup ToSet(i.srcs))
EncodeAdd(s, i) == EncodeArithmetic(OperandsUnspilled(s, i), i, i.srcs)
EncodeBinaryAnd(s, i) == EncodeArithmetic(OperandsUnspilled(s, i), i, i.srcs)
EncodeBinaryOr(s, i) == EncodeArithmetic(OperandsUnspilled(s, i), i, i.srcs)
EncodeBinaryXor(s, i) == EncodeArithmetic(OperandsUnspilled(s, i), i, i.srcs)
EncodeBitwiseNot(s, i) == EncodeArithmetic(OperandsUnspilled(s, i), i, i.srcs)
EncodeArithmeticNegate(s, i) == EncodeArithmetic(s, i, i.srcs)
\* An operand given twice is materialised only once.
EncodeSub(s, i) == EncodeArithmetic(s, i, IF i.srcs[1] = i.srcs[2] THEN <<i.srcs[1]>> ELSE i.srcs)
\* The right operand comes first.
EncodeMultiplication(s, i) == EncodeArithmetic(s, i, Reverse(i.srcs))
EncodeDivision(s, i) == EncodeArithmetic(s, i, Reverse(i.srcs))

\* The count is materialised first, in rcx if that can be had, and again should
\* materialising the left operand have cost it its register.
Count(s, i) == IF HasImmediate(s, i.srcs[2]) THEN s
               ELSE Prefer(EnsureMaterialisation(Prefer(s, Rcx), i.srcs[2]), None)
EncodeShift(s, i) == Lazily(Count(EnsureOperand(Count(OperandsUnspilled(s, i), i), i.srcs[1]), i), i)
EncodeLeftShift(s, i) == EncodeShift(s, i)
EncodeRightShift(s, i) == EncodeShift(s, i)

\* The destination of an extension is spilled: it is computed on the way to its slot.
ExtendedImmediate(i, n) == IF i.op = "movsx" THEN SignExtendImmediate(n, ExtendedFrom) ELSE n
ThroughScratch(s, i, operand) ==
    LET Stored(t) == Emit(t, Mov(Slot(i.dst), Reg(t.reg)))
    IN  FreeColour(Stored(OnResult(Allocate(s, i.dst), i.op, operand)), i.dst)
FromOperand(s, i, source) ==
    ThroughScratch(NeedsRegister(s, source), i, Reg(PhysicalRegisterOf(s, source)))
ExtendToSlot(s, i, source) ==
    DereferenceAndMaybeFree(
        IF HasImmediate(s, source)
        THEN Emit(s, Mov(Slot(i.dst), Imm(ExtendedImmediate(i, ImmediateOf(s, source)))))
        ELSE IF IsSpilled(s, source) THEN ThroughScratch(s, i, Slot(source))
        ELSE FromOperand(EnsureMaterialisation(s, source), i, source),
        source)
EncodeExtension(s, i) ==
    IF IsSpilled(s, i.dst) THEN ExtendToSlot(s, i, i.srcs[1])
    ELSE Lazily(IF IsSpilled(s, i.srcs[1]) THEN s ELSE EnsureOperand(s, i.srcs[1]), i)
EncodeSignExtend(s, i) == EncodeExtension(s, i)
EncodeZeroExtend(s, i) == EncodeExtension(s, i)

EncodeLoadStringAddress(s, i) == Lazily(Unspilled(s, {i.dst}), i)

EncodeCopyInteger(s, i) ==
    IF IsSpilled(s, i.dst)
    THEN [Emit(s, Mov(Slot(i.dst), Imm(i.n))) EXCEPT !.evicted = @ \cup {i.dst}]
    ELSE Lazily(s, i)

\* A copy into a spilled register goes to its slot at once, through a scratch
\* register if the source is in a slot too.
StoreRegister(s, destination, source) ==
    Emit(NeedsRegister(s, source), Mov(Slot(destination), Reg(PhysicalRegisterOf(s, source))))
CopyToSlot(s, i, source) ==
    DereferenceAndMaybeFree(
        IF HasImmediate(s, source) THEN Emit(s, Mov(Slot(i.dst), Imm(ImmediateOf(s, source))))
        ELSE IF IsSpilled(s, source) THEN ThroughScratch(s, [i EXCEPT !.op = "mov"], Slot(source))
        ELSE StoreRegister(EnsureMaterialisation(s, source), i.dst, source),
        source)

\* A copy of an immediate is an immediate.
CopyToRegister(s, i, source) ==
    IF HasImmediate(s, source)
    THEN Eagerly(DereferenceAndMaybeFree(
                    Redefine(s, i.dst, Value("int", ImmediateOf(s, source), <<>>)), source),
                 i.dst, {})
    ELSE Lazily(IF IsSpilled(s, source) THEN s ELSE EnsureMaterialisation(s, source), i)

EncodeCopy(s, i) ==
    IF IsSpilled(s, i.dst) THEN CopyToSlot(s, i, i.srcs[1]) ELSE CopyToRegister(s, i, i.srcs[1])

EncodeCopyParameter(s, i) ==
    LET abi == ParamRegisters[i.n]
        Unlock(t) == [t EXCEPT !.locked = @ \ {abi}]
    IN  IF IsSpilled(s, i.dst) THEN Unlock(Emit(s, Mov(Slot(i.dst), Reg(abi))))
        ELSE EnsureMaterialisation(
                Unlock(Redefine(s, i.dst, Value("param", i.n, <<>>))), i.dst)

\* An argument passed on the stack.
OutSlot(index) == [kind |-> "out", of |-> index]
PassScratch(s, source, index) ==
    LET Stored(t) == Emit(t, Mov(OutSlot(index), Reg(t.reg)))
    IN  ConsumeUse(FreeColour(Stored(Load(Allocate(s, source), Slot(source))), source), source)
PassFromRegister(s, source, index) ==
    DereferenceAndMaybeFree(
        Emit(NeedsRegister(s, source), Mov(OutSlot(index), Reg(PhysicalRegisterOf(s, source)))), source)
PassOnStack(s, source, index) ==
    IF HasImmediate(s, source)
    THEN ConsumeUse(Emit(s, Mov(OutSlot(index), Imm(ImmediateOf(s, source)))), source)
    ELSE IF IsSpilled(s, source) THEN PassScratch(s, source, index)
    ELSE PassFromRegister(EnsureMaterialisation(s, source), source, index)

\* An argument passed in a register: it is locked until the call.
PassOperand(s, source, abi, operand) ==
    ConsumeUse(Emit(ClearRegister(s, abi, source), Mov(Reg(abi), operand)), source)
MoveArgument(s, source, abi) ==
    IF PhysicalRegisterOf(s, source) = abi THEN s
    ELSE Emit(ReleaseIfUnused(ClearRegister(s, abi, source), source),
              Mov(Reg(abi), Reg(PhysicalRegisterOf(s, source))))
PassInRegister(s, source, abi) ==
    IF HasImmediate(s, source) THEN PassOperand(s, source, abi, Imm(ImmediateOf(s, source)))
    ELSE IF IsSpilled(s, source) THEN PassOperand(s, source, abi, Slot(source))
    ELSE MoveArgument(ConsumeUse(NeedsRegister(EnsureMaterialisation(s, source), source), source),
                      source, abi)

EncodePassArgument(s, i) ==
    IF i.n \notin DOMAIN ParamRegisters THEN PassOnStack(s, i.srcs[1], i.n)
    ELSE PassInRegister([s EXCEPT !.locked = @ \cup {ParamRegisters[i.n]}],
                        i.srcs[1], ParamRegisters[i.n])

EncodeCall(s, i) == EmitCall(s, i.n)

EncodeCallWithResult(s, i) ==
    LET t == Redefine(s, i.dst, Value("call", i.n, <<>>))
    IN  IF IsSpilled(s, i.dst) THEN Emit(EmitCall(t, i.n), Mov(Slot(i.dst), Reg(Rax)))
        ELSE EnsureMaterialisation(t, i.dst)

MoveToRax(s, v) ==
    IF PhysicalRegisterOf(s, v) = Rax THEN s
    ELSE Emit(NeedsRegister(s, v), Mov(Reg(Rax), Reg(PhysicalRegisterOf(s, v))))

\* Mutant: the preference for rax outlives the instruction.
ReturnValuePreferring(s, v) ==
    DereferenceAndMaybeFree(
        IF IsSpilled(s, v) THEN Emit(s, Mov(Reg(Rax), Slot(v)))
        ELSE MoveToRax(EnsureMaterialisation(Prefer(s, Rax), v), v), v)

ReturnValue(s, v) ==
    DereferenceAndMaybeFree(
        IF IsSpilled(s, v) THEN Emit(s, Mov(Reg(Rax), Slot(v)))
        ELSE MoveToRax(Prefer(EnsureMaterialisation(Prefer(s, Rax), v), None), v), v)
EncodeReturn(s, i) ==
    Emit(IF i.srcs = <<>> THEN s ELSE ReturnValue(s, i.srcs[1]), Plain("ret"))

Compare(s, left, right) ==
    DereferenceAndMaybeFree(DereferenceAndMaybeFree(
        Emit(NeedsRegister(SourceReady(s, right), left),
             Op2("cmp", Reg(PhysicalRegisterOf(s, left)), SourceOperand(s, right))), left), right)
EncodeCompareAndJump(s, i) ==
    Compare(EnsureOperand(EnsureMaterialisation(s, i.srcs[1]), i.srcs[2]), i.srcs[1], i.srcs[2])

-----------------------------------------------------------------------------
(* Blocks of memory: EmitMemoryBlock.  A location is an operand; a disposable *)
(* one names a register that may be advanced, for nobody reads it afterwards. *)

\* The moves that cover size bytes from begin on: words, and what is left by a
\* word that ends with the block, over bytes already moved if need be.
BitFloor(n) == CHOOSE w \in {1, 2, 4} : w <= n /\ n < 2 * w
WholeWords(begin, size) == [k \in 1..((size - begin) \div 8) |-> [offset |-> begin + 8 * (k - 1), width |-> 8]]
SmallTail(n) ==
    IF n = BitFloor(n) THEN <<[offset |-> 0, width |-> n]>>
    ELSE <<[offset |-> 0, width |-> BitFloor(n)], [offset |-> n - BitFloor(n), width |-> BitFloor(n)]>>

PlanTail(begin, size) ==
    LET rest == (size - begin) % 8
    IN  WholeWords(begin, size) \o (IF rest = 0 THEN <<>>
                               ELSE IF size >= 8 THEN <<[offset |-> size - 8, width |-> 8]>>
                               ELSE SmallTail(rest))

\* SelectBlockStrategy; a round of the loop moves BodyBytes.
BodyBytes == 16
Unrolls(size) == size < BodyBytes \/ size <= InlineLimit

\* emit, for each chunk: a copy goes through the temporary, None when zeroing.
Moves(to, from, temporary, chunk) ==
    IF temporary = None THEN <<Move(chunk.width, Offset(to, chunk.offset), Imm(0))>>
    ELSE <<Move(chunk.width, Reg(temporary), Offset(from, chunk.offset)),
           Move(chunk.width, Offset(to, chunk.offset), Reg(temporary))>>
MoveAll(to, from, temporary, chunks) ==
    FlattenSeq([k \in DOMAIN chunks |-> Moves(to, from, temporary, chunks[k])])

\* Mutant: the tail is moved at its offsets in the block, though the cursors have advanced.
TailUnshifted(size) == PlanTail(size - (size % BodyBytes), size)

\* What the loop leaves, relative to the cursors it has advanced.
LoopTail(size) ==
    LET moved == size - (size % BodyBytes)
        chunks == PlanTail(moved, size)
    IN  [k \in DOMAIN chunks |-> [chunks[k] EXCEPT !.offset = @ - moved]]

Advance(r) == Op2("add", Reg(r), Imm(BodyBytes))
LoopCode(to, from, temporary, counter, size) ==
    <<Mov(Reg(counter), Imm(size \div BodyBytes)), Plain("label")>>
    \o MoveAll(Memory(to), Memory(from), temporary, WholeWords(0, BodyBytes))
    \o (IF temporary = None THEN <<>> ELSE <<Advance(from)>>)
    \o <<Advance(to), Op2("sub", Reg(counter), Imm(1)), Plain("jne")>>
    \o MoveAll(Memory(to), Memory(from), temporary, LoopTail(size))

\* makeCursor: the register the loop advances is left in reg.
Cursor(s, location, disposable) ==
    IF disposable /\ location.kind = "memory" /\ location.at = 0
    THEN [s EXCEPT !.reg = location.of]
    ELSE OnResult(NewScratch(s), "lea", location)

LoopedThrough(s, to, from, temporary, size) ==
    [s EXCEPT !.code = @ \o LoopCode(to, from, temporary, s.reg, size)]
WithCounter(s, to, temporary, size) == LoopedThrough(NewScratch(s), to, s.reg, temporary, size)
FromCursor(s, from, disposable, temporary, size) ==
    WithCounter(IF temporary = None THEN s ELSE Cursor(s, from, disposable), s.reg, temporary, size)
EmitMemoryBlock(s, to, toDisposable, from, fromDisposable, temporary, size) ==
    IF Unrolls(size) THEN [s EXCEPT !.code = @ \o MoveAll(to, from, temporary, PlanTail(0, size))]
    ELSE FromCursor(Cursor(s, to, toDisposable), from, fromDisposable, temporary, size)
ThroughTemporary(s, to, toDisposable, from, fromDisposable, size) ==
    EmitMemoryBlock(s, to, toDisposable, from, fromDisposable, s.reg, size)

EmitMemoryZero(s, to, size) == EmitMemoryBlock(s, to, FALSE, to, FALSE, None, size)
EmitMemoryCopy(s, to, toDisposable, from, fromDisposable, size) ==
    ThroughTemporary(NewScratch(s), to, toDisposable, from, fromDisposable, size)

-----------------------------------------------------------------------------
(* Addresses, and what they point to *)

EncodeAddressOf(s, i) ==
    Eagerly(Redefine(Unspilled(s, {i.dst}), i.dst, Value("AddressOf", 0, i.srcs)), i.dst, {})

EncodeZeroMemory(s, i) == IF i.n = 0 THEN s ELSE DestroyGuards(EmitMemoryZero(s, Slot(i.dst), i.n))

CopyThrough(s, i) == EmitMemoryCopy(s, Slot(i.dst), FALSE, Memory(s.reg), TRUE, i.n)
EncodeCopyFromData(s, i) ==
    IF i.n = 0 THEN s
    ELSE DestroyGuards(CopyThrough(OnResult(NewScratch(s), "lea", Data), i))

\* acquirePointer: the register with the address is left in reg; it belongs to
\* a guard unless the pointer is read again.
TakePointer(s, source) == [Take(s, source) EXCEPT !.mat[source] = None]
PointerInRegister(s, source, disposable) ==
    IF disposable THEN TakePointer(s, source)
    ELSE [s EXCEPT !.reg = PhysicalRegisterOf(s, source)]
AcquirePointer(s, source, disposable) ==
    IF HasImmediate(s, source) THEN Load(NewScratch(s), Imm(ImmediateOf(s, source)))
    ELSE IF IsSpilled(s, source) THEN Load(NewScratch(s), Slot(source))
    ELSE PointerInRegister(NeedsRegister(EnsureMaterialisation(s, source), source), source, disposable)
IsGuarded(s, r) == s.occupancy[r] \in Guards

\* The value replaces the address if the address is a guard's.
ValueThrough(s, pointer) ==
    Load(IF IsGuarded(s, pointer) THEN s ELSE NewScratch(s), Memory(pointer))
\* Mutant: the guard is not committed, so it frees the register of the result.
CommitToDestroyed(s, destination) ==
    [Redefine(s, destination, Unknown) EXCEPT !.mat[destination] = s.reg]

CommitTo(s, destination) ==
    [Reassign(Redefine(s, destination, Unknown), s.occupancy[s.reg], destination)
        EXCEPT !.mat[destination] = s.reg]
StoreTo(s, destination) ==
    [Redefine(Emit(s, Mov(Slot(destination), Reg(s.reg))), destination, Unknown)
        EXCEPT !.evicted = @ \cup {destination}]
Indirect(s, destination) == IF IsSpilled(s, destination) THEN StoreTo(s, destination) ELSE CommitTo(s, destination)
CopyObject(s, destination) ==
    Redefine(EmitMemoryCopy(s, Slot(destination), FALSE, Memory(s.reg), IsGuarded(s, s.reg),
                            ObjectSize[destination]),
             destination, Unknown)
ThroughPointer(s, destination) ==
    IF IsLargeObject(destination) THEN CopyObject(s, destination)
    ELSE Indirect(ValueThrough(s, s.reg), destination)
IndirectFrom(s, source, destination) ==
    ThroughPointer(
        AcquirePointer(s, source, source # destination /\ ~IsMutable(source) /\ s.uses[source] = 1),
        destination)
EncodeIndirection(s, i) ==
    DestroyGuards(DereferenceAndMaybeFree(IndirectFrom(s, i.srcs[1], i.dst), i.srcs[1]))

\* Both registers go to guards; the map of virtual registers still has them.
StoreThrough(s, pointer) == Emit(s, Mov(Memory(pointer), Reg(s.reg)))
StoreValue(s, pointer, source) == StoreThrough(Take(EnsureMaterialisation(s, source), source), pointer)
StoreObject(s, pointer, source) ==
    EmitMemoryCopy(s, Memory(pointer), TRUE, Slot(source), FALSE, ObjectSize[source])
StoreFrom(s, source) ==
    IF IsLargeObject(source) THEN StoreObject(s, s.reg, source) ELSE StoreValue(s, s.reg, source)
EncodeIndirectStore(s, i) ==
    DestroyGuards(DereferenceAndMaybeFree(DereferenceAndMaybeFree(
        StoreFrom(Take(EnsureMaterialisation(s, i.srcs[1]), i.srcs[1]), i.srcs[2]),
        i.srcs[1]), i.srcs[2]))

Handle(s, i) ==
    CASE i.op = "int"            -> EncodeCopyInteger(s, i)
      [] i.op = "string"         -> EncodeLoadStringAddress(s, i)
      [] i.op = "copy"           -> EncodeCopy(s, i)
      [] i.op = "movsx"          -> EncodeSignExtend(s, i)
      [] i.op = "movzx"          -> EncodeZeroExtend(s, i)
      [] i.op = "add"            -> EncodeAdd(s, i)
      [] i.op = "and"            -> EncodeBinaryAnd(s, i)
      [] i.op = "or"             -> EncodeBinaryOr(s, i)
      [] i.op = "xor"            -> EncodeBinaryXor(s, i)
      [] i.op = "sub"            -> EncodeSub(s, i)
      [] i.op = "mul"            -> EncodeMultiplication(s, i)
      [] i.op = "div"            -> EncodeDivision(s, i)
      [] i.op = "neg"            -> EncodeArithmeticNegate(s, i)
      [] i.op = "not"            -> EncodeBitwiseNot(s, i)
      [] i.op = "shl"            -> EncodeLeftShift(s, i)
      [] i.op = "shr"            -> EncodeRightShift(s, i)
      [] i.op = "AddressOf"      -> EncodeAddressOf(s, i)
      [] i.op = "Indirection"    -> EncodeIndirection(s, i)
      [] i.op = "IndirectStore"  -> EncodeIndirectStore(s, i)
      [] i.op = "ZeroMemory"     -> EncodeZeroMemory(s, i)
      [] i.op = "CopyFromData"   -> EncodeCopyFromData(s, i)
      [] i.op = "CopyParameter"  -> EncodeCopyParameter(s, i)
      [] i.op = "PassArgument"   -> EncodePassArgument(s, i)
      [] i.op = "Call"           -> EncodeCall(s, i)
      [] i.op = "CallWithResult" -> EncodeCallWithResult(s, i)
      [] i.op = "Return"         -> EncodeReturn(s, i)
      [] i.op = "CompareAndJump" -> EncodeCompareAndJump(s, i)
      [] i.op \in {"Label", "UnconditionalJump"} -> s
===============================================================================
