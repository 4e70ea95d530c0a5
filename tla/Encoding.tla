------------------------------ MODULE Encoding ------------------------------
(***************************************************************************)
(* Every byte encoder of Opcodes.cpp against the processor.  A call of an  *)
(* encoder is the pair of the bytes it returns and the instructions that   *)
(* those bytes may be: more than one when the encoder is free to choose    *)
(* between forms, as with a 64-bit store that two 32-bit stores replace.   *)
(*                                                                         *)
(* The calls leave out what no caller may ask for, and the encoders that   *)
(* are known not to do what their name says; DefectiveCalls has those.     *)
(***************************************************************************)
EXTENDS Operations, X86Decoder

CONSTANTS
    Registers,      \* register numbers
    Displacements,  \* 32-bit displacements
    Immediates,     \* 64-bit immediates, as sequences of eight bytes
    Counts,         \* shift counts and bit numbers
    Offsets,        \* jump distances
    IndexedMemories \* Memory structures with an index register

VARIABLES
    code,    \* the bytes of the last call
    meant    \* the instruction sequences it may stand for

vars == <<code, meant>>

WideWidths == Widths \ {8}

Call(bytes, op, width, args) ==
    [code |-> bytes, means |-> {<<Instr(op, width, args)>>}]

Emit(call) == code' = call.code /\ meant' = call.means

At(base, disp) == M(base, NoRegister, 1, disp)

(* The memory operand a Memory structure stands for. *)
Addressed(mem) ==
    M(mem.base, mem.index, IF mem.index = NoRegister THEN 1 ELSE mem.scale, mem.disp)

Low(imm, width) == SubSeq(imm, 1, Size(width))

Memories ==
    {MemBase(b, d) : b \in Registers, d \in Displacements}
        \cup {MemRip(d) : d \in Displacements}
        \cup {MemAbsolute(d) : d \in Displacements}
        \cup IndexedMemories

(* What a caller may pass as a 64-bit add or sub immediate: arithmetics.cpp *)
(* keeps the low half of a value that is a signed 32-bit number.           *)
Encodable(width, imm) == width = 64 => SignExtends(imm, 4)

-----------------------------------------------------------------------------
(* The calls of each family. *)

FixedCalls ==
    \/ Emit(Call(GenerateRet, "ret", 0, <<>>))
    \/ Emit(Call(GenerateNop, "nop", 0, <<>>))
    \/ Emit(Call(GenerateUD2, "ud2", 0, <<>>))
    \/ Emit(Call(GenerateCqo, "sign-extend rax to rdx", 64, <<>>))
    \/ Emit(Call(GenerateCdq, "sign-extend rax to rdx", 32, <<>>))
    \/ Emit(Call(GenerateCwde, "sign-extend rax", 32, <<>>))
    \/ Emit(Call(GenerateCdqe, "sign-extend rax", 64, <<>>))
    \/ \E b \in {0, 255} :
        Emit(Call(GenerateRetImm(256 * b + 8), "ret", 64, <<Imm(<<8, b>>)>>))
    \/ \E v \in {3, 128} :
        Emit(Call(GenerateInt(v), "int", 0, <<Imm(<<v>>)>>))
    \/ \E name \in DOMAIN ControlInstruction :
        Emit(Call(ControlInstruction[name], name, 0, <<>>))

MovImmCalls ==
    \E w \in Widths, r \in Registers, i \in Immediates :
        Emit(Call(GenerateMovImmToReg(w, r, i), "mov", w, <<R(r), Imm(Low(i, w))>>))

StoreImmCalls ==
    \E w \in Widths, b \in Registers, d \in Displacements,
        i \in {j \in Immediates : ~ZeroExtends(j, 4) \/ AtMostInt32Max(j)} :
        Emit([code |-> GenerateMovImmToMem(w, b, d, i),
      means |-> {<<Instr("mov", w, <<At(b, d), Imm(Low(i, w))>>)>>}
                \cup (IF w # 64 THEN {}
                      ELSE {<<Instr("mov", 32, <<At(b, d), Imm(SubSeq(i, 1, 4))>>),
                              Instr("mov", 32, <<At(b, d + 4), Imm(SubSeq(i, 5, 8))>>)>>})])

MovCalls ==
    \/ \E w \in Widths, r \in Registers, s \in Registers :
        Emit(Call(GenerateMovRegToReg(w, r, s), "mov", w, <<R(r), R(s)>>))
    \/ \E w \in Widths, r \in Registers, d \in Displacements, s \in Registers :
        Emit(Call(GenerateMovRegToMem(w, r, d, s), "mov", w, <<At(r, d), R(s)>>))
    \/ \E w \in Widths, r \in Registers, d \in Displacements, s \in Registers :
        Emit(Call(GenerateMovMemToReg(w, r, d, s), "mov", w, <<R(r), At(s, d)>>))

(* A 32-bit move clears the upper half of its destination. *)
Zero(from) == IF from = 8 THEN "movzx8" ELSE IF from = 16 THEN "movzx16" ELSE "mov"
ZeroWidth(from, to) == IF from = 32 THEN 32 ELSE to

ZeroExtendCalls ==
    \/ \E p \in ZeroExtensions, r \in Registers, s \in Registers :
        Emit(Call(GenerateMovZeroExtendReg(p[1], p[2], r, s), Zero(p[1]), ZeroWidth(p[1], p[2]), <<R(r), R(s)>>))
    \/ \E p \in ZeroExtensions, r \in Registers, s \in Registers, d \in Displacements :
        Emit(Call(GenerateMovZeroExtendMem(p[1], p[2], r, d, s), Zero(p[1]), ZeroWidth(p[1], p[2]), <<R(r), At(s, d)>>))

(* Adding zero may be left out. *)
OrNothing(call, zero) ==
    [call EXCEPT !.means = @ \cup (IF zero THEN {<<>>} ELSE {})]

AddImmCalls ==
    \/ \E <<w, i>> \in {p \in Widths \X Immediates : Encodable(p[1], p[2])} :
        \E r \in Registers :
        Emit(OrNothing(Call(GenerateAddImmToReg(w, r, AsImmediate(w, i)), "add", w, <<R(r), Imm(Low(i, w))>>),
                      IsZero(i, Size(w))))
    \/ \E <<w, i>> \in {p \in Widths \X Immediates : Encodable(p[1], p[2])} :
        \E b \in Registers, d \in Displacements :
        Emit(OrNothing(Call(GenerateAddImmToMem(w, b, d, AsImmediate(w, i)), "add", w,
                                <<At(b, d), Imm(Low(i, w))>>),
                           IsZero(i, Size(w))))

SubImmCalls ==
    \/ \E <<w, i>> \in {p \in Widths \X Immediates : Encodable(p[1], p[2])} :
        \E r \in Registers :
        Emit(Call(GenerateSubImmToReg(w, r, AsImmediate(w, i)), "sub", w, <<R(r), Imm(Low(i, w))>>))
    \/ \E <<w, i>> \in {p \in Widths \X Immediates : Encodable(p[1], p[2])} :
        \E b \in Registers, d \in Displacements :
        Emit(Call(GenerateSubImmToMem(w, b, d, AsImmediate(w, i)), "sub", w, <<At(b, d), Imm(Low(i, w))>>))

AddSubCalls ==
    \/ \E w \in Widths, r \in Registers, s \in Registers :
        \/ Emit(Call(GenerateAddRegToReg(w, r, s), "add", w, <<R(r), R(s)>>))
        \/ Emit(Call(GenerateSubRegToReg(w, r, s), "sub", w, <<R(r), R(s)>>))
        \/ Emit(Call(GenerateXorReg(w, r, s), "xor", w, <<R(r), R(s)>>))
    \/ \E w \in Widths, r \in Registers, s \in Registers, d \in Displacements :
        \/ Emit(Call(GenerateAddMemToReg(w, r, d, s), "add", w, <<R(r), At(s, d)>>))
        \/ Emit(Call(GenerateSubMemToReg(w, r, d, s), "sub", w, <<R(r), At(s, d)>>))
        \/ Emit(Call(GenerateAddRegToMem(w, r, d, s), "add", w, <<At(r, d), R(s)>>))
        \/ Emit(Call(GenerateSubRegToMem(w, r, d, s), "sub", w, <<At(r, d), R(s)>>))

(* mul and div work on rax and rdx; imul has a two-operand form that keeps *)
(* the low half, which a byte multiplication takes from 32 bits.           *)
MulDivCalls ==
    \/ \E w \in Widths, r \in Registers :
        \/ Emit(Call(GenerateUnsignedMulRegToReg(w, r), "mul", w, <<R(r)>>))
        \/ Emit(Call(GenerateUnsignedDiv(w, r), "div", w, <<R(r)>>))
        \/ Emit(Call(GenerateSignedDiv(w, r), "idiv", w, <<R(r)>>))
        \/ Emit(Call(GenerateNegReg(w, r), "neg", w, <<R(r)>>))
    \/ \E w \in Widths, b \in Registers, d \in Displacements :
        \/ Emit(Call(GenerateUnsignedMulRegToMem(w, b, d), "mul", w, <<At(b, d)>>))
        \/ Emit(Call(GenerateUnsignedDivMem(w, b, d), "div", w, <<At(b, d)>>))
        \/ Emit(Call(GenerateSignedDivMem(w, b, d), "idiv", w, <<At(b, d)>>))
    \/ \E w \in Widths, r \in Registers, s \in Registers :
        Emit(Call(GenerateSignedMulRegToReg(w, r, s), "imul", ImulWidth(w), <<R(r), R(s)>>))
    \/ \E w \in Widths, r \in Registers, d \in Displacements, s \in Registers :
        Emit(Call(GenerateSignedMulMemToReg(w, r, d, s), "imul", ImulWidth(w), <<R(r), At(s, d)>>))
    \/ \E <<w, i>> \in {p \in Widths \X Immediates : Encodable(p[1], p[2])} :
        \E r \in Registers :
        Emit(Call(GenerateSignedMulImmToReg(w, r, i), "imul", ImulWidth(w),
                      <<R(r), R(r), Imm(Extended(ImulImm(w, i), ImulWidth(w)))>>))

StackCalls ==
    \/ \E r \in Registers :
        \/ Emit(Call(GeneratePushReg64(r), "push", 64, <<R(r)>>))
        \/ Emit(Call(GeneratePopReg64(r), "pop", 64, <<R(r)>>))
    \/ \E i \in {j \in Immediates : SignExtends(j, 4)} :
        Emit(Call(GeneratePushImm(i), "push", 64, <<Imm(i)>>))
    \/ \E m \in Memories :
        \/ Emit(Call(GeneratePushMem(m), "push", 64, <<Addressed(m)>>))
        \/ Emit(Call(GeneratePopMem(m), "pop", 64, <<Addressed(m)>>))

(* Register calls of registers that need no REX prefix. *)
TransferCalls ==
    \/ \E o \in Offsets :
        \/ Emit(Call(GenerateIndirectCall(o), "call", 64, <<Rel(o - 5)>>))
        \/ Emit(Call(GenerateIndirectCall2(o), "call", 64, <<At(Rip, o)>>))
        \/ Emit(Call(GenerateCallRel32(o), "call", 64, <<Rel(o)>>))
        \/ Emit(Call(GenerateJmpRel32(o), "jmp", 64, <<Rel(o)>>))
    \/ \E r \in Registers \cap 0 .. 7 :
        Emit(Call(GenerateRegisterCall(r), "call", 64, <<R(r)>>))
    \/ \E o \in Offsets \cap -128 .. 127 :
        \/ Emit(Call(GenerateJmpRel8(o), "jmp", 64, <<Rel(o)>>))
        \/ Emit(Call(GenerateJrcxz(o), "jrcxz", 64, <<Rel(o)>>))
        \/ Emit(Call(GenerateLoop(o), "loop", 64, <<Rel(o)>>))
    \/ \E cc \in 0 .. 15, o \in Offsets \cap -128 .. 127 :
        Emit(Call(GenerateJccRel8(cc, o), "j" \o Conditions[cc + 1], 64, <<Rel(o)>>))
    \/ \E cc \in 0 .. 15, o \in Offsets :
        Emit(Call(GenerateJccRel32(cc, o), "j" \o Conditions[cc + 1], 64, <<Rel(o)>>))
    \/ \E r \in Registers :
        \/ Emit(Call(GenerateCallReg(r), "call", 64, <<R(r)>>))
        \/ Emit(Call(GenerateJmpReg(r), "jmp", 64, <<R(r)>>))
    \/ \E m \in Memories :
        \/ Emit(Call(GenerateCallMem(m), "call", 64, <<Addressed(m)>>))
        \/ Emit(Call(GenerateJmpMem(m), "jmp", 64, <<Addressed(m)>>))

LeaCalls ==
    \/ \E s \in Registers \cup {Rip}, d \in Displacements, r \in Registers :
        Emit(Call(GenerateLeaToReg(s, d, r), "lea", 64, <<R(r), At(s, d)>>))
    \/ \E w \in WideWidths, r \in Registers, m \in Memories :
        Emit(Call(GenerateLea(w, r, m), "lea", w, <<R(r), Addressed(m)>>))

OldShiftCalls ==
    \/ \E w \in Widths, r \in Registers, n \in Counts :
        \/ Emit(Call(GenerateSignedSarImmToReg(w, r, n), "sar", w, <<R(r), Imm(<<n>>)>>))
        \/ Emit(Call(GenerateSignedShrImmToReg(w, r, n), "shr", w, <<R(r), Imm(<<n>>)>>))
        \/ Emit(Call(GenerateSalReg(w, r, n), "shl", w, <<R(r), Imm(<<n>>)>>))
        \/ Emit(Call(GenerateSarReg(w, r, n), "sar", w, <<R(r), Imm(<<n>>)>>))
    \/ \E w \in Widths, b \in Registers, d \in Displacements, n \in Counts :
        \/ Emit(Call(GenerateSignedShrImmToMem(w, b, d, n), "shr", w, <<At(b, d), Imm(<<n>>)>>))
        \/ Emit(Call(GenerateSalMem(w, b, d, n), "shl", w, <<At(b, d), Imm(<<n>>)>>))
        \/ Emit(Call(GenerateSarMem(w, b, d, n), "sar", w, <<At(b, d), Imm(<<n>>)>>))

-----------------------------------------------------------------------------
(* The calls of MemoryOpcodes. *)

OpName(table, op) == CHOOSE name \in DOMAIN table : table[name] = op

AluName(op) == Arithmetic[op + 1]

(* An immediate that does not fit its operand yields no instruction. *)
Checked(call, width, imm) ==
    IF ImmFits(width, imm) THEN call ELSE [call EXCEPT !.means = {<<>>}]

AluCalls ==
    \/ \E o \in 0 .. 7, w \in Widths :
        \E r \in Registers, s \in Registers :
        Emit(Call(GenerateAluRegReg(o, w, r, s), AluName(o), w, <<R(r), R(s)>>))
    \/ \E o \in {0, 7}, w \in Widths, m \in Memories, r \in Registers :
        \/ Emit(Call(GenerateAluRegMem(o, w, m, r), AluName(o), w, <<Addressed(m), R(r)>>))
        \/ Emit(Call(GenerateAluMemReg(o, w, r, m), AluName(o), w, <<R(r), Addressed(m)>>))

AluImmCalls ==
    \/ \E o \in 0 .. 7, w \in Widths, r \in Registers, i \in Immediates :
        Emit(Checked(Call(GenerateAluImmReg(o, w, r, i), AluName(o), w, <<R(r), Imm(Low(i, w))>>), w, i))
    \/ \E o \in {1, 7}, w \in Widths, m \in Memories, i \in Immediates :
        Emit(Checked(Call(GenerateAluImmMem(o, w, m, i), AluName(o), w, <<Addressed(m), Imm(Low(i, w))>>), w, i))

TestCalls ==
    \/ \E w \in Widths, r \in Registers, s \in Registers :
        Emit(Call(GenerateTestRegReg(w, r, s), "test", w, <<R(r), R(s)>>))
    \/ \E w \in Widths, m \in Memories, s \in Registers :
        Emit(Call(GenerateTestMemReg(w, m, s), "test", w, <<Addressed(m), R(s)>>))
    \/ \E w \in Widths, r \in Registers, i \in Immediates :
        Emit(Checked(Call(GenerateTestImmReg(w, r, i), "test", w, <<R(r), Imm(Low(i, w))>>), w, i))
    \/ \E w \in Widths, m \in Memories, i \in Immediates :
        Emit(Checked(Call(GenerateTestImmMem(w, m, i), "test", w, <<Addressed(m), Imm(Low(i, w))>>), w, i))

UnaryName(op) == IF op <= 1 THEN <<"inc", "dec">>[op + 1] ELSE Unary[op + 1]

UnaryCalls ==
    \/ \E o \in 0 .. 7, w \in Widths, r \in Registers :
        Emit(Call(GenerateUnaryReg(o, w, r), UnaryName(o), w, <<R(r)>>))
    \/ \E o \in 0 .. 7, w \in Widths, m \in Memories :
        Emit(Call(GenerateUnaryMem(o, w, m), UnaryName(o), w, <<Addressed(m)>>))

LoadStoreCalls ==
    \/ \E w \in Widths, m \in Memories, r \in Registers :
        \/ Emit(Call(GenerateMovLoad(w, r, m), "mov", w, <<R(r), Addressed(m)>>))
        \/ Emit(Call(GenerateMovStore(w, m, r), "mov", w, <<Addressed(m), R(r)>>))
        \/ Emit(Call(GenerateXchgMemReg(w, m, r), "xchg", w, <<Addressed(m), R(r)>>))
        \/ Emit(Call(GenerateCmpxchgMemReg(w, m, r), "cmpxchg", w, <<Addressed(m), R(r)>>))
        \/ Emit(Call(GenerateLockPrefix \o GenerateXaddMemReg(w, m, r), "xadd", w, <<Addressed(m), R(r)>>))
    \/ \E w \in Widths, r \in Registers, s \in Registers :
        Emit(Call(GenerateXchgRegReg(w, r, s), "xchg", w, <<R(r), R(s)>>))
    \/ \E w \in Widths, m \in Memories, i \in Immediates :
        Emit(Checked(Call(GenerateMovStoreImm(w, m, i), "mov", w, <<Addressed(m), Imm(Low(i, w))>>), w, i))

ExtendName(sign, from) ==
    IF ~sign THEN Zero(from)
    ELSE CASE from = 8 -> "movsx8" [] from = 16 -> "movsx16" [] from = 32 -> "movsx32"

Narrower == {p \in Widths \X Widths : p[1] < p[2]}

ExtendCalls ==
    \/ \E g \in BOOLEAN, p \in Narrower, r \in Registers, s \in Registers :
        Emit(Call(GenerateMovExtendRegToReg(g, p[2], p[1], r, s), ExtendName(g, p[1]),
          IF g THEN p[2] ELSE ZeroWidth(p[1], p[2]), <<R(r), R(s)>>))
    \/ \E g \in BOOLEAN, p \in Narrower, r \in Registers, m \in Memories :
        Emit(Call(GenerateMovExtendMemToReg(g, p[2], p[1], r, m), ExtendName(g, p[1]),
               IF g THEN p[2] ELSE ZeroWidth(p[1], p[2]), <<R(r), Addressed(m)>>))

ConditionCalls ==
    \/ \E w \in WideWidths :
        \E cc \in 0 .. 15, r \in Registers, s \in Registers :
        Emit(Call(GenerateCmovRegReg(cc, w, r, s), "cmov" \o Conditions[cc + 1], w, <<R(r), R(s)>>))
    \/ \E cc \in {0, 15}, w \in WideWidths, r \in Registers, m \in Memories :
        Emit(Call(GenerateCmovMemReg(cc, w, r, m), "cmov" \o Conditions[cc + 1], w, <<R(r), Addressed(m)>>))
    \/ \E cc \in 0 .. 15, r \in Registers :
        Emit(Call(GenerateSetccReg(cc, r), "set" \o Conditions[cc + 1], 8, <<R(r)>>))
    \/ \E cc \in 0 .. 15, m \in Memories :
        Emit(Call(GenerateSetccMem(cc, m), "set" \o Conditions[cc + 1], 8, <<Addressed(m)>>))

ImulCalls ==
    \/ \E w \in WideWidths, r \in Registers, s \in Registers :
        Emit(Call(GenerateImulRegReg(w, r, s), "imul", w, <<R(r), R(s)>>))
    \/ \E w \in WideWidths, r \in Registers, m \in Memories :
        Emit(Call(GenerateImulRegMem(w, r, m), "imul", w, <<R(r), Addressed(m)>>))
    \/ \E w \in WideWidths, r \in Registers, s \in Registers, i \in Immediates :
        Emit(Checked(Call(GenerateImulRegRegImm(w, r, s, i), "imul", w, <<R(r), R(s), Imm(Low(i, w))>>), w, i))
    \/ \E w \in WideWidths, r \in Registers, m \in {MemBase(b, 8) : b \in Registers}, i \in Immediates :
        Emit(Checked(Call(GenerateImulRegMemImm(w, r, m, i), "imul", w, <<R(r), Addressed(m), Imm(Low(i, w))>>), w, i))

ShiftCalls ==
    \/ \E o \in DOMAIN ShiftOp, w \in Widths, r \in Registers, n \in Counts :
        \/ Emit(Call(GenerateShiftRegImm(ShiftOp[o], w, r, n), Shifts[ShiftOp[o] + 1], w, <<R(r), Imm(<<n>>)>>))
        \/ Emit(Call(GenerateShiftRegCl(ShiftOp[o], w, r), Shifts[ShiftOp[o] + 1], w, <<R(r), R(1)>>))
    \/ \E o \in DOMAIN ShiftOp, w \in Widths, m \in Memories, n \in Counts :
        \/ Emit(Call(GenerateShiftMemImm(ShiftOp[o], w, m, n), Shifts[ShiftOp[o] + 1], w, <<Addressed(m), Imm(<<n>>)>>))
        \/ Emit(Call(GenerateShiftMemCl(ShiftOp[o], w, m), Shifts[ShiftOp[o] + 1], w, <<Addressed(m), R(1)>>))
    \/ \E g \in BOOLEAN, w \in WideWidths, r \in Registers, s \in Registers, n \in Counts :
        \/ Emit(Call(GenerateDoubleShiftRegRegImm(g, w, r, s, n), IF g THEN "shrd" ELSE "shld", w, <<R(r), R(s), Imm(<<n>>)>>))
        \/ Emit(Call(GenerateDoubleShiftRegRegCl(g, w, r, s), IF g THEN "shrd cl" ELSE "shld cl", w, <<R(r), R(s)>>))

BitCalls ==
    \/ \E o \in 0 .. 3, w \in WideWidths :
        \E r \in Registers, s \in Registers :
        Emit(Call(GenerateBitTestRegReg(o, w, r, s), Bits[o + 1], w, <<R(r), R(s)>>))
    \/ \E o \in 0 .. 3, w \in WideWidths, r \in Registers, n \in Counts :
        Emit(Call(GenerateBitTestRegImm(o, w, r, n), Bits[o + 1], w, <<R(r), Imm(<<n>>)>>))
    \/ \E o \in 0 .. 3, w \in WideWidths, m \in Memories, s \in Registers :
        Emit(Call(GenerateBitTestMemReg(o, w, m, s), Bits[o + 1], w, <<Addressed(m), R(s)>>))
    \/ \E o \in 0 .. 3, w \in WideWidths, m \in Memories, n \in Counts :
        Emit(Call(GenerateBitTestMemImm(o, w, m, n), Bits[o + 1], w, <<Addressed(m), Imm(<<n>>)>>))
    \/ \E g \in BOOLEAN, w \in WideWidths, r \in Registers, s \in Registers :
        Emit(Call(GenerateBitScanRegReg(g, w, r, s), IF g THEN "bsr" ELSE "bsf", w, <<R(r), R(s)>>))
    \/ \E g \in BOOLEAN, w \in WideWidths, r \in Registers, m \in Memories :
        Emit(Call(GenerateBitScanMemReg(g, w, r, m), IF g THEN "bsr" ELSE "bsf", w, <<R(r), Addressed(m)>>))
    \/ \E w \in {32, 64}, r \in Registers :
        Emit(Call(GenerateBswap(w, r), "bswap", w, <<R(r)>>))

RepName(rep) == CASE rep = "None" -> "" [] rep = "Rep" -> "rep " [] rep = "Repne" -> "repne "

SystemCalls ==
    \/ \E o \in DOMAIN StringOp, w \in Widths, p \in {"None", "Rep", "Repne"} :
        Emit(Call(GenerateStringOp(StringOp[o], w, p), RepName(p) \o StringNames[StringOp[o]], w, <<>>))
    \/ \E n \in {0, 3, 7, 8}, r \in Registers :
        \/ Emit(Call(GenerateMovToControlReg(n, r), "mov", 64, <<Special("cr", n), R(r)>>))
        \/ Emit(Call(GenerateMovFromControlReg(r, n), "mov", 64, <<R(r), Special("cr", n)>>))
        \/ Emit(Call(GenerateMovToDebugReg(n, r), "mov", 64, <<Special("dr", n), R(r)>>))
        \/ Emit(Call(GenerateMovFromDebugReg(r, n), "mov", 64, <<R(r), Special("dr", n)>>))
    \/ \E o \in DOMAIN SystemTableOp, m \in Memories :
        Emit(Call(GenerateSystemTableMem(SystemTableOp[o], m), SystemTables[SystemTableOp[o] + 1], 0, <<Addressed(m)>>))
    \/ \E r \in Registers :
        \/ Emit(Call(GenerateLtr(r), "ltr", 0, <<R(r)>>))
        \/ Emit(Call(GenerateLldt(r), "lldt", 0, <<R(r)>>))
    \/ \E w \in Widths \ {64} :
        \/ Emit(Call(GenerateInImm8(w, 96), "in", w, <<Imm(<<96>>)>>))
        \/ Emit(Call(GenerateInDx(w), "in", w, <<R(2)>>))
        \/ Emit(Call(GenerateOutImm8(w, 96), "out", w, <<Imm(<<96>>)>>))
        \/ Emit(Call(GenerateOutDx(w), "out", w, <<R(2)>>))

-----------------------------------------------------------------------------
(* The calls of Operations: EmitInstruction of a physical instruction.     *)

Understood(operand, width) ==
    CASE IsRegister(operand) -> R(operand.index)
      [] IsMemory(operand) -> At(operand.relativeTo, operand.offset)
      [] IsInteger(operand) -> Imm(Low(operand.value, width))
      [] operand.kind = "StringAddress" -> M(Rip, NoRegister, 1, 0)

OperationNames ==
    [Mov |-> "mov", Add |-> "add", Sub |-> "sub", BinaryOr |-> "or", BinaryAnd |-> "and",
     BinaryXor |-> "xor", Cmp |-> "cmp", BitwiseNot |-> "not", Neg |-> "neg", Mul |-> "mul",
     Div |-> "div", LeftShift |-> "shl", RightShift |-> "shr"]

Performed(i, left, right) ==
    [code |-> EmitInstruction(i),
     means |-> {<<Instr(OperationNames[i.name], i.width, <<Understood(left, i.width), right>>)>>}]

Places == [kind : {"Register"}, index : Registers]
            \cup [kind : {"Memory"}, relativeTo : Registers, offset : Displacements]

Values == Places \cup [kind : {"Integer"}, value : Immediates]

(* Immediates wider than the logical instructions can hold yield nothing,  *)
(* and a 64-bit store of a number between the largest signed and the       *)
(* largest unsigned one of 32 bits sign-extends it.                        *)
Holds(name, width, to, value) ==
    CASE name \in {"BinaryOr", "BinaryAnd", "BinaryXor", "Cmp"} -> ImmFits(width, value)
      [] name = "Mov" -> IsRegister(to) \/ ~ZeroExtends(value, 4) \/ AtMostInt32Max(value)
      [] OTHER -> TRUE

(* Two moves may replace one, and adding zero may be left out. *)
Alternatives(i) ==
    IF ~IsInteger(i.source) THEN {}
    ELSE IF i.name = "Mov" /\ i.width = 64 /\ IsMemory(i.destination)
    THEN {<<Instr("mov", 32, <<Understood(i.destination, 32), Imm(SubSeq(i.source.value, 1, 4))>>),
            Instr("mov", 32, <<At(i.destination.relativeTo, i.destination.offset + 4),
                               Imm(SubSeq(i.source.value, 5, 8))>>)>>}
    ELSE IF i.name \in {"Add", "Sub"} /\ IsZero(i.source.value, Size(i.width))
    THEN {<<>>}
    ELSE {}

BinaryOperations ==
    \E name \in {"Mov", "Add", "Sub", "BinaryOr", "BinaryAnd", "BinaryXor"}, w \in Widths :
        \E to \in Places, from \in Values :
            LET i == [name |-> name, width |-> w, destination |-> to, source |-> from]
            IN  /\ Accepts(i)
                /\ IsInteger(from) => Holds(name, w, to, from.value)
                /\ Emit([Performed(i, to, Understood(from, w)) EXCEPT !.means = @ \cup Alternatives(i)])

Comparisons ==
    \E w \in Widths, to \in Places, from \in Values :
        LET i == [name |-> "Cmp", width |-> w, left |-> to, right |-> from]
        IN  /\ Accepts(i)
            /\ IsInteger(from) => Holds("Cmp", w, to, from.value)
            /\ Emit(Performed(i, to, Understood(from, w)))

ShiftOperations ==
    \E name \in {"LeftShift", "RightShift"}, w \in Widths, to \in Places :
        \/ \E n \in Counts :
               Emit(Performed([name |-> name, width |-> w, destination |-> to,
                               source |-> IntegerOperand(Quadword(n))], to, Imm(<<n>>)))
        \/ Emit(Performed([name |-> name, width |-> w, destination |-> to,
                            source |-> RegisterOperand(Rcx)], to, R(Rcx)))

UnaryOperations ==
    \E name \in {"BitwiseNot", "Neg", "Mul", "Div"}, w \in Widths, operand \in Places :
        LET i == [name |-> name, width |-> w, operand |-> operand]
        IN  Emit([code |-> EmitInstruction(i),
                  means |-> {<<Instr(OperationNames[name], w, <<Understood(operand, w)>>)>>}])

(* xchg is symmetric, and its memory operand comes first. *)
Exchanges ==
    \E w \in Widths, to \in Places, from \in Places :
        LET i == [name |-> "Xchg", width |-> w, destination |-> to, source |-> from]
            memoryFirst == IF IsMemory(from) THEN <<from, to>> ELSE <<to, from>>
        IN  /\ Accepts(i)
            /\ Emit(Call(EmitInstruction(i), "xchg", w,
                         <<Understood(memoryFirst[1], w), Understood(memoryFirst[2], w)>>))

Addresses ==
    \E w \in Widths \ {8}, r \in Registers,
       from \in {StringAddressOperand(0, 0)} \cup {p \in Places : IsMemory(p)} :
        Emit(Call(EmitInstruction([name |-> "Lea", width |-> w, destination |-> RegisterOperand(r),
                                   address |-> from]),
                  "lea", w, <<R(r), Understood(from, w)>>))

Extensions ==
    \E sign \in BOOLEAN, p \in Narrower, r \in Registers, s \in Registers :
        Emit(Call(EmitInstruction([name |-> IF sign THEN "SignExtend" ELSE "ZeroExtend",
                                   destinationWidth |-> p[2], sourceWidth |-> p[1],
                                   destination |-> RegisterOperand(r), source |-> RegisterOperand(s)]),
                  ExtendName(sign, p[1]), IF sign THEN p[2] ELSE ZeroWidth(p[1], p[2]), <<R(r), R(s)>>))

Conditional ==
    \E name \in DOMAIN Condition :
        Emit(Call(EmitInstruction([name |-> "Jcc", condition |-> name, labelId |-> 1]),
                  "j" \o Conditions[Condition[name] + 1], 64, <<Rel(0)>>))

OperationCalls ==
    BinaryOperations \/ Comparisons \/ ShiftOperations \/ UnaryOperations \/ Exchanges
        \/ Addresses \/ Extensions \/ Conditional

-----------------------------------------------------------------------------
(* Calls whose bytes are not what the encoder's name says. *)

DefectiveCalls ==
    \/ \E r \in Registers \cap 8 .. 15 :
        Emit(Call(GenerateRegisterCall(r), "call", 64, <<R(r)>>))
    \/ Emit(Call(GenerateCwd, "sign-extend rax to rdx", 16, <<>>))
        \/ Emit(Call(GenerateCbw, "sign-extend rax", 16, <<>>))

-----------------------------------------------------------------------------
(* The encoders are pure: a behaviour is one call. *)

Idle == code = <<>> /\ meant = {<<>>}

Init == Idle

Move == MovImmCalls \/ StoreImmCalls \/ MovCalls \/ ZeroExtendCalls \/ ExtendCalls
            \/ LoadStoreCalls \/ LeaCalls
Arithmetics == AddImmCalls \/ SubImmCalls \/ AddSubCalls \/ MulDivCalls \/ ImulCalls \/ UnaryCalls
Logic == AluCalls \/ AluImmCalls \/ TestCalls \/ ConditionCalls
ShiftsAndBits == OldShiftCalls \/ ShiftCalls \/ BitCalls
Transfer == FixedCalls \/ StackCalls \/ TransferCalls \/ SystemCalls

Next ==
    /\ Idle
    /\ Move \/ Arithmetics \/ Logic \/ ShiftsAndBits \/ Transfer \/ OperationCalls

EncodingSpec == Init /\ [][Next]_vars

DefectiveSpec == Init /\ [][Idle /\ DefectiveCalls]_vars

-----------------------------------------------------------------------------
(* The bytes are the encodings of the instructions, one behind the other. *)
InstructionsOf[bytes \in Seq(0 .. 255)] ==
    IF bytes = <<>> THEN <<>>
    ELSE LET first == Decode(bytes)
         IN  IF first.next > Len(bytes) + 1 THEN <<Undefined>>
             ELSE <<first.instr>> \o InstructionsOf[SubSeq(bytes, first.next, Len(bytes))]

(* The processor reads from the bytes of an encoder what the encoder was   *)
(* asked for, nothing less and nothing more.                               *)
DecodesAsMeant == InstructionsOf[code] \in meant

(* What is put out are bytes, at most the fifteen an instruction may have, *)
(* or twice that for the store that becomes two.                           *)
TypeOK == code \in Seq(0 .. 255) /\ Len(code) <= 30
=============================================================================
