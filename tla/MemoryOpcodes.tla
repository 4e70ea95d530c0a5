--------------------------- MODULE MemoryOpcodes ---------------------------
(***************************************************************************)
(* The byte encoders of Opcodes.cpp that take their width and operation as *)
(* parameters and address memory through a Memory structure: base, index,  *)
(* scale and displacement, rip-relative or absolute.                       *)
(***************************************************************************)
EXTENDS Opcodes

NoRegister == 17

MemBase(base, disp) ==
    [base |-> base, index |-> NoRegister, scale |-> 1, disp |-> disp]
MemIndexed(base, index, scale, disp) ==
    [base |-> base, index |-> index, scale |-> scale, disp |-> disp]
MemRip(disp) == MemBase(Rip, disp)
MemAbsolute(address) == MemBase(NoRegister, address)

(* The enumerations whose values are opcode fields. *)
AluOp == [Add |-> 0, Or |-> 1, Adc |-> 2, Sbb |-> 3,
          And |-> 4, Sub |-> 5, Xor |-> 6, Cmp |-> 7]
ShiftOp == [Rol |-> 0, Ror |-> 1, Rcl |-> 2, Rcr |-> 3,
            Shl |-> 4, Shr |-> 5, Sar |-> 7]
UnaryOp == [Inc |-> 0, Dec |-> 1, Not |-> 2, Neg |-> 3,
            Mul |-> 4, Imul |-> 5, Div |-> 6, Idiv |-> 7]
BitOp == [Bt |-> 0, Bts |-> 1, Btr |-> 2, Btc |-> 3]
StringOp == [Movs |-> \hA4, Cmps |-> \hA6, Stos |-> \hAA, Lods |-> \hAC, Scas |-> \hAE]
SystemTableOp == [Sgdt |-> 0, Sidt |-> 1, Lgdt |-> 2, Lidt |-> 3, Invlpg |-> 7]

-----------------------------------------------------------------------------
(* Immediates. *)

ImmSize(width) == IF width = 64 THEN 4 ELSE Size(width)

(* The value is that of its n lowest bytes, read as a signed number. *)
SignExtends(imm, n) ==
    \A i \in n + 1 .. 8 : imm[i] = IF imm[n] >= 128 THEN 255 ELSE 0

FitsI8(imm) == SignExtends(imm, 1)

ImmFits(width, imm) ==
    \/ SignExtends(imm, ImmSize(width))
    \/ width # 64 /\ ZeroExtends(imm, ImmSize(width))

ImmNormalise(width, imm) ==
    [i \in 1 .. 8 |-> IF i <= Size(width) THEN imm[i]
                      ELSE IF imm[Size(width)] >= 128 THEN 255 ELSE 0]

PutImm(imm, count) == SubSeq(imm, 1, count)

-----------------------------------------------------------------------------
(* Operands. *)

MemExtBase(mem) == mem.base \in 8 .. 15
MemExtIndex(mem) == mem.index \in 8 .. 15

ScaleBits(scale) == CASE scale = 2 -> 1 [] scale = 4 -> 2 [] scale = 8 -> 3 [] OTHER -> 0

(* Index field 4 stands for no index. *)
MemSib(mem, base) ==
    Sib(ScaleBits(mem.scale), IF mem.index = NoRegister THEN 4 ELSE mem.index, base)

PutMemOperand(regField, mem) ==
    IF mem.base = Rip
    THEN ModRM(0, regField, 5) \o LittleEndian(mem.disp, 4)
    ELSE IF mem.base = NoRegister
    THEN ModRM(0, regField, 4) \o MemSib(mem, 5) \o LittleEndian(mem.disp, 4)
    ELSE IF mem.index # NoRegister \/ mem.base % 8 = 4
    THEN ModRM(DispMod(mem.base, mem.disp), regField, 4) \o MemSib(mem, mem.base)
             \o EmitDisp(DispMod(mem.base, mem.disp), mem.disp)
    ELSE ModRM(DispMod(mem.base, mem.disp), regField, mem.base)
             \o EmitDisp(DispMod(mem.base, mem.disp), mem.disp)

PutRex(w, r, x, b, force) ==
    IF w \/ r \/ x \/ b \/ force THEN <<RexBits(w, r, x, b)>> ELSE <<>>

OperandSize(width) == IF width = 16 THEN <<\h66>> ELSE <<>>

EmitReg(width, opcode, reg, rm, regIsByte, rmIsByte) ==
    OperandSize(width)
        \o PutRex(width = 64, reg >= 8, FALSE, rm >= 8,
                  \/ regIsByte /\ RequiresByteRex(reg)
                  \/ rmIsByte /\ RequiresByteRex(rm))
        \o opcode \o ModRM(3, reg, rm)

EmitMem(width, opcode, regField, mem, regIsByte) ==
    OperandSize(width)
        \o PutRex(width = 64, regField >= 8, MemExtIndex(mem), MemExtBase(mem),
                  regIsByte /\ RequiresByteRex(regField))
        \o opcode \o PutMemOperand(regField, mem)

IsByte(width) == width = 8

-----------------------------------------------------------------------------
(* No-operations, returns, interrupts and the instructions of Opcodes.h    *)
(* that have no operand.                                                   *)

ControlInstruction ==
    [int3 |-> <<\hCC>>, hlt |-> <<\hF4>>, leave |-> <<\hC9>>, cli |-> <<\hFA>>,
     sti |-> <<\hFB>>, clc |-> <<\hF8>>, stc |-> <<\hF9>>, cmc |-> <<\hF5>>,
     cld |-> <<\hFC>>, std |-> <<\hFD>>, pushfq |-> <<\h9C>>, popfq |-> <<\h9D>>,
     lahf |-> <<\h9F>>, sahf |-> <<\h9E>>, pause |-> <<\hF3, \h90>>,
     syscall |-> <<\h0F, \h05>>, sysretq |-> <<\h48, \h0F, \h07>>,
     sysenter |-> <<\h0F, \h34>>, iretq |-> <<\h48, \hCF>>, cpuid |-> <<\h0F, \hA2>>,
     rdtsc |-> <<\h0F, \h31>>, rdtscp |-> <<\h0F, \h01, \hF9>>, rdmsr |-> <<\h0F, \h32>>,
     wrmsr |-> <<\h0F, \h30>>, swapgs |-> <<\h0F, \h01, \hF8>>,
     wbinvd |-> <<\h0F, \h09>>, invd |-> <<\h0F, \h08>>]

GenerateLockPrefix == <<\hF0>>

Nop == << <<\h90>>,
          <<\h66, \h90>>,
          <<\h0F, \h1F, 0>>,
          <<\h0F, \h1F, \h40, 0>>,
          <<\h0F, \h1F, \h44, 0, 0>>,
          <<\h66, \h0F, \h1F, \h44, 0, 0>>,
          <<\h0F, \h1F, \h80, 0, 0, 0, 0>>,
          <<\h0F, \h1F, \h84, 0, 0, 0, 0, 0>>,
          <<\h66, \h0F, \h1F, \h84, 0, 0, 0, 0, 0>> >>

NopsUpTo[count \in Nat] ==
    IF count = 0 THEN <<>>
    ELSE IF count < 9 THEN Nop[count] ELSE Nop[9] \o NopsUpTo[count - 9]

GenerateNopN(count) == NopsUpTo[count]

GenerateRetImm(popBytes) == <<\hC2>> \o LittleEndian(popBytes, 2)
GenerateInt(vector) == <<\hCD, vector>>

-----------------------------------------------------------------------------
(* Arithmetic and logic. *)

GenerateAluRegReg(op, width, destination, source) ==
    EmitReg(width, <<8 * op + WideBit(width)>>, source, destination, IsByte(width), IsByte(width))
GenerateAluRegMem(op, width, mem, source) ==
    EmitMem(width, <<8 * op + WideBit(width)>>, source, mem, IsByte(width))
GenerateAluMemReg(op, width, destination, mem) ==
    EmitMem(width, <<8 * op + 2 + WideBit(width)>>, destination, mem, IsByte(width))

(* An immediate that does not fit yields no bytes at all. *)
AluImmReg(op, width, reg, imm) ==
    IF IsByte(width)
    THEN (IF reg = Rax THEN <<8 * op + 4>> ELSE EmitReg(8, <<\h80>>, op, reg, FALSE, TRUE))
             \o PutImm(imm, 1)
    ELSE IF FitsI8(imm)
    THEN EmitReg(width, <<\h83>>, op, reg, FALSE, FALSE) \o PutImm(imm, 1)
    ELSE IF reg = Rax
    THEN OperandSize(width) \o PutRex(width = 64, FALSE, FALSE, FALSE, FALSE)
             \o <<8 * op + 5>> \o PutImm(imm, ImmSize(width))
    ELSE EmitReg(width, <<\h81>>, op, reg, FALSE, FALSE) \o PutImm(imm, ImmSize(width))

GenerateAluImmReg(op, width, reg, imm) ==
    IF ~ImmFits(width, imm) THEN <<>>
    ELSE AluImmReg(op, width, reg, ImmNormalise(width, imm))

AluImmMem(op, width, mem, imm) ==
    IF IsByte(width) THEN EmitMem(8, <<\h80>>, op, mem, FALSE) \o PutImm(imm, 1)
    ELSE IF FitsI8(imm)
    THEN EmitMem(width, <<\h83>>, op, mem, FALSE) \o PutImm(imm, 1)
    ELSE EmitMem(width, <<\h81>>, op, mem, FALSE) \o PutImm(imm, ImmSize(width))

GenerateAluImmMem(op, width, mem, imm) ==
    IF ~ImmFits(width, imm) THEN <<>>
    ELSE AluImmMem(op, width, mem, ImmNormalise(width, imm))

GenerateTestRegReg(width, a, b) ==
    EmitReg(width, <<\h84 + WideBit(width)>>, b, a, IsByte(width), IsByte(width))
GenerateTestMemReg(width, mem, b) ==
    EmitMem(width, <<\h84 + WideBit(width)>>, b, mem, IsByte(width))

GenerateTestImmReg(width, reg, imm) ==
    IF ~ImmFits(width, imm) THEN <<>>
    ELSE (IF reg = Rax
          THEN OperandSize(width) \o PutRex(width = 64, FALSE, FALSE, FALSE, FALSE)
                   \o <<\hA8 + WideBit(width)>>
          ELSE EmitReg(width, <<\hF6 + WideBit(width)>>, 0, reg, FALSE, IsByte(width)))
             \o PutImm(imm, ImmSize(width))

GenerateTestImmMem(width, mem, imm) ==
    IF ~ImmFits(width, imm) THEN <<>>
    ELSE EmitMem(width, <<\hF6 + WideBit(width)>>, 0, mem, FALSE) \o PutImm(imm, ImmSize(width))

GenerateUnaryReg(op, width, reg) ==
    EmitReg(width, <<(IF op <= UnaryOp.Dec THEN \hFE ELSE \hF6) + WideBit(width)>>,
            op, reg, FALSE, IsByte(width))
GenerateUnaryMem(op, width, mem) ==
    EmitMem(width, <<(IF op <= UnaryOp.Dec THEN \hFE ELSE \hF6) + WideBit(width)>>,
            op, mem, FALSE)

-----------------------------------------------------------------------------
(* Moves, extensions, exchanges. *)

GenerateMovLoad(width, destination, mem) ==
    EmitMem(width, <<\h8A + WideBit(width)>>, destination, mem, IsByte(width))
GenerateMovStore(width, mem, source) ==
    EmitMem(width, <<\h88 + WideBit(width)>>, source, mem, IsByte(width))
GenerateMovStoreImm(width, mem, imm) ==
    IF ~ImmFits(width, imm) THEN <<>>
    ELSE EmitMem(width, <<\hC6 + WideBit(width)>>, 0, mem, FALSE) \o PutImm(imm, ImmSize(width))

(* PickExtend: the width of the instruction and its opcode; a 32-bit move  *)
(* zero-extends by itself.                                                 *)
ExtendValid(to, from) == to > from
ExtendSize(sign, to, from) == IF from = 32 /\ ~sign THEN 32 ELSE to
ExtendOpcode(sign, from) ==
    CASE from = 8 -> <<\h0F, IF sign THEN \hBE ELSE \hB6>>
      [] from = 16 -> <<\h0F, IF sign THEN \hBF ELSE \hB7>>
      [] from = 32 -> <<IF sign THEN \h63 ELSE \h8B>>

GenerateMovExtendRegToReg(sign, to, from, destination, source) ==
    IF ~ExtendValid(to, from) THEN <<>>
    ELSE EmitReg(ExtendSize(sign, to, from), ExtendOpcode(sign, from),
                 destination, source, FALSE, IsByte(from))

GenerateMovExtendMemToReg(sign, to, from, destination, mem) ==
    IF ~ExtendValid(to, from) THEN <<>>
    ELSE EmitMem(ExtendSize(sign, to, from), ExtendOpcode(sign, from), destination, mem, FALSE)

GenerateXchgRegReg(width, a, b) ==
    EmitReg(width, <<\h86 + WideBit(width)>>, b, a, IsByte(width), IsByte(width))
GenerateXchgMemReg(width, mem, reg) ==
    EmitMem(width, <<\h86 + WideBit(width)>>, reg, mem, IsByte(width))
GenerateCmpxchgMemReg(width, mem, source) ==
    EmitMem(width, <<\h0F, \hB0 + WideBit(width)>>, source, mem, IsByte(width))
GenerateXaddMemReg(width, mem, source) ==
    EmitMem(width, <<\h0F, \hC0 + WideBit(width)>>, source, mem, IsByte(width))

GenerateCmovRegReg(cc, width, destination, source) ==
    IF IsByte(width) THEN <<>>
    ELSE EmitReg(width, <<\h0F, \h40 + cc>>, destination, source, FALSE, FALSE)
GenerateCmovMemReg(cc, width, destination, mem) ==
    IF IsByte(width) THEN <<>>
    ELSE EmitMem(width, <<\h0F, \h40 + cc>>, destination, mem, FALSE)
GenerateSetccReg(cc, reg) == EmitReg(8, <<\h0F, \h90 + cc>>, 0, reg, FALSE, TRUE)
GenerateSetccMem(cc, mem) == EmitMem(8, <<\h0F, \h90 + cc>>, 0, mem, FALSE)

GenerateLea(width, destination, mem) ==
    IF IsByte(width) THEN <<>> ELSE EmitMem(width, <<\h8D>>, destination, mem, FALSE)

-----------------------------------------------------------------------------
(* Multiplication, shifts and bits. *)

GenerateImulRegReg(width, destination, source) ==
    IF IsByte(width) THEN <<>>
    ELSE EmitReg(width, <<\h0F, \hAF>>, destination, source, FALSE, FALSE)
GenerateImulRegMem(width, destination, mem) ==
    IF IsByte(width) THEN <<>>
    ELSE EmitMem(width, <<\h0F, \hAF>>, destination, mem, FALSE)

ImulOpcode(small) == IF small THEN <<\h6B>> ELSE <<\h69>>
ImulTail(width, imm) == PutImm(imm, IF FitsI8(imm) THEN 1 ELSE ImmSize(width))

GenerateImulRegRegImm(width, destination, source, imm) ==
    IF IsByte(width) \/ ~ImmFits(width, imm) THEN <<>>
    ELSE EmitReg(width, ImulOpcode(FitsI8(ImmNormalise(width, imm))), destination, source, FALSE, FALSE)
             \o ImulTail(width, ImmNormalise(width, imm))
GenerateImulRegMemImm(width, destination, mem, imm) ==
    IF IsByte(width) \/ ~ImmFits(width, imm) THEN <<>>
    ELSE EmitMem(width, ImulOpcode(FitsI8(ImmNormalise(width, imm))), destination, mem, FALSE)
             \o ImulTail(width, ImmNormalise(width, imm))

GenerateShiftRegImm(op, width, reg, count) ==
    EmitReg(width, ShiftOpcode(width, count), op, reg, FALSE, IsByte(width)) \o ShiftCount(count)
GenerateShiftRegCl(op, width, reg) ==
    EmitReg(width, <<\hD2 + WideBit(width)>>, op, reg, FALSE, IsByte(width))
GenerateShiftMemImm(op, width, mem, count) ==
    EmitMem(width, ShiftOpcode(width, count), op, mem, FALSE) \o ShiftCount(count)
GenerateShiftMemCl(op, width, mem) ==
    EmitMem(width, <<\hD2 + WideBit(width)>>, op, mem, FALSE)

GenerateDoubleShiftRegRegImm(right, width, destination, source, count) ==
    IF IsByte(width) THEN <<>>
    ELSE EmitReg(width, <<\h0F, IF right THEN \hAC ELSE \hA4>>, source, destination, FALSE, FALSE)
             \o <<count>>
GenerateDoubleShiftRegRegCl(right, width, destination, source) ==
    IF IsByte(width) THEN <<>>
    ELSE EmitReg(width, <<\h0F, IF right THEN \hAD ELSE \hA5>>, source, destination, FALSE, FALSE)

GenerateBitTestRegReg(op, width, base, bit) ==
    IF IsByte(width) THEN <<>>
    ELSE EmitReg(width, <<\h0F, \hA3 + 8 * op>>, bit, base, FALSE, FALSE)
GenerateBitTestRegImm(op, width, base, bit) ==
    IF IsByte(width) THEN <<>>
    ELSE EmitReg(width, <<\h0F, \hBA>>, 4 + op, base, FALSE, FALSE) \o <<bit>>
GenerateBitTestMemReg(op, width, mem, bit) ==
    IF IsByte(width) THEN <<>>
    ELSE EmitMem(width, <<\h0F, \hA3 + 8 * op>>, bit, mem, FALSE)
GenerateBitTestMemImm(op, width, mem, bit) ==
    IF IsByte(width) THEN <<>>
    ELSE EmitMem(width, <<\h0F, \hBA>>, 4 + op, mem, FALSE) \o <<bit>>

GenerateBitScanRegReg(reverse, width, destination, source) ==
    IF IsByte(width) THEN <<>>
    ELSE EmitReg(width, <<\h0F, \hBC + Bit(reverse)>>, destination, source, FALSE, FALSE)
GenerateBitScanMemReg(reverse, width, destination, mem) ==
    IF IsByte(width) THEN <<>>
    ELSE EmitMem(width, <<\h0F, \hBC + Bit(reverse)>>, destination, mem, FALSE)

GenerateBswap(width, reg) ==
    IF width \notin {32, 64} THEN <<>>
    ELSE PutRex(width = 64, FALSE, FALSE, reg >= 8, FALSE) \o <<\h0F, \hC8 + (reg % 8)>>

-----------------------------------------------------------------------------
(* Control transfers; rel is counted from the end of the instruction. *)

GenerateJmpRel8(rel) == <<\hEB>> \o LittleEndian(rel, 1)
GenerateJmpRel32(rel) == <<\hE9>> \o LittleEndian(rel, 4)
GenerateJccRel8(cc, rel) == <<\h70 + cc>> \o LittleEndian(rel, 1)
GenerateJccRel32(cc, rel) == <<\h0F, \h80 + cc>> \o LittleEndian(rel, 4)
GenerateCallRel32(rel) == <<\hE8>> \o LittleEndian(rel, 4)
GenerateJmpReg(reg) == EmitReg(32, <<\hFF>>, 4, reg, FALSE, FALSE)
GenerateJmpMem(mem) == EmitMem(32, <<\hFF>>, 4, mem, FALSE)
GenerateCallReg(reg) == EmitReg(32, <<\hFF>>, 2, reg, FALSE, FALSE)
GenerateCallMem(mem) == EmitMem(32, <<\hFF>>, 2, mem, FALSE)
GenerateJrcxz(rel) == <<\hE3>> \o LittleEndian(rel, 1)
GenerateLoop(rel) == <<\hE2>> \o LittleEndian(rel, 1)

-----------------------------------------------------------------------------
(* The stack, strings, system registers and ports. *)

GeneratePushImm(imm) ==
    IF FitsI8(imm) THEN <<\h6A>> \o PutImm(imm, 1) ELSE <<\h68>> \o PutImm(imm, 4)
GeneratePushMem(mem) == EmitMem(32, <<\hFF>>, 6, mem, FALSE)
GeneratePopMem(mem) == EmitMem(32, <<\h8F>>, 0, mem, FALSE)

RepBytes(rep) == CASE rep = "None" -> <<>> [] rep = "Rep" -> <<\hF3>> [] rep = "Repne" -> <<\hF2>>

GenerateStringOp(op, width, rep) ==
    RepBytes(rep) \o OperandSize(width) \o PutRex(width = 64, FALSE, FALSE, FALSE, FALSE)
        \o <<op + WideBit(width)>>

GenerateMovToControlReg(register, source) ==
    EmitReg(32, <<\h0F, \h22>>, register, source, FALSE, FALSE)
GenerateMovFromControlReg(destination, register) ==
    EmitReg(32, <<\h0F, \h20>>, register, destination, FALSE, FALSE)
GenerateMovToDebugReg(register, source) ==
    EmitReg(32, <<\h0F, \h23>>, register, source, FALSE, FALSE)
GenerateMovFromDebugReg(destination, register) ==
    EmitReg(32, <<\h0F, \h21>>, register, destination, FALSE, FALSE)

GenerateSystemTableMem(op, mem) == EmitMem(32, <<\h0F, \h01>>, op, mem, FALSE)
GenerateLtr(reg) == EmitReg(32, <<\h0F, 0>>, 3, reg, FALSE, FALSE)
GenerateLldt(reg) == EmitReg(32, <<\h0F, 0>>, 2, reg, FALSE, FALSE)

(* in and out, with the port in the instruction or in dx. *)
PortOpcode(out, inDx, width) ==
    OperandSize(width) \o <<\hE4 + WideBit(width) + 2 * Bit(out) + 8 * Bit(inDx)>>

GenerateInImm8(width, port) ==
    IF width = 64 THEN <<>> ELSE PortOpcode(FALSE, FALSE, width) \o <<port>>
GenerateInDx(width) == IF width = 64 THEN <<>> ELSE PortOpcode(FALSE, TRUE, width)
GenerateOutImm8(width, port) ==
    IF width = 64 THEN <<>> ELSE PortOpcode(TRUE, FALSE, width) \o <<port>>
GenerateOutDx(width) == IF width = 64 THEN <<>> ELSE PortOpcode(TRUE, TRUE, width)
=============================================================================
