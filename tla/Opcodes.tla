------------------------------ MODULE Opcodes ------------------------------
(***************************************************************************)
(* The byte encoders of CodeGeneration/Emitters/x86_64/Opcodes.cpp that    *)
(* exist once per operand width (GenerateAddRegToReg64, ...32, ...16,      *)
(* ...8).  One operator stands for the four overloads of a family and      *)
(* takes the width in bits.                                                *)
(*                                                                         *)
(* A byte is a number in 0..255 and the result of an encoder a sequence of *)
(* bytes.  A register is its number, Rip = 16.  An immediate, up to 64     *)
(* bits, is the sequence of its eight bytes, least significant first; a    *)
(* displacement, 32 bits signed, is an integer.                            *)
(***************************************************************************)
EXTENDS Integers, Sequences

Rax == 0
Rip == 16

Widths == {8, 16, 32, 64}

(* The number of bytes of an operand of that width. *)
Size(width) == width \div 8

(* The low opcode bit that tells byte operands from wider ones. *)
WideBit(width) == IF width = 8 THEN 0 ELSE 1

Bit(b) == IF b THEN 1 ELSE 0

(* Mutant: bytes keep the sign of the number. *)
LittleEndianSigned(value, count) == [i \in 1 .. count |-> value \div 256 ^ (i - 1)]

(* Imm16, Imm32 and the byte loops: two's complement, lowest byte first. *)
LittleEndian(value, count) ==
    [i \in 1 .. count |-> (value \div 256 ^ (i - 1)) % 256]

(* The comparisons with an unsigned bound that choose between encodings:   *)
(* imm = 0, imm <= 0x7f, imm <= INT32_MAX and imm <= UINT32_MAX, on the    *)
(* bytes the overload's parameter type keeps.                              *)
IsZero(imm, n) == \A i \in 1 .. n : imm[i] = 0
AtMost7F(imm, n) == imm[1] <= 127 /\ \A i \in 2 .. n : imm[i] = 0
ZeroExtends(imm, n) == \A i \in n + 1 .. 8 : imm[i] = 0
AtMostInt32Max(imm) == imm[4] <= 127 /\ ZeroExtends(imm, 4)

-----------------------------------------------------------------------------
(* Prefixes, ModRM and SIB bytes. *)

RexBits(w, r, x, b) == 64 + 8 * Bit(w) + 4 * Bit(r) + 2 * Bit(x) + Bit(b)

Rex(w, r, x, b) ==
    IF w \/ r \/ x \/ b THEN <<RexBits(w, r, x, b)>> ELSE <<>>

(* spl, bpl, sil and dil exist only under a REX prefix. *)
RequiresByteRex(reg) == reg \in 4 .. 7

RexByte(r, x, b, force) ==
    IF r \/ x \/ b \/ force THEN <<RexBits(FALSE, r, x, b)>> ELSE <<>>

ModRM(mod, reg, rm) == <<64 * mod + 8 * (reg % 8) + (rm % 8)>>
Sib(scale, index, base) == <<64 * scale + 8 * (index % 8) + (base % 8)>>

(* Mutant: 128 is taken for a displacement of one byte. *)
DispModOfByte(base, disp) ==
    IF disp = 0 /\ base % 8 # 5 THEN 0
    ELSE IF disp \in -128 .. 128 THEN 1 ELSE 2

DispMod(base, disp) ==
    IF disp = 0 /\ base % 8 # 5 THEN 0
    ELSE IF disp \in -128 .. 127 THEN 1 ELSE 2

EmitDisp(mod, disp) ==
    CASE mod = 0 -> <<>>
      [] mod = 1 -> LittleEndian(disp, 1)
      [] mod = 2 -> LittleEndian(disp, 4)

ModRMMemory(regField, memReg, disp) ==
    ModRM(DispMod(memReg, disp), regField, memReg)
        \o (IF memReg % 8 = 4 THEN Sib(0, 4, memReg) ELSE <<>>)
        \o EmitDisp(DispMod(memReg, disp), disp)

(* Every overload of a family starts with the prefixes of its width.       *)
Prefixes(width, reg, rm, force) ==
    CASE width = 64 -> Rex(TRUE, reg >= 8, FALSE, rm >= 8)
      [] width = 32 -> Rex(FALSE, reg >= 8, FALSE, rm >= 8)
      [] width = 16 -> <<\h66>> \o Rex(FALSE, reg >= 8, FALSE, rm >= 8)
      [] width = 8 -> RexByte(reg >= 8, FALSE, rm >= 8, force)

(* Prefixes, opcode and a register in rm; the reg field holds the other    *)
(* register, or a digit that extends the opcode.                           *)
RegReg(width, opcode, reg, rm) ==
    Prefixes(width, reg, rm, RequiresByteRex(reg) \/ RequiresByteRex(rm))
        \o opcode \o ModRM(3, reg, rm)

RegDigit(width, opcode, digit, rm) ==
    Prefixes(width, 0, rm, RequiresByteRex(rm))
        \o opcode \o ModRM(3, digit, rm)

(* The same with [base + disp] in rm. *)
RegMem(width, opcode, reg, base, disp) ==
    Prefixes(width, reg, base, RequiresByteRex(reg))
        \o opcode \o ModRMMemory(reg, base, disp)

DigitMem(width, opcode, digit, base, disp) ==
    Prefixes(width, 0, base, FALSE)
        \o opcode \o ModRMMemory(digit, base, disp)

-----------------------------------------------------------------------------
(* Instructions without operands. *)

GenerateRet == <<\hC3>>
GenerateNop == <<\h90>>
GenerateUD2 == <<\h0F, \h0B>>
GenerateCwd == <<\h99>>
GenerateCqo == Rex(TRUE, FALSE, FALSE, FALSE) \o <<\h99>>
GenerateCdq == <<\h99>>
GenerateCbw == <<\h98>>
GenerateCwde == <<\h98>>
GenerateCdqe == Rex(TRUE, FALSE, FALSE, FALSE) \o <<\h98>>

-----------------------------------------------------------------------------
(* mov *)

GenerateMovImmToReg(width, reg, imm) ==
    IF width = 64 /\ AtMostInt32Max(imm)
    THEN RegDigit(64, <<\hC7>>, 0, reg) \o SubSeq(imm, 1, 4)
    ELSE Prefixes(width, 0, reg, RequiresByteRex(reg))
             \o <<\hB0 + 8 * WideBit(width) + (reg % 8)>>
             \o SubSeq(imm, 1, Size(width))

(* At most four bytes follow: a 64-bit store sign-extends them.            *)
MovImmToMem(width, base, disp, imm) ==
    DigitMem(width, <<\hC6 + WideBit(width)>>, 0, base, disp)
        \o SubSeq(imm, 1, IF width = 64 THEN 4 ELSE Size(width))

GenerateMovImmToMem(width, base, disp, imm) ==
    IF width = 64 /\ ~ZeroExtends(imm, 4)
    THEN MovImmToMem(32, base, disp, imm)
             \o MovImmToMem(32, base, disp + 4, SubSeq(imm, 5, 8))
    ELSE MovImmToMem(width, base, disp, imm)

GenerateMovRegToReg(width, destination, source) ==
    RegReg(width, <<\h88 + WideBit(width)>>, source, destination)

GenerateMovRegToMem(width, destination, disp, source) ==
    RegMem(width, <<\h88 + WideBit(width)>>, source, destination, disp)

GenerateMovMemToReg(width, destination, disp, source) ==
    RegMem(width, <<\h8A + WideBit(width)>>, destination, source, disp)

(* The pairs (from, to) that have an encoder. *)
ZeroExtensions == {<<8, 16>>, <<8, 32>>, <<8, 64>>, <<16, 32>>, <<16, 64>>, <<32, 64>>}

ZeroExtendPrefixes(to, destination, source, force) ==
    CASE to = 64 -> Rex(TRUE, destination >= 8, FALSE, source >= 8)
      [] to = 32 -> RexByte(destination >= 8, FALSE, source >= 8, force)
      [] to = 16 -> <<\h66>> \o RexByte(destination >= 8, FALSE, source >= 8, force)

GenerateMovZeroExtendMem(from, to, destination, disp, source) ==
    IF from = 32
    THEN GenerateMovMemToReg(32, destination, disp, source)
    ELSE ZeroExtendPrefixes(to, destination, source, FALSE)
             \o <<\h0F, \hB6 + WideBit(from)>>
             \o ModRMMemory(destination, source, disp)

GenerateMovZeroExtendReg(from, to, destination, source) ==
    IF from = 32
    THEN RegReg(32, <<\h8B>>, destination, source)
    ELSE ZeroExtendPrefixes(to, destination, source,
                            from = 8 /\ RequiresByteRex(source))
             \o <<\h0F, \hB6 + WideBit(from)>> \o ModRM(3, destination, source)

-----------------------------------------------------------------------------
(* add and sub *)

(* The immediate of an 0x81 or 0x05 instruction: at most 32 bits. *)
WideImm(width, imm) == SubSeq(imm, 1, IF width = 16 THEN 2 ELSE 4)

GenerateAddImmToReg(width, reg, imm) ==
    IF IsZero(imm, Size(width)) THEN <<>>
    ELSE IF width = 8
    THEN IF reg = Rax THEN <<\h04, imm[1]>>
         ELSE RegDigit(8, <<\h80>>, 0, reg) \o <<imm[1]>>
    ELSE IF reg = Rax /\ (imm[1] >= 127 \/ ~AtMost7F(imm, Size(width)))
    THEN Prefixes(width, 0, Rax, FALSE) \o <<\h05>> \o WideImm(width, imm)
    ELSE IF AtMost7F(imm, Size(width))
    THEN RegDigit(width, <<\h83>>, 0, reg) \o <<imm[1]>>
    ELSE RegDigit(width, <<\h81>>, 0, reg) \o WideImm(width, imm)

(* The 64- and 32-bit overloads take a 32-bit immediate and omit a zero.   *)
ImmToMem(width, digit, base, disp, imm) ==
    IF width = 8
    THEN DigitMem(8, <<\h80>>, digit, base, disp) \o <<imm[1]>>
    ELSE IF AtMost7F(imm, Len(WideImm(width, imm)))
    THEN DigitMem(width, <<\h83>>, digit, base, disp) \o <<imm[1]>>
    ELSE DigitMem(width, <<\h81>>, digit, base, disp) \o WideImm(width, imm)

GenerateAddImmToMem(width, base, disp, imm) ==
    IF width >= 32 /\ IsZero(imm, 4) THEN <<>>
    ELSE ImmToMem(width, 0, base, disp, imm)

GenerateAddRegToReg(width, destination, source) ==
    RegReg(width, <<WideBit(width)>>, source, destination)
GenerateAddMemToReg(width, destination, disp, source) ==
    RegMem(width, <<\h02 + WideBit(width)>>, destination, source, disp)
GenerateAddRegToMem(width, destination, disp, source) ==
    RegMem(width, <<WideBit(width)>>, source, destination, disp)

(* An immediate wider than 32 bits is loaded into rax behind the prefix    *)
(* already put out, and subtracted without REX.W.                          *)
GenerateSubImmToReg(width, reg, imm) ==
    IF width = 8
    THEN RegDigit(8, <<\h80>>, 5, reg) \o <<imm[1]>>
    ELSE IF AtMost7F(imm, Size(width))
    THEN RegDigit(width, <<\h83>>, 5, reg) \o <<imm[1]>>
    ELSE IF width # 64 \/ ZeroExtends(imm, 4)
    THEN RegDigit(width, <<\h81>>, 5, reg) \o WideImm(width, imm)
    ELSE Prefixes(64, 0, reg, FALSE) \o <<\h48, \hB8>> \o imm
             \o <<\h2B>> \o ModRM(3, reg, Rax)

GenerateSubImmToMem(width, base, disp, imm) ==
    ImmToMem(width, 5, base, disp, imm)

GenerateSubRegToReg(width, destination, source) ==
    RegReg(width, <<\h28 + WideBit(width)>>, source, destination)
GenerateSubRegToMem(width, destination, disp, source) ==
    RegMem(width, <<\h28 + WideBit(width)>>, source, destination, disp)
GenerateSubMemToReg(width, destination, disp, source) ==
    RegMem(width, <<\h2A + WideBit(width)>>, destination, source, disp)

-----------------------------------------------------------------------------
(* mul, imul, div, idiv *)

GenerateUnsignedMulRegToReg(width, source) ==
    RegDigit(width, <<\hF6 + WideBit(width)>>, 4, source)
GenerateUnsignedMulRegToMem(width, base, disp) ==
    DigitMem(width, <<\hF6 + WideBit(width)>>, 4, base, disp)

(* The byte overloads of imul use the 32-bit instruction. *)
ImulWidth(width) == IF width = 8 THEN 32 ELSE width
ImulImm(width, imm) == IF width = 8 THEN <<imm[1]>> ELSE WideImm(width, imm)
ImulImmOpcode(width) == IF width = 8 THEN <<\h6B>> ELSE <<\h69>>

GenerateSignedMulImmToReg(width, reg, imm) ==
    RegReg(ImulWidth(width), ImulImmOpcode(width), reg, reg) \o ImulImm(width, imm)

(* The register multiplied into is the base register, without REX.R. *)
GenerateSignedMulImmToMem(width, reg, disp, imm) ==
    DigitMem(ImulWidth(width), ImulImmOpcode(width), reg, reg, disp) \o ImulImm(width, imm)

GenerateSignedMulRegToReg(width, destination, source) ==
    RegReg(ImulWidth(width), <<\h0F, \hAF>>, destination, source)
GenerateSignedMulRegToMem(width, destination, disp, source) ==
    IF width = 8 THEN <<>>
    ELSE RegMem(width, <<\h0F, \hAF>>, source, destination, disp)
GenerateSignedMulMemToReg(width, destination, disp, source) ==
    RegMem(ImulWidth(width), <<\h0F, \hAF>>, destination, source, disp)

GenerateUnsignedDiv(width, reg) ==
    RegDigit(width, <<\hF6 + WideBit(width)>>, 6, reg)
GenerateUnsignedDivMem(width, base, disp) ==
    DigitMem(width, <<\hF6 + WideBit(width)>>, 6, base, disp)
GenerateSignedDivMem(width, base, disp) ==
    DigitMem(width, <<\hF6 + WideBit(width)>>, 7, base, disp)
GenerateSignedDiv(width, reg) ==
    RegDigit(width, <<\hF6 + WideBit(width)>>, 7, reg)

-----------------------------------------------------------------------------
(* xor, push, pop, calls and lea *)

GenerateXorReg(width, destReg, srcReg) ==
    RegReg(width, <<\h30 + WideBit(width)>>, srcReg, destReg)

GeneratePushReg64(reg) == Rex(FALSE, FALSE, FALSE, reg >= 8) \o <<\h50 + (reg % 8)>>
GeneratePopReg64(reg) == Rex(FALSE, FALSE, FALSE, reg >= 8) \o <<\h58 + (reg % 8)>>

GenerateIndirectCall(displacement) == <<\hE8>> \o LittleEndian(displacement - 5, 4)
GenerateIndirectCall2(displacement) == <<\hFF, \h15>> \o LittleEndian(displacement, 4)

(* The register number is reduced to three bits and no prefix is put out.  *)
GenerateRegisterCall(reg) == <<\hFF>> \o ModRM(3, 2, reg)

GenerateLeaToReg(source, disp, destination) ==
    IF source = Rip
    THEN Rex(TRUE, destination >= 8, FALSE, FALSE)
             \o <<\h8D>> \o ModRM(0, destination, 5) \o LittleEndian(disp, 4)
    ELSE RegMem(64, <<\h8D>>, destination, source, disp)

-----------------------------------------------------------------------------
(* Shifts by an immediate, and neg.  One bit has an encoding of its own. *)

ShiftOpcode(width, count) ==
    <<(IF count = 1 THEN \hD0 ELSE \hC0) + WideBit(width)>>
ShiftCount(count) == IF count = 1 THEN <<>> ELSE <<count>>

ShiftReg(width, digit, reg, count) ==
    RegDigit(width, ShiftOpcode(width, count), digit, reg) \o ShiftCount(count)
ShiftMem(width, digit, base, disp, count) ==
    DigitMem(width, ShiftOpcode(width, count), digit, base, disp) \o ShiftCount(count)

GenerateSignedSarImmToReg(width, reg, count) == ShiftReg(width, 7, reg, count)
GenerateSignedShrImmToReg(width, reg, count) == ShiftReg(width, 5, reg, count)
GenerateSignedShrImmToMem(width, base, disp, count) ==
    ShiftMem(width, 5, base, disp, count)
GenerateSalReg(width, reg, count) == ShiftReg(width, 4, reg, count)
GenerateSalMem(width, base, disp, count) == ShiftMem(width, 4, base, disp, count)
GenerateSarReg(width, reg, count) == ShiftReg(width, 7, reg, count)
GenerateSarMem(width, base, disp, count) == ShiftMem(width, 7, base, disp, count)

GenerateNegReg(width, reg) == RegDigit(width, <<\hF6 + WideBit(width)>>, 3, reg)
=============================================================================
