----------------------------- MODULE X86Decoder -----------------------------
(***************************************************************************)
(* What the processor does with the bytes: a decoder for the part of the   *)
(* 64-bit x86 instruction set that the compiler can emit, after the        *)
(* processor manuals.  It knows nothing of the encoders.                   *)
(*                                                                         *)
(* Decode(code) is the first instruction of code: its name, its operand    *)
(* width in bits, its operands in the order of the assembly language, and  *)
(* its length in bytes.                                                    *)
(***************************************************************************)
EXTENDS Integers, Sequences, TLC

NoBase == 17
RipBase == 16

R(n) == [kind |-> "reg", reg |-> n]
High(n) == [kind |-> "high", reg |-> n]
Special(name, n) == [kind |-> name, reg |-> n]
M(base, index, scale, disp) ==
    [kind |-> "mem", base |-> base, index |-> index, scale |-> scale, disp |-> disp]
Imm(bytes) == [kind |-> "imm", bytes |-> bytes]
Rel(offset) == [kind |-> "rel", offset |-> offset]

Instr(op, width, args) == [op |-> op, width |-> width, args |-> args]

Undefined == Instr("undefined", 0, <<>>)

Test(byte, bit) == (byte \div bit) % 2 = 1

(* A little-endian field as a signed number, and as sign-extended bytes. *)
Signed8(byte) == IF byte >= 128 THEN byte - 256 ELSE byte
Signed32(code, at) ==
    code[at] + 256 * code[at + 1] + 65536 * code[at + 2] + 16777216 * Signed8(code[at + 3])

Extended(field, width) ==
    [i \in 1 .. width \div 8 |->
        IF i <= Len(field) THEN field[i]
        ELSE IF field[Len(field)] >= 128 THEN 255 ELSE 0]

-----------------------------------------------------------------------------
(* Prefixes.  The context of an instruction: the bytes, the place of the   *)
(* opcode, the legacy prefixes and the REX prefix, which counts only just  *)
(* before the opcode.                                                      *)

LegacyPrefixes == {\h66, \hF0, \hF2, \hF3}

IsRex(byte) == byte \in \h40 .. \h4F

LegacyCount(code) ==
    CHOOSE n \in 0 .. Len(code) :
        /\ \A i \in 1 .. n : code[i] \in LegacyPrefixes
        /\ n < Len(code) => code[n + 1] \notin LegacyPrefixes

RexAt(code, n) == IF n < Len(code) /\ IsRex(code[n + 1]) THEN code[n + 1] ELSE 0

Context(code, n, rex) ==
    [code |-> code, at |-> n + 1 + (IF rex = 0 THEN 0 ELSE 1),
     hasRex |-> rex # 0,
     w |-> Test(rex, 8), r |-> Test(rex, 4), x |-> Test(rex, 2), b |-> Test(rex, 1),
     size16 |-> \E i \in 1 .. n : code[i] = \h66,
     rep |-> IF \E i \in 1 .. n : code[i] = \hF3 THEN "rep "
             ELSE IF \E i \in 1 .. n : code[i] = \hF2 THEN "repne " ELSE ""]

OperandWidth(c) == IF c.w THEN 64 ELSE IF c.size16 THEN 16 ELSE 32

Plus8(bit) == IF bit THEN 8 ELSE 0

(* Without REX, the byte registers 4..7 are ah, ch, dh and bh. *)
GeneralRegister(c, n, width) ==
    IF width = 8 /\ ~c.hasRex /\ n \in 4 .. 7 THEN High(n - 4) ELSE R(n)

-----------------------------------------------------------------------------
(* The ModRM byte at m, the SIB byte and the displacement behind it. *)

Mod(c, m) == c.code[m] \div 64
Digit(c, m) == (c.code[m] \div 8) % 8
RmField(c, m) == c.code[m] % 8

HasSib(c, m) == Mod(c, m) # 3 /\ RmField(c, m) = 4
SibBase(c, m) == c.code[m + 1] % 8
SibIndex(c, m) == ((c.code[m + 1] \div 8) % 8) + Plus8(c.x)

NoBaseInSib(c, m) == HasSib(c, m) /\ SibBase(c, m) = 5 /\ Mod(c, m) = 0
RipRelative(c, m) == Mod(c, m) = 0 /\ RmField(c, m) = 5

DispSize(c, m) ==
    CASE Mod(c, m) = 1 -> 1
      [] Mod(c, m) = 2 -> 4
      [] Mod(c, m) = 0 /\ (RipRelative(c, m) \/ NoBaseInSib(c, m)) -> 4
      [] OTHER -> 0

DispAt(c, m) == m + 1 + (IF HasSib(c, m) THEN 1 ELSE 0)

Displacement(c, m) ==
    CASE DispSize(c, m) = 0 -> 0
      [] DispSize(c, m) = 1 -> Signed8(c.code[DispAt(c, m)])
      [] DispSize(c, m) = 4 -> Signed32(c.code, DispAt(c, m))

AfterModRM(c, m) == DispAt(c, m) + DispSize(c, m)

Indexed(c, m) == HasSib(c, m) /\ SibIndex(c, m) # 4

DecodedMemory(c, m) ==
    M(IF RipRelative(c, m) THEN RipBase
      ELSE IF NoBaseInSib(c, m) THEN NoBase
      ELSE Plus8(c.b) + (IF HasSib(c, m) THEN SibBase(c, m) ELSE RmField(c, m)),
      IF Indexed(c, m) THEN SibIndex(c, m) ELSE NoBase,
      IF Indexed(c, m) THEN 2 ^ (c.code[m + 1] \div 64) ELSE 1,
      Displacement(c, m))

RmOperand(c, m, width) ==
    IF Mod(c, m) = 3
    THEN GeneralRegister(c, RmField(c, m) + Plus8(c.b), width)
    ELSE DecodedMemory(c, m)

RegOperand(c, m, width) == GeneralRegister(c, Digit(c, m) + Plus8(c.r), width)

-----------------------------------------------------------------------------
(* The shapes instructions have.  Each takes the context c, the place m    *)
(* behind the opcode, the name and the operand width.                      *)

Done(op, width, args, next) == [instr |-> Instr(op, width, args), next |-> next]

Plain(op, m) == Done(op, 0, <<>>, m)

RmReg(c, m, op, width) ==
    Done(op, width, <<RmOperand(c, m, width), RegOperand(c, m, width)>>, AfterModRM(c, m))
RegRm(c, m, op, width, rmWidth) ==
    Done(op, width, <<RegOperand(c, m, width), RmOperand(c, m, rmWidth)>>, AfterModRM(c, m))
Rm(c, m, op, width) ==
    Done(op, width, <<RmOperand(c, m, width)>>, AfterModRM(c, m))

Field(c, at, n) == SubSeq(c.code, at, at + n - 1)

RmImm(c, m, op, width, n) ==
    Done(op, width,
         <<RmOperand(c, m, width), Imm(Extended(Field(c, AfterModRM(c, m), n), width))>>,
         AfterModRM(c, m) + n)
RegRmImm(c, m, op, width, n) ==
    Done(op, width,
         <<RegOperand(c, m, width), RmOperand(c, m, width),
           Imm(Extended(Field(c, AfterModRM(c, m), n), width))>>,
         AfterModRM(c, m) + n)
RegImm(c, m, op, width, reg, n) ==
    Done(op, width, <<GeneralRegister(c, reg, width), Imm(Extended(Field(c, m, n), width))>>,
         m + n)

(* Operands of one byte that are not extended: counts and bit numbers. *)
RmCount(c, m, op, width) ==
    Done(op, width,
         <<RmOperand(c, m, width), Imm(Field(c, AfterModRM(c, m), 1))>>, AfterModRM(c, m) + 1)
RmRegCount(c, m, op, width) ==
    Done(op, width,
         <<RmOperand(c, m, width), RegOperand(c, m, width), Imm(Field(c, AfterModRM(c, m), 1))>>,
         AfterModRM(c, m) + 1)

Relative(c, m, op, n) ==
    Done(op, 64, <<Rel(IF n = 1 THEN Signed8(c.code[m]) ELSE Signed32(c.code, m))>>, m + n)

-----------------------------------------------------------------------------
(* The opcode maps. *)

Arithmetic == <<"add", "or", "adc", "sbb", "and", "sub", "xor", "cmp">>
Shifts == <<"rol", "ror", "rcl", "rcr", "shl", "shr", "undefined", "sar">>
Unary == <<"test", "undefined", "not", "neg", "mul", "imul", "div", "idiv">>
Bits == <<"bt", "bts", "btr", "btc">>
Conditions == <<"o", "no", "b", "ae", "e", "ne", "be", "a",
                "s", "ns", "p", "np", "l", "ge", "le", "g">>

ImmWidth(width) == IF width = 8 THEN 1 ELSE IF width = 16 THEN 2 ELSE 4

AluForm(c, m, op, form, width) ==
    CASE form \in {0, 1} -> RmReg(c, m, op, width)
      [] form \in {2, 3} -> RegRm(c, m, op, width, width)
      [] form \in {4, 5} -> RegImm(c, m, op, width, 0, ImmWidth(width))

ShiftForm(c, m, op, form, width) ==
    CASE form \in {\hC0, \hC1} -> RmCount(c, m, op, width)
      [] form \in {\hD0, \hD1} ->
             Done(op, width, <<RmOperand(c, m, width), Imm(<<1>>)>>, AfterModRM(c, m))
      [] form \in {\hD2, \hD3} ->
             Done(op, width, <<RmOperand(c, m, width), R(1)>>, AfterModRM(c, m))

Group3(c, m, width) ==
    IF Digit(c, m) = 0 THEN RmImm(c, m, "test", width, ImmWidth(width))
    ELSE Rm(c, m, Unary[Digit(c, m) + 1], width)

Group5(c, m, width) ==
    CASE Digit(c, m) \in {0, 1} -> Rm(c, m, <<"inc", "dec">>[Digit(c, m) + 1], width)
      [] width # 8 /\ Digit(c, m) = 2 -> Rm(c, m, "call", 64)
      [] width # 8 /\ Digit(c, m) = 4 -> Rm(c, m, "jmp", 64)
      [] width # 8 /\ Digit(c, m) = 6 -> Rm(c, m, "push", 64)
      [] OTHER -> Plain("undefined", m)

OneByteNames ==
    (\h9C :> "pushfq") @@ (\h9D :> "popfq") @@ (\h9E :> "sahf") @@ (\h9F :> "lahf")
    @@ (\hC3 :> "ret") @@ (\hC9 :> "leave") @@ (\hCC :> "int3") @@ (\hF4 :> "hlt")
    @@ (\hF5 :> "cmc") @@ (\hF8 :> "clc") @@ (\hF9 :> "stc") @@ (\hFA :> "cli")
    @@ (\hFB :> "sti") @@ (\hFC :> "cld") @@ (\hFD :> "std")

StringNames ==
    (\hA4 :> "movs") @@ (\hA6 :> "cmps") @@ (\hAA :> "stos") @@ (\hAC :> "lods") @@ (\hAE :> "scas")

(* Opcodes of one byte; v is the operand width and w that of even opcodes. *)
OneByte(c, o, m, v, w) ==
    CASE o < 64 /\ o % 8 < 6 -> AluForm(c, m, Arithmetic[o \div 8 + 1], o % 8, w)
      [] o \in \h50 .. \h57 -> Done("push", 64, <<R(o - \h50 + Plus8(c.b))>>, m)
      [] o \in \h58 .. \h5F -> Done("pop", 64, <<R(o - \h58 + Plus8(c.b))>>, m)
      [] o = \h63 -> RegRm(c, m, "movsx32", v, 32)
      [] o = \h68 -> Done("push", 64, <<Imm(Extended(Field(c, m, 4), 64))>>, m + 4)
      [] o = \h69 -> RegRmImm(c, m, "imul", v, ImmWidth(v))
      [] o = \h6A -> Done("push", 64, <<Imm(Extended(Field(c, m, 1), 64))>>, m + 1)
      [] o = \h6B -> RegRmImm(c, m, "imul", v, 1)
      [] o \in \h70 .. \h7F -> Relative(c, m, "j" \o Conditions[o - \h6F], 1)
      [] o \in {\h80, \h81} -> RmImm(c, m, Arithmetic[Digit(c, m) + 1], w, ImmWidth(w))
      [] o = \h83 -> RmImm(c, m, Arithmetic[Digit(c, m) + 1], v, 1)
      [] o \in {\h84, \h85} -> RmReg(c, m, "test", w)
      [] o \in {\h86, \h87} -> RmReg(c, m, "xchg", w)
      [] o \in {\h88, \h89} -> RmReg(c, m, "mov", w)
      [] o \in {\h8A, \h8B} -> RegRm(c, m, "mov", w, w)
      [] o = \h8D -> RegRm(c, m, "lea", v, v)
      [] o = \h8F -> Rm(c, m, "pop", 64)
      [] o = \h90 -> Plain(IF c.rep = "rep " THEN "pause" ELSE "nop", m)
      [] o = \h98 -> Done("sign-extend rax", v, <<>>, m)
      [] o = \h99 -> Done("sign-extend rax to rdx", v, <<>>, m)
      [] o \in {\hA8, \hA9} -> RegImm(c, m, "test", w, 0, ImmWidth(w))
      [] o \in \hA4 .. \hAF /\ o - (o % 2) \in DOMAIN StringNames ->
             Done(c.rep \o StringNames[o - (o % 2)], w, <<>>, m)
      [] o \in \hB0 .. \hB7 -> RegImm(c, m, "mov", 8, o - \hB0 + Plus8(c.b), 1)
      [] o \in \hB8 .. \hBF -> RegImm(c, m, "mov", v, o - \hB8 + Plus8(c.b), v \div 8)
      [] o \in {\hC0, \hC1, \hD0, \hD1, \hD2, \hD3} ->
             ShiftForm(c, m, Shifts[Digit(c, m) + 1], o, w)
      [] o = \hC2 -> Done("ret", 64, <<Imm(Field(c, m, 2))>>, m + 2)
      [] o \in {\hC6, \hC7} -> RmImm(c, m, "mov", w, ImmWidth(w))
      [] o = \hCD -> Done("int", 0, <<Imm(Field(c, m, 1))>>, m + 1)
      [] o = \hCF -> Plain(IF c.w THEN "iretq" ELSE "iret", m)
      [] o \in {\hE2, \hE3} -> Relative(c, m, IF o = \hE2 THEN "loop" ELSE "jrcxz", 1)
      [] o \in \hE4 .. \hE7 ->
             Done(IF o < \hE6 THEN "in" ELSE "out", w, <<Imm(Field(c, m, 1))>>, m + 1)
      [] o = \hE8 -> Relative(c, m, "call", 4)
      [] o = \hE9 -> Relative(c, m, "jmp", 4)
      [] o = \hEB -> Relative(c, m, "jmp", 1)
      [] o \in \hEC .. \hEF -> Done(IF o < \hEE THEN "in" ELSE "out", w, <<R(2)>>, m)
      [] o \in {\hF6, \hF7} -> Group3(c, m, w)
      [] o \in {\hFE, \hFF} -> Group5(c, m, w)
      [] o \in DOMAIN OneByteNames -> Plain(OneByteNames[o], m)
      [] OTHER -> Plain("undefined", m)

TwoByteNames ==
    (\h05 :> "syscall") @@ (\h08 :> "invd") @@ (\h09 :> "wbinvd") @@ (\h0B :> "ud2")
    @@ (\h30 :> "wrmsr") @@ (\h31 :> "rdtsc") @@ (\h32 :> "rdmsr") @@ (\h34 :> "sysenter")
    @@ (\hA2 :> "cpuid")

SystemTables == <<"sgdt", "sidt", "lgdt", "lidt", "undefined", "undefined", "undefined", "invlpg">>

Group7(c, m) ==
    CASE Mod(c, m) # 3 -> Rm(c, m, SystemTables[Digit(c, m) + 1], 0)
      [] c.code[m] = \hF8 -> Plain("swapgs", m + 1)
      [] c.code[m] = \hF9 -> Plain("rdtscp", m + 1)
      [] OTHER -> Plain("undefined", m)

(* Opcodes behind 0F. *)
TwoByte(c, o, m, v, w) ==
    CASE o = \h00 /\ Digit(c, m) \in {2, 3} ->
             Rm(c, m, IF Digit(c, m) = 2 THEN "lldt" ELSE "ltr", 0)
      [] o = \h01 -> Group7(c, m)
      [] o = \h07 -> Plain(IF c.w THEN "sysretq" ELSE "sysret", m)
      [] o = \h1F -> Done("nop", 0, <<>>, AfterModRM(c, m))
      [] o \in \h20 .. \h23 ->
             LET system == Special(IF o % 2 = 0 THEN "cr" ELSE "dr", Digit(c, m) + Plus8(c.r))
                 general == R(RmField(c, m) + Plus8(c.b))
             IN  Done("mov", 64, IF o < \h22 THEN <<general, system>> ELSE <<system, general>>, m + 1)
      [] o \in \h40 .. \h4F -> RegRm(c, m, "cmov" \o Conditions[o - \h3F], v, v)
      [] o \in \h80 .. \h8F -> Relative(c, m, "j" \o Conditions[o - \h7F], 4)
      [] o \in \h90 .. \h9F -> Rm(c, m, "set" \o Conditions[o - \h8F], 8)
      [] o \in {\hA3, \hAB, \hB3, \hBB} -> RmReg(c, m, Bits[(o - \hA3) \div 8 + 1], v)
      [] o \in {\hA4, \hAC} -> RmRegCount(c, m, IF o = \hA4 THEN "shld" ELSE "shrd", v)
      [] o \in {\hA5, \hAD} -> RmReg(c, m, IF o = \hA5 THEN "shld cl" ELSE "shrd cl", v)
      [] o = \hAF -> RegRm(c, m, "imul", v, v)
      [] o \in {\hB0, \hB1} -> RmReg(c, m, "cmpxchg", w)
      [] o \in {\hB6, \hB7} -> RegRm(c, m, IF o = \hB6 THEN "movzx8" ELSE "movzx16", v, IF o = \hB6 THEN 8 ELSE 16)
      [] o \in {\hBE, \hBF} -> RegRm(c, m, IF o = \hBE THEN "movsx8" ELSE "movsx16", v, IF o = \hBE THEN 8 ELSE 16)
      [] o = \hBA /\ Digit(c, m) >= 4 -> RmCount(c, m, Bits[Digit(c, m) - 3], v)
      [] o \in {\hBC, \hBD} -> RegRm(c, m, IF o = \hBC THEN "bsf" ELSE "bsr", v, v)
      [] o \in {\hC0, \hC1} -> RmReg(c, m, "xadd", w)
      [] o \in \hC8 .. \hCF -> Done("bswap", v, <<R(o - \hC8 + Plus8(c.b))>>, m)
      [] o \in DOMAIN TwoByteNames -> Plain(TwoByteNames[o], m)
      [] OTHER -> Plain("undefined", m)

WidthOf(c, o) == IF o % 2 = 0 THEN 8 ELSE OperandWidth(c)

DecodeIn(c) ==
    IF c.at > Len(c.code) THEN Plain("undefined", c.at)
    ELSE IF c.code[c.at] # \h0F
    THEN OneByte(c, c.code[c.at], c.at + 1, OperandWidth(c), WidthOf(c, c.code[c.at]))
    ELSE TwoByte(c, c.code[c.at + 1], c.at + 2, OperandWidth(c), WidthOf(c, c.code[c.at + 1]))

Decode(code) == DecodeIn(Context(code, LegacyCount(code), RexAt(code, LegacyCount(code))))
=============================================================================
