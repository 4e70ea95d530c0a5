----------------------------- MODULE Operations -----------------------------
(***************************************************************************)
(* From a physical instruction to its bytes: EmitInstruction of            *)
(* CodeGeneration/Emitters/x86_64/x86_64.cpp and the Emit functions of     *)
(* operations/.  Accepts tells the operands for which an Emit function     *)
(* returns bytes; it throws for every other.                               *)
(***************************************************************************)
EXTENDS MemoryOpcodes

Rcx == 1

(* The alternatives of Operand. *)
RegisterOperand(index) == [kind |-> "Register", index |-> index]
MemoryOperand(relativeTo, offset) ==
    [kind |-> "Memory", relativeTo |-> relativeTo, offset |-> offset]
IntegerOperand(value) == [kind |-> "Integer", value |-> value]
StackOperand(offset) == [kind |-> "Stack", offset |-> offset]
StringAddressOperand(tableIndex, offset) ==
    [kind |-> "StringAddress", tableIndex |-> tableIndex, offset |-> offset]

IsRegister(operand) == operand.kind = "Register"
IsMemory(operand) == operand.kind = "Memory"
IsInteger(operand) == operand.kind = "Integer"

(* The value of an IntegerOperand, from a number of 32 bits.               *)
Quadword(number) ==
    LittleEndian(number, 4)
        \o (IF number < 0 THEN <<255, 255, 255, 255>> ELSE <<0, 0, 0, 0>>)

ToMemory(operand) == MemBase(operand.relativeTo, operand.offset)

-----------------------------------------------------------------------------
(* mov *)

AsmCopy(width, to, from) ==
    CASE IsRegister(to) /\ IsRegister(from) ->
           GenerateMovRegToReg(width, to.index, from.index)
      [] IsRegister(to) /\ IsInteger(from) ->
           GenerateMovImmToReg(width, to.index, from.value)
      [] IsRegister(to) /\ IsMemory(from) ->
           GenerateMovMemToReg(width, to.index, from.offset, from.relativeTo)
      [] IsMemory(to) /\ IsRegister(from) ->
           GenerateMovRegToMem(width, to.relativeTo, to.offset, from.index)
      [] IsMemory(to) /\ IsInteger(from) ->
           GenerateMovImmToMem(width, to.relativeTo, to.offset, from.value)

EmitMov(i) == AsmCopy(i.width, i.destination, i.source)

-----------------------------------------------------------------------------
(* add and sub *)

(* Only the low half of a 64-bit immediate is encoded. *)
Imm32SignExtended(value) == SubSeq(value, 1, 4) \o <<0, 0, 0, 0>>
AsImmediate(width, value) == IF width = 64 THEN Imm32SignExtended(value) ELSE value

AsmAdd(width, to, from) ==
    CASE IsRegister(to) /\ IsRegister(from) ->
           GenerateAddRegToReg(width, to.index, from.index)
      [] IsRegister(to) /\ IsInteger(from) ->
           GenerateAddImmToReg(width, to.index, AsImmediate(width, from.value))
      [] IsRegister(to) /\ IsMemory(from) ->
           GenerateAddMemToReg(width, to.index, from.offset, from.relativeTo)
      [] IsMemory(to) /\ IsRegister(from) ->
           GenerateAddRegToMem(width, to.relativeTo, to.offset, from.index)
      [] IsMemory(to) /\ IsInteger(from) ->
           GenerateAddImmToMem(width, to.relativeTo, to.offset, AsImmediate(width, from.value))

EmitAdd(i) == AsmAdd(i.width, i.destination, i.source)

AsmSub(width, to, from) ==
    CASE IsRegister(to) /\ IsRegister(from) ->
           GenerateSubRegToReg(width, to.index, from.index)
      [] IsRegister(to) /\ IsInteger(from) ->
           GenerateSubImmToReg(width, to.index, AsImmediate(width, from.value))
      [] IsRegister(to) /\ IsMemory(from) ->
           GenerateSubMemToReg(width, to.index, from.offset, from.relativeTo)
      [] IsMemory(to) /\ IsRegister(from) ->
           GenerateSubRegToMem(width, to.relativeTo, to.offset, from.index)
      [] IsMemory(to) /\ IsInteger(from) ->
           GenerateSubImmToMem(width, to.relativeTo, to.offset, AsImmediate(width, from.value))

EmitSub(i) == AsmSub(i.width, i.destination, i.source)

-----------------------------------------------------------------------------
(* Logic, comparison and the instructions of one operand *)

AsmAlu(op, width, to, from) ==
    CASE IsRegister(to) /\ IsRegister(from) ->
           GenerateAluRegReg(op, width, to.index, from.index)
      [] IsRegister(to) /\ IsInteger(from) ->
           GenerateAluImmReg(op, width, to.index, from.value)
      [] IsRegister(to) /\ IsMemory(from) ->
           GenerateAluMemReg(op, width, to.index, ToMemory(from))
      [] IsMemory(to) /\ IsRegister(from) ->
           GenerateAluRegMem(op, width, ToMemory(to), from.index)
      [] IsMemory(to) /\ IsInteger(from) ->
           GenerateAluImmMem(op, width, ToMemory(to), from.value)

EmitBinaryOr(i) == AsmAlu(AluOp.Or, i.width, i.destination, i.source)
EmitBinaryAnd(i) == AsmAlu(AluOp.And, i.width, i.destination, i.source)
EmitBinaryXor(i) == AsmAlu(AluOp.Xor, i.width, i.destination, i.source)
EmitCmp(i) == AsmAlu(AluOp.Cmp, i.width, i.left, i.right)

AsmUnary(op, width, operand) ==
    IF IsRegister(operand) THEN GenerateUnaryReg(op, width, operand.index)
    ELSE GenerateUnaryMem(op, width, ToMemory(operand))

EmitBitwiseNot(i) == AsmUnary(UnaryOp.Not, i.width, i.operand)
EmitArithmeticNegation(i) == AsmUnary(UnaryOp.Neg, i.width, i.operand)
EmitMul(i) == AsmUnary(UnaryOp.Mul, i.width, i.operand)
EmitDiv(i) == AsmUnary(UnaryOp.Div, i.width, i.operand)

-----------------------------------------------------------------------------
(* Shifts: by a constant, of which one byte counts, or by cl *)

AsmShift(op, width, to, count) ==
    CASE IsRegister(to) /\ IsInteger(count) ->
           GenerateShiftRegImm(op, width, to.index, count.value[1])
      [] IsRegister(to) /\ IsRegister(count) -> GenerateShiftRegCl(op, width, to.index)
      [] IsMemory(to) /\ IsInteger(count) ->
           GenerateShiftMemImm(op, width, ToMemory(to), count.value[1])
      [] IsMemory(to) /\ IsRegister(count) -> GenerateShiftMemCl(op, width, ToMemory(to))

EmitLeftShift(i) == AsmShift(ShiftOp.Shl, i.width, i.destination, i.source)
EmitRightShift(i) == AsmShift(ShiftOp.Shr, i.width, i.destination, i.source)

-----------------------------------------------------------------------------
(* Exchanges, addresses and extensions *)

EmitXchg(i) ==
    CASE IsRegister(i.destination) /\ IsRegister(i.source) ->
           GenerateXchgRegReg(i.width, i.destination.index, i.source.index)
      [] IsRegister(i.destination) /\ IsMemory(i.source) ->
           GenerateXchgMemReg(i.width, ToMemory(i.source), i.destination.index)
      [] IsMemory(i.destination) /\ IsRegister(i.source) ->
           GenerateXchgMemReg(i.width, ToMemory(i.destination), i.source.index)

(* The displacement of a string is filled in by PatchStrings. *)
EmitLea(i) ==
    IF IsMemory(i.address) THEN GenerateLea(i.width, i.destination.index, ToMemory(i.address))
    ELSE GenerateLea(i.width, i.destination.index, MemRip(0))

(* A memory source is passed to MemBase with base and displacement swapped. *)
AsmExtend(sign, i) ==
    CASE IsRegister(i.destination) /\ IsRegister(i.source) ->
           GenerateMovExtendRegToReg(sign, i.destinationWidth, i.sourceWidth,
                                     i.destination.index, i.source.index)
      [] IsRegister(i.destination) /\ IsMemory(i.source) ->
           GenerateMovExtendMemToReg(sign, i.destinationWidth, i.sourceWidth,
                                     i.destination.index, MemBase(i.source.offset, i.source.relativeTo))
      [] IsInteger(i.source) -> AsmCopy(i.destinationWidth, i.destination, i.source)

EmitMovsx(i) == AsmExtend(TRUE, i)
EmitMovzx(i) == AsmExtend(FALSE, i)

-----------------------------------------------------------------------------
(* Control and the stack *)

(* The call keeps the number of its function until PatchCalls, and a byte  *)
(* more than it needs.                                                     *)
EmitCall(i) == GenerateCallRel32(i.indexToTable) \o GenerateNop
EmitJmp(i) == GenerateJmpRel32(0)
EmitLabel(i) == <<>>

Condition ==
    [Equal |-> 4, NotEqual |-> 5, Less |-> 12, LessEqual |-> 14, Greater |-> 15,
     GreaterEqual |-> 13, Below |-> 2, BelowEqual |-> 6, Above |-> 7, AboveEqual |-> 3]

EmitJcc(i) == GenerateJccRel32(Condition[i.condition], 0)
EmitRet(i) == GenerateRet
EmitPush(i) == GeneratePushReg64(i.reg)
EmitPop(i) == GeneratePopReg64(i.reg)

EmitInstruction(i) ==
    CASE i.name = "Mov" -> EmitMov(i)
      [] i.name = "Add" -> EmitAdd(i)
      [] i.name = "Ret" -> EmitRet(i)
      [] i.name = "Sub" -> EmitSub(i)
      [] i.name = "Push" -> EmitPush(i)
      [] i.name = "LeftShift" -> EmitLeftShift(i)
      [] i.name = "RightShift" -> EmitRightShift(i)
      [] i.name = "Xchg" -> EmitXchg(i)
      [] i.name = "Pop" -> EmitPop(i)
      [] i.name = "BinaryOr" -> EmitBinaryOr(i)
      [] i.name = "BinaryAnd" -> EmitBinaryAnd(i)
      [] i.name = "BinaryXor" -> EmitBinaryXor(i)
      [] i.name = "BitwiseNot" -> EmitBitwiseNot(i)
      [] i.name = "Neg" -> EmitArithmeticNegation(i)
      [] i.name = "SignExtend" -> EmitMovsx(i)
      [] i.name = "ZeroExtend" -> EmitMovzx(i)
      [] i.name = "Call" -> EmitCall(i)
      [] i.name = "Lea" -> EmitLea(i)
      [] i.name = "Jmp" -> EmitJmp(i)
      [] i.name = "Label" -> EmitLabel(i)
      [] i.name = "Cmp" -> EmitCmp(i)
      [] i.name = "Jcc" -> EmitJcc(i)
      [] i.name = "Mul" -> EmitMul(i)
      [] i.name = "Div" -> EmitDiv(i)

-----------------------------------------------------------------------------
(* The instructions no Emit function throws for. *)

Binary(to, from) ==
    \/ IsRegister(to) /\ (IsRegister(from) \/ IsInteger(from) \/ IsMemory(from))
    \/ IsMemory(to) /\ (IsRegister(from) \/ IsInteger(from))

NonNegative32(value) == AtMostInt32Max(value)

Accepts(i) ==
    CASE i.name \in {"Mov", "BinaryOr", "BinaryAnd", "BinaryXor"} ->
           Binary(i.destination, i.source)
      [] i.name \in {"Add", "Sub"} ->
           /\ Binary(i.destination, i.source)
           /\ i.width = 64 /\ IsInteger(i.source) => SignExtends(i.source.value, 4)
      [] i.name = "Cmp" ->
           /\ Binary(i.left, i.right)
           /\ IsInteger(i.right) => NonNegative32(i.right.value)
      [] i.name \in {"BitwiseNot", "Neg", "Mul", "Div"} ->
           IsRegister(i.operand) \/ IsMemory(i.operand)
      [] i.name \in {"LeftShift", "RightShift"} ->
           /\ IsRegister(i.destination) \/ IsMemory(i.destination)
           /\ IsInteger(i.source) \/ i.source = RegisterOperand(Rcx)
      [] i.name = "Xchg" ->
           /\ Binary(i.destination, i.source)
           /\ ~IsInteger(i.source)
      [] i.name = "Lea" -> i.address.kind \in {"StringAddress", "Memory"}
      [] i.name \in {"SignExtend", "ZeroExtend"} ->
           /\ Binary(i.destination, i.source)
           /\ IsRegister(i.destination) \/ IsInteger(i.source)
      [] OTHER -> TRUE
=============================================================================
