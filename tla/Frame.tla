-------------------------------- MODULE Frame --------------------------------
(***************************************************************************)
(* The stack frame of a routine: the slots the encoder hands out while it  *)
(* lowers the routine, and Finalise, which afterwards gives the frame its  *)
(* size, every slot its place, and the routine its prologue and epilogue.  *)
(*                                                                         *)
(*   [rsp, rsp + outgoingReserve)          shadow space, stack arguments   *)
(*   [... , ... + localsSize)              the slots                       *)
(*   [... , rsp + stackFrameSize)          padding                         *)
(*   above                                 saved registers, rbp, return    *)
(***************************************************************************)
EXTENDS Operations

LOCAL Seqs == INSTANCE SequencesExt

Rbx == 3
Rsp == 4
Rbp == 5
SlotSize == 8

WindowsPlatform ==
    [StackAlignment |-> 16, InitialStackReserve |-> 32,
     CalleeSaved |-> {Rbx, Rbp, 6, 7, 12, 13, 14, 15},
     IntegerParameterRegisters |-> <<1, 2, 8, 9>>]

Larger(a, b) == IF a >= b THEN a ELSE b

AlignUp(n, alignment) == ((n + alignment - 1) \div alignment) * alignment

-----------------------------------------------------------------------------
(* While the routine is lowered.  The slots are a function from what needs *)
(* one to its offset among the locals.                                     *)

NewFrame(platform) ==
    [stackSlots |-> [v \in {} |-> 0], localsSize |-> 0,
     outgoingReserve |-> platform.InitialStackReserve,
     parameterReserve |-> 0]       \* of parameters the caller left on the stack

EnsureStackSlot(frame, owner, size, alignment) ==
    IF owner \in DOMAIN frame.stackSlots THEN frame
    ELSE LET offset == AlignUp(frame.localsSize, alignment)
         IN  [frame EXCEPT !.stackSlots = [v \in DOMAIN @ \cup {owner} |-> IF v = owner THEN offset ELSE @[v]],
                           !.localsSize = offset + size]

OutgoingSlot(platform, slot) ==
    MemoryOperand(Rsp, platform.InitialStackReserve + SlotSize * slot)

PassOnStack(platform, frame, slot) ==
    [frame EXCEPT !.outgoingReserve =
        Larger(@, platform.InitialStackReserve + SlotSize * slot + SlotSize)]

-----------------------------------------------------------------------------
(* Finalise *)

(* Only these instructions are searched for writes to registers. *)
WrittenOperand(i) ==
    IF i.name \in {"Mov", "Add", "Sub", "Lea"} THEN {i.destination} ELSE {}

CollectCalleeSavedWrites(platform, instructions) ==
    LET written == {r \in platform.CalleeSaved \ {Rsp, Rbp} :
                      \E k \in DOMAIN instructions :
                        RegisterOperand(r) \in WrittenOperand(instructions[k])}
    IN  SelectSeq([k \in 1 .. 16 |-> k - 1], LAMBDA r : r \in written)

(* Mutant: the frame pointer is forgotten. *)
AlreadyPushedWithoutRbp(omits, saved) == SlotSize + SlotSize * saved

(* What a routine has pushed when it reserves its frame: the return        *)
(* address, the frame pointer and the saved registers.                     *)
AlreadyPushed(omits, saved) ==
    SlotSize + (IF omits THEN 0 ELSE SlotSize) + SlotSize * saved

StackFrameSize(alignment, omits, rawSize, saved) ==
    IF rawSize = 0 /\ saved = 0 THEN 0
    ELSE AlignUp(rawSize + AlreadyPushed(omits, saved), alignment) - AlreadyPushed(omits, saved)

(* Places: what ResolveStackOperands needs to know. *)
Layout(platform, omits, frame, instructions) ==
    LET saved == CollectCalleeSavedWrites(platform, instructions)
    IN  [omits |-> omits, savedRegisters |-> saved, outgoingReserve |-> frame.outgoingReserve,
         stackFrameSize |-> StackFrameSize(platform.StackAlignment, omits,
                                           frame.outgoingReserve + frame.localsSize + frame.parameterReserve,
                                           Len(saved))]

AboveRsp(layout, operand) == layout.outgoingReserve + operand.offset

InsideFrame(layout, operand) ==
    operand.kind = "Stack" => AboveRsp(layout, operand) < layout.stackFrameSize

ResolveStackOperand(layout, operand) ==
    IF operand.kind # "Stack" THEN operand
    ELSE IF layout.omits THEN MemoryOperand(Rsp, AboveRsp(layout, operand))
    ELSE MemoryOperand(Rbp, AboveRsp(layout, operand)
                              - (layout.stackFrameSize + SlotSize * Len(layout.savedRegisters)))

(* Operands of other instructions keep their slots, which the emitter      *)
(* refuses.                                                                *)
ResolveInstruction(layout, i) ==
    CASE i.name \in {"Mov", "Add", "Sub"} ->
           [i EXCEPT !.destination = ResolveStackOperand(layout, @),
                     !.source = ResolveStackOperand(layout, @)]
      [] i.name = "Lea" -> [i EXCEPT !.address = ResolveStackOperand(layout, @)]
      [] i.name = "Cmp" -> [i EXCEPT !.left = ResolveStackOperand(layout, @),
                                     !.right = ResolveStackOperand(layout, @)]
      [] OTHER -> i

OperandsOf(i) ==
    CASE i.name \in {"Mov", "Add", "Sub"} -> {i.destination, i.source}
      [] i.name = "Lea" -> {i.address}
      [] i.name = "Cmp" -> {i.left, i.right}
      [] OTHER -> {}

(* The assertion of ResolveStackOperand, for a whole routine. *)
SlotsInsideFrame(layout, instructions) ==
    \A k \in DOMAIN instructions :
        \A operand \in OperandsOf(instructions[k]) : InsideFrame(layout, operand)

Move64(to, from) == [name |-> "Mov", width |-> 64, destination |-> to, source |-> from]
AdjustRsp(name, size) ==
    [name |-> name, width |-> 64, destination |-> RegisterOperand(Rsp),
     source |-> IntegerOperand(Quadword(size))]

Prologue(layout) ==
    (IF layout.omits THEN <<>>
     ELSE <<[name |-> "Push", reg |-> Rbp], Move64(RegisterOperand(Rbp), RegisterOperand(Rsp))>>)
        \o [k \in DOMAIN layout.savedRegisters |-> [name |-> "Push", reg |-> layout.savedRegisters[k]]]
        \o (IF layout.stackFrameSize = 0 THEN <<>> ELSE <<AdjustRsp("Sub", layout.stackFrameSize)>>)

Epilogue(layout) ==
    (IF layout.stackFrameSize = 0 THEN <<>> ELSE <<AdjustRsp("Add", layout.stackFrameSize)>>)
        \o [k \in DOMAIN layout.savedRegisters |->
              [name |-> "Pop", reg |-> Seqs!Reverse(layout.savedRegisters)[k]]]
        \o (IF layout.omits THEN <<>> ELSE <<[name |-> "Pop", reg |-> Rbp]>>)

InsertEpilogue(layout, instructions) ==
    Seqs!FlattenSeq(
        [k \in DOMAIN instructions |->
           (IF instructions[k].name = "Ret" THEN Epilogue(layout) ELSE <<>>) \o <<instructions[k]>>])

NeedsFrame(layout) == layout.stackFrameSize # 0 \/ layout.savedRegisters # <<>>

Finalise(layout, instructions) ==
    LET resolved == [k \in DOMAIN instructions |-> ResolveInstruction(layout, instructions[k])]
    IN  IF NeedsFrame(layout)
        THEN Prologue(layout) \o InsertEpilogue(layout, resolved)
        ELSE resolved
=============================================================================
