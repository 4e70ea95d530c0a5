----------------------------- MODULE LowerExpression -----------------------------
(* The second half of the front end: typed trees to SSA nodes, in evaluation       *)
(* order, with a register of its own for every value. A lowering state is the      *)
(* nodes built so far, the next register, the register of the value that was       *)
(* lowered last, and whether something was reported.                               *)
EXTENDS Expressions

CONSTANTS NoResult     \* the register of a node that defines none, and of a value there is none of

VariableRegister(x) == CHOOSE n \in DOMAIN Variables : Variables[n] = x

Node(kind, result, width, operands, value) ==
    [kind |-> kind, result |-> result, width |-> width, operands |-> operands, value |-> value]

\* Mutant: the register is not taken from the function's counter.
DefineReusing(s, kind, type, operands, value) ==
    [s EXCEPT !.built = Append(@, Node(kind, s.next, Width(type), operands, value)), !.reg = s.next]

\* A node that defines a new register, and one that defines none.
Define(s, kind, type, operands, value) ==
    [s EXCEPT !.built = Append(@, Node(kind, s.next, Width(type), operands, value)),
              !.next = @ + 1, !.reg = s.next]
Perform(s, kind, operands, value) == [s EXCEPT !.built = Append(@, Node(kind, NoResult, 0, operands, value))]
Value(s, reg) == [s EXCEPT !.reg = reg]
Nothing(s) == Value(s, NoResult)
Refuse(s) == [s EXCEPT !.reg = NoResult, !.ok = FALSE]

\* The storage an lvalue names: a variable's register, or the pointer to it.
loadSlot(s, slot, type) ==
    Define(s, IF slot.indirect THEN "Dereference" ELSE "Load", type, <<slot.reg>>, 0)
storeSlot(s, slot, value) ==
    IF slot.indirect THEN Perform(s, "IndirectStore", <<slot.reg, value>>, 0)
    ELSE Perform(s, "Store", <<value, slot.reg>>, 0)

RECURSIVE Lower(_, _), LowerAll(_, _, _)

\* LowerExpressionLoaded: variables and assignments are read after they are lowered.
LowerLoaded(e, s) ==
    LET lowered == Lower(e, s)
    IN IF e.node \in {"Reference", "Assign"} /\ lowered.reg # NoResult
       THEN Define(lowered, "Load", e.type, <<lowered.reg>>, 0) ELSE lowered

\* The operands of a node, left to right; regs collects their registers.
LowerAll(args, s, regs) ==
    IF args = <<>> THEN [state |-> s, regs |-> regs]
    ELSE LET first == LowerLoaded(Head(args), s)
         IN LowerAll(Tail(args), first, Append(regs, first.reg))

LowerOperation(e, s, kind, value) ==
    LET operands == LowerAll(e.args, s, <<>>)
    IN IF \E k \in DOMAIN operands.regs : operands.regs[k] = NoResult THEN Nothing(operands.state)
       ELSE Define(operands.state, kind, e.type, operands.regs, value)

\* lowerSlot
LowerSlot(e, s) ==
    LET lowered == IF e.node = "Dereference" THEN LowerLoaded(e.args[1], s) ELSE Lower(e, s)
    IN [state |-> lowered, reg |-> lowered.reg, indirect |-> e.node = "Dereference"]

LowerAssign(e, s) ==
    LET slot == LowerSlot(e.args[1], s)
        value == LowerLoaded(e.args[2], slot.state)
    IN IF slot.reg = NoResult \/ value.reg = NoResult THEN Nothing(value)
       ELSE Value(storeSlot(value, slot, value.reg), IF slot.indirect THEN value.reg ELSE slot.reg)

\* CompoundAssignmentNode, AdditionAssignNode, SubtractionAssignNode: the value of the
\* expression is the register that was stored.
LowerCompound(e, s) ==
    LET slot == LowerSlot(e.args[1], s)
        value == LowerLoaded(e.args[2], slot.state)
        current == loadSlot(value, slot, e.args[1].type)
        result == Define(current, e.value, e.type, <<current.reg, value.reg>>, 0)
    IN IF slot.reg = NoResult \/ value.reg = NoResult THEN Nothing(value)
       ELSE Value(storeSlot(result, slot, result.reg), result.reg)

\* Mutant: the value of a postfix step is the new one.
LowerPostStepNew(e, s) ==
    LET slot == LowerSlot(e.args[1], s)
        old == loadSlot(slot.state, slot, e.args[1].type)
        one == Define(old, "Integer", e.type, <<>>, 1)
        new == Define(one, e.value, e.type, <<old.reg, one.reg>>, 0)
    IN IF slot.reg = NoResult THEN Nothing(slot.state)
       ELSE Value(storeSlot(new, slot, new.reg), new.reg)

\* PostIncrementNode, PostDecrementNode
LowerPostStep(e, s) ==
    LET slot == LowerSlot(e.args[1], s)
        old == loadSlot(slot.state, slot, e.args[1].type)
        one == Define(old, "Integer", e.type, <<>>, 1)
        new == Define(one, e.value, e.type, <<old.reg, one.reg>>, 0)
    IN IF slot.reg = NoResult THEN Nothing(slot.state)
       ELSE Value(storeSlot(new, slot, new.reg), old.reg)

LowerAddressOf(e, s) ==
    CASE e.args[1].node = "Dereference" -> LowerLoaded(e.args[1].args[1], s)
      [] e.args[1].node = "Reference" -> Define(s, "AddressOf", e.type, <<Lower(e.args[1], s).reg>>, 0)
      [] OTHER -> Refuse(s)

LowerCall(e, s) ==
    LET arguments == LowerAll(e.args, s, <<>>)
    IN IF \E k \in DOMAIN arguments.regs : arguments.regs[k] = NoResult THEN Nothing(arguments.state)
       ELSE IF e.type = Void THEN Nothing(Perform(arguments.state, "Call", arguments.regs, e.value))
       ELSE Define(arguments.state, "Call", e.type, arguments.regs, e.value)

\* The register of the operand, not its value: a pointer variable is copied from there.
LowerPointerConversion(e, s) ==
    LET operand == Lower(e.args[1], s)
    IN IF operand.reg = NoResult THEN operand
       ELSE Define(operand, "PointerConversion", e.type, <<operand.reg>>, 0)

Lower(e, s) ==
    CASE e.node = "Integer" -> Define(s, "Integer", e.type, <<>>, e.value)
      [] e.node = "Reference" -> Value(s, VariableRegister(e.value))
      [] e.node = "Convert" -> LowerOperation(e, s, "Convert", ConversionType(e.args[1].type, e.type))
      [] e.node = "LoadArrayDecay" ->
             Define(s, "LoadArrayDecay", e.type, <<VariableRegister(e.args[1].value)>>, 0)
      [] e.node = "IntegerArrayDecay" -> Define(s, "IntegerArrayDecay", e.type, <<>>, 0)
      [] e.node = "Call" -> LowerCall(e, s)
      [] e.node = "PointerConversion" -> LowerPointerConversion(e, s)
      [] e.node = "AddressOf" -> LowerAddressOf(e, s)
      [] e.node = "Assign" -> LowerAssign(e, s)
      [] e.node \in {"CompoundAssign", "StepAssign"} -> LowerCompound(e, s)
      [] e.node = "PostStep" -> LowerPostStep(e, s)
      [] OTHER -> LowerOperation(e, s, e.node, e.value)
--------------------------------------------------------------------------------
(* A function with one statement.                                                 *)
Parameter(n) == ~IsArray(TypeOf[Variables[n]])

\* Parameters are allocated and stored; an array is a local with an initialiser.
Prologue ==
    LET declare(n) == <<Node("Allocate", n, Width(TypeOf[Variables[n]]), <<>>, Variables[n]),
                        Node(IF Parameter(n) THEN "IncomingParameter" ELSE "ArrayStore",
                             NoResult, 0, <<n>>, Variables[n])>>
        all[n \in 0 .. Len(Variables)] == IF n = 0 THEN <<>> ELSE all[n - 1] \o declare(n)
    IN [built |-> all[Len(Variables)], next |-> Len(Variables) + 1, reg |-> NoResult, ok |-> TRUE]

\* ParseReturn, in a function that returns int: a value that was lowered, or a number.
Returned(s) == Perform(s, "Return", IF s.reg = NoResult THEN <<>> ELSE <<s.reg>>, 0)
LowerReturn(e, s) == Returned(LowerLoaded(ConvertTo(e, SignedInt), s))
LowerNumberReturn(n, s) == Returned(Define(s, "Integer", SignedInt, <<>>, n))

\* ParseCondition
ParseCondition(e) ==
    IF e.node = "Compare" THEN e ELSE IF IsScalar(e.type) THEN MakeNonZeroTest(e) ELSE Rejected

\* if (e) return 1; return 0;
BranchOn(condition) ==
    Perform(Perform(condition, "Branch", <<condition.reg>>, [trueLabel |-> "if.then", falseLabel |-> "if.end"]),
            "Label", <<>>, "if.then")
Guarded(s) == Perform(Perform(LowerNumberReturn(1, s), "Jump", <<>>, "if.end"), "Label", <<>>, "if.end")
IfReturn(condition) ==
    LowerNumberReturn(0, IF condition.reg = NoResult THEN condition ELSE Guarded(BranchOn(condition)))
LowerIf(e, s) == IfReturn(LowerLoaded(ParseCondition(e), s))

\* The statement forms: return e; -- e; -- if (e) return 1; return 0;
Accepted(form, e) ==
    LET typed == ParseExpression(e)
    IN /\ ~IsRejected(typed)
       /\ form = "return" => ~IsRejected(ConvertTo(typed, SignedInt))
       /\ form = "if" => ~IsRejected(ParseCondition(typed))

LowerRoutine(form, e) ==
    LET typed == ParseExpression(e)
    IN CASE form = "return" -> LowerReturn(typed, Prologue)
         [] form = "discard" -> Perform(Lower(typed, Prologue), "Return", <<>>, 0)
         [] form = "if" -> LowerIf(typed, Prologue)
================================================================================
