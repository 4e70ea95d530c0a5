------------------------------- MODULE Routines -------------------------------
(***************************************************************************)
(* What the back end promises: a program behaves as if its routines were   *)
(* executed instruction by instruction, each activation with variables of  *)
(* its own, wherever they are, and with the callee-saved registers as it   *)
(* found them.  There is no stack pointer here, no frame, no code, no      *)
(* offset and no file.                                                     *)
(*                                                                         *)
(* An instruction's operands are registers, numbers, the variables of the  *)
(* routine ("Variable"), the places of stack arguments ("Argument"), texts *)
(* ("Text") and what a register points to ("Memory").  The addresses of    *)
(* variables and texts are arbitrary, but no two variables share a byte.   *)
(***************************************************************************)
EXTENDS Words, FiniteSets

CONSTANTS
    GeneralRegisters,     \* register numbers, without stack and frame pointer
    CalleeSavedRegisters, \* those a routine leaves as it found them
    ArgumentRegisters     \* those a library function is shown

VARIABLES
    program,
    position,     \* the routine and the index of its next instruction
    registers,
    activations,  \* the last one is executing
    compared,     \* the operands of the last comparison, <<>> if unknown
    events,       \* the calls of library functions so far
    strings       \* the texts, by address

vars == <<program, position, registers, activations, compared, events, strings>>

Place(routine, index) == [routine |-> routine, index |-> index]

Unbuilt == Place("", -1)
Exited == Place("", -2)

-----------------------------------------------------------------------------
(* The program. *)

Range1(sequence) == {sequence[k] : k \in DOMAIN sequence}

RoutinesOf(p) == UNION {Range1(p.units[u]) : u \in DOMAIN p.units}
Routine(p, name) == CHOOSE r \in RoutinesOf(p) : r.name = name
IsLibrary(p, name) == ~\E r \in RoutinesOf(p) : r.name = name

(* Labels are not instructions: the first one from index on. *)
Settled(p, name, index) ==
    LET code == Routine(p, name).code
    IN  Place(name, CHOOSE k \in index .. Len(code) :
                      /\ code[k].name # "Label"
                      /\ \A j \in index .. k - 1 : code[j].name = "Label")

Labelled(p, name, label) ==
    LET code == Routine(p, name).code
    IN  Settled(p, name, CHOOSE k \in DOMAIN code : code[k].name = "Label" /\ code[k].labelId = label)

Running == position.index >= 1
Here == Routine(program, position.routine).code[position.index]
NextPlace == Settled(program, position.routine, position.index + 1)

-----------------------------------------------------------------------------
(* Activations and operands. *)

Depth == Len(activations)
Top == activations[Depth]

Bytes(activation, v) == activation.address[v] .. activation.address[v] + Len(activation.contents[v]) - 1

AllVariables(stack) == {<<k, v>> : k \in DOMAIN stack, v \in UNION {DOMAIN stack[j].address : j \in DOMAIN stack}}
Variables(stack) == {p \in AllVariables(stack) : p[2] \in DOMAIN stack[p[1]].address}

Disjoint(stack) ==
    \A p \in Variables(stack), q \in Variables(stack) :
        p # q => Bytes(stack[p[1]], p[2]) \cap Bytes(stack[q[1]], q[2]) = {}

(* The variable a register points to. *)
PointsTo(operand) ==
    CHOOSE p \in Variables(activations) :
        WordOf(activations[p[1]].address[p[2]]) = registers[operand.relativeTo]

PlaceOf(operand) ==
    IF operand.kind = "Variable" THEN <<Depth, operand.variable>> ELSE PointsTo(operand)

Value(operand, n) ==
    CASE operand.kind = "Register" -> SubSeq(registers[operand.index], 1, n)
      [] operand.kind = "Integer" -> SubSeq(operand.value, 1, n)
      [] operand.kind = "Argument" -> SubSeq(Top.outgoing[operand.slot], 1, n)
      [] OTHER -> SubSeq(activations[PlaceOf(operand)[1]].contents[PlaceOf(operand)[2]], 1, n)

(* The first bytes of a place in memory change. *)
Overwritten(old, bytes) == [i \in DOMAIN old |-> IF i <= Len(bytes) THEN bytes[i] ELSE old[i]]

Becomes(operand, bytes) ==
    IF operand.kind = "Register"
    THEN /\ registers' = [registers EXCEPT ![operand.index] = Written(@, bytes)]
         /\ UNCHANGED activations
    ELSE /\ UNCHANGED registers
         /\ activations' =
              IF operand.kind = "Argument"
              THEN [activations EXCEPT ![Depth].outgoing[operand.slot] = Overwritten(@, bytes)]
              ELSE [activations EXCEPT ![PlaceOf(operand)[1]].contents[PlaceOf(operand)[2]] = Overwritten(@, bytes)]

-----------------------------------------------------------------------------
(* Instructions. *)

Size(i) == i.width \div 8

Goes(place) == position' = place /\ UNCHANGED <<program, strings>>

Move ==
    /\ Here.name = "Mov"
    /\ Becomes(Here.destination, Value(Here.source, Size(Here)))
    /\ Goes(NextPlace) /\ UNCHANGED <<compared, events>>

Add ==
    /\ Here.name = "Add"
    /\ Becomes(Here.destination, Plus(Value(Here.destination, Size(Here)), Value(Here.source, Size(Here))))
    /\ compared' = <<>>
    /\ Goes(NextPlace) /\ UNCHANGED events

Subtract ==
    /\ Here.name = "Sub"
    /\ LET left == Value(Here.destination, Size(Here))
           right == Value(Here.source, Size(Here))
       IN  Becomes(Here.destination, Minus(left, right)) /\ compared' = <<left, right>>
    /\ Goes(NextPlace) /\ UNCHANGED events

Compare ==
    /\ Here.name = "Cmp"
    /\ compared' = <<Value(Here.left, Size(Here)), Value(Here.right, Size(Here))>>
    /\ Goes(NextPlace) /\ UNCHANGED <<registers, activations, events>>

(* The address of a text is any at which the text is. *)
TakeAddress ==
    /\ Here.name = "Lea"
    /\ IF Here.address.kind = "Text"
       THEN /\ \E a \in DOMAIN strings :
                 /\ strings[a] = Here.address.text
                 /\ registers' = [registers EXCEPT ![Here.destination.index] = WordOf(a)]
            /\ UNCHANGED activations
       ELSE Becomes(Here.destination, WordOf(Top.address[Here.address.variable]))
    /\ Goes(NextPlace) /\ UNCHANGED <<compared, events>>

Jump ==
    /\ Here.name = "Jmp"
    /\ Goes(Labelled(program, position.routine, Here.labelId))
    /\ UNCHANGED <<registers, activations, compared, events>>

Holds(condition, a, b) ==
    CASE condition = "Equal" -> a = b
      [] condition = "NotEqual" -> a # b
      [] condition = "Less" -> Less(a, b)
      [] condition = "GreaterEqual" -> ~Less(a, b)
      [] condition = "Below" -> Below(a, b)
      [] condition = "AboveEqual" -> ~Below(a, b)

Branch ==
    /\ Here.name = "Jcc"
    /\ compared # <<>>
    /\ Goes(IF Holds(Here.condition, compared[1], compared[2])
            THEN Labelled(program, position.routine, Here.labelId) ELSE NextPlace)
    /\ UNCHANGED <<registers, activations, compared, events>>

-----------------------------------------------------------------------------
(* Calls.  The variables of a new activation hold anything.  A comparison  *)
(* does not outlive a call or a return.                                    *)

Scope == Routine(program, position.routine).functions[Here.indexToTable + 1]
Callee == Scope.name

(* A library may know a function by another name. *)
LibraryName == IF Scope.dllImportName = "" THEN Callee ELSE Scope.dllImportName

Fresh(activation, name, return) ==
    /\ activation.routine = name
    /\ activation.return = return
    /\ activation.saved = [r \in CalleeSavedRegisters |-> registers[r]]
    /\ \A v \in DOMAIN Routine(program, name).locals :
        Len(activation.contents[v]) = Routine(program, name).locals[v]

(* A routine is entered, and then executes its first instruction. *)
Entered(name) == {Place(name, 0), Settled(program, name, 1)}

Activates(name, return) ==
    /\ Len(activations') = Depth + 1
    /\ SubSeq(activations', 1, Depth) = activations
    /\ Fresh(activations'[Depth + 1], name, return)
    /\ Disjoint(activations')
    /\ position' \in Entered(name)

Start ==
    /\ position = Unbuilt
    /\ Activates("_EntryPoint", Exited)
    /\ events = <<>> /\ UNCHANGED <<program, events>>

Enter ==
    /\ position.index = 0
    /\ position' = Settled(program, position.routine, 1)
    /\ UNCHANGED <<program, registers, activations, events, strings>>

Call ==
    /\ Here.name = "Call"
    /\ ~IsLibrary(program, Callee)
    /\ Activates(Callee, NextPlace)
    /\ UNCHANGED <<program, registers, events, strings>>

(* A library function sees its arguments and may do as it likes with the   *)
(* places of the stack arguments, and with nothing else of the caller's.   *)
CallLibrary ==
    /\ Here.name = "Call"
    /\ IsLibrary(program, Callee)
    /\ events' = Append(events,
         [function |-> LibraryName,
          registers |-> [r \in ArgumentRegisters |-> registers[r]],
          arguments |-> SubSeq(Top.outgoing, 1, program.stackArguments[LibraryName])])
    /\ \A r \in CalleeSavedRegisters : registers'[r] = registers[r]
    /\ DOMAIN registers' = DOMAIN registers
    /\ \E outgoing \in {activations'[Depth].outgoing} :
         activations' = [activations EXCEPT ![Depth].outgoing = outgoing]
    /\ Goes(NextPlace)

Return ==
    /\ Here.name = "Ret"
    /\ registers' = [r \in DOMAIN registers |-> IF r \in CalleeSavedRegisters THEN Top.saved[r] ELSE registers[r]]
    /\ activations' = SubSeq(activations, 1, Depth - 1)
    /\ position' = Top.return
    /\ UNCHANGED <<program, events, strings>>

-----------------------------------------------------------------------------
Init ==
    /\ position = Unbuilt
    /\ activations = <<>>
    /\ compared = <<>>
    /\ events = <<>>

Next ==
    \/ Start
    \/ Enter
    \/ /\ Running
       /\ \/ Move \/ Add \/ Subtract \/ Compare \/ TakeAddress \/ Jump \/ Branch
          \/ Call \/ CallLibrary \/ Return

Spec == Init /\ [][Next]_vars
=============================================================================
