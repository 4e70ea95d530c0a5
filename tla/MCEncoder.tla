------------------------------- MODULE MCEncoder -------------------------------
(***************************************************************************)
(* Functions as the lowering emits them: a variable is stored and loaded   *)
(* by copies, every other result is a temporary of its own, numbered in    *)
(* order.  Four families, of which a configuration takes some:             *)
(*                                                                         *)
(* Straight: two parameters, then any BodyLength instructions.             *)
(*                                                                         *)
(* Looping: one parameter; code before a loop, a head that compares, a     *)
(* body, and code after it.  Temporaries made before the loop and in its   *)
(* head are read anywhere later, those of the body only there.             *)
(*                                                                         *)
(* Calls: code before a call, its arguments one after the other, the call, *)
(* and code that uses what was computed before.                            *)
(*                                                                         *)
(* Memory: one parameter, then instructions on a variable, an array of 37  *)
(* bytes, one of 13, one of 7 that fits a register, and a value of 37      *)
(* bytes: they are filled, their addresses taken and moved, and words and  *)
(* whole values read and stored through them.                              *)
(***************************************************************************)
EXTENDS Encoder

CONSTANTS rax, rcx, rdx, r10, rbx,
          SpillageChoices,
          Trees,        \* each temporary is read once, as in an expression, and constants are folded
          WideLiterals, \* a constant may be zero-extended, and need not be that of a char
          BodyLength, StraightOperations, StraightConversions,
          Looped,       \* whether there are loops
          Outer, Inner, LoopOperations, LoopConversions,
          Calling,      \* whether there are calls, in place of the straight functions
          Before, After, Arguments, Operations, Complements,
          MemoryLength  \* instructions on memory, 0 for no such functions

MCPool4 == <<rax, rcx, rdx, rbx>>
MCPool5 == <<rax, rcx, rdx, r10, rbx>>
NoObjects == <<>>
MCParams2 == <<rcx, rdx>>

Instr(op, dst, srcs, n) == [op |-> op, dst |-> dst, srcs |-> srcs, n |-> n]

FirstTemporary == 10
Temps(p) == ({p[k].dst : k \in DOMAIN p} \cap Temporaries) \ Large
Fresh(p) == FirstTemporary + Cardinality(Temps(p))

\* One more instruction for the function so far.
Constants(p) == {Instr("int", Fresh(p), <<>>, 2 * Len(p) + 1)}
\* The constant of a char has its sign in all its bits.
Chars(p) == {[i EXCEPT !.n = SignExtendImmediate(@, Narrow)] : i \in Constants(p)}
Loads(p, vs) == {Instr("copy", Fresh(p), <<v>>, 0) : v \in vs}
Stores(p, vs) == {Instr("copy", v, <<t>>, 0) : v \in vs, t \in Temps(p)}
Unread(p) == {t \in Temps(p) : \A k \in DOMAIN p : t \notin ToSet(p[k].srcs)}
IsConstant(p, t) == \E k \in DOMAIN p : p[k].op = "int" /\ p[k].dst = t
Operands(p) ==
    IF Trees THEN {x \in Unread(p) \X Unread(p) :
                      x[1] # x[2] /\ ~(IsConstant(p, x[1]) /\ IsConstant(p, x[2]))}
    ELSE Temps(p) \X Temps(p)
Unary(p, ops) ==
    {Instr(op, Fresh(p), <<t>>, 0) :
        op \in ops, t \in {x \in Temps(p) : IsConstant(p, x) /\ "movzx" \in ops => WideLiterals}}
Binary(p, ops) == {Instr(op, Fresh(p), x, 0) : op \in ops, x \in Operands(p)}

\* One of the operations, by turns.
Turn(p, ops) == {SetToSeq(ops)[1 + (Len(p) % Cardinality(ops))]}

Returns(p) == {Instr("Return", None, <<t>>, 0) : t \in IF Trees THEN Unread(p) ELSE Temps(p)}

CopyParameter(v, k) == Instr("CopyParameter", v, <<>>, k)
Prologue == <<CopyParameter(1, 1), CopyParameter(2, 2)>>

IsComplete(p) == p # <<>> /\ Last(p).op = "Return"

-----------------------------------------------------------------------------
(* Straight and looping functions *)

Straight(p) ==
    IF Len(p) = Len(Prologue) + BodyLength THEN Returns(p)
    ELSE UNION {IF WideLiterals THEN Constants(p) ELSE Chars(p), Loads(p, {1, 2}), Stores(p, {1, 2}),
                Unary(p, StraightConversions), Binary(p, StraightOperations)}

Looping(p) == {k \in DOMAIN p : p[k].op \in {"Label", "CompareAndJump", "UnconditionalJump"}}
Phase(p) == Cardinality(Looping(p))
Since(p) == Len(p) - (IF Looping(p) = {} THEN 1 ELSE CHOOSE k \in Looping(p) :
                                                      \A j \in Looping(p) : j <= k)
Dominating(p) == Temps(SubSeq(p, 1, CHOOSE k \in DOMAIN p : p[k].op = "CompareAndJump"))

BeforeLoop(p) == UNION {Constants(p), Loads(p, {1}), Unary(p, LoopConversions), Binary(p, Turn(p, LoopOperations))}
InLoop(p) == Loads(p, {1}) \cup Stores(p, {1}) \cup Binary(p, Turn(p, LoopOperations))

WithLoop(p) ==
    CASE Phase(p) = 0 -> IF Since(p) < Outer THEN BeforeLoop(p)
                         ELSE {Instr("Label", None, <<>>, 1)}
      [] Phase(p) = 1 -> IF Since(p) = 0 THEN Loads(p, {1})
                         ELSE {Instr("CompareAndJump", None, <<Fresh(p) - 1, t>>, 2) :
                                  t \in Temps(p) \ {Fresh(p) - 1}}
      [] Phase(p) = 2 -> IF Since(p) < Inner THEN InLoop(p)
                         ELSE {Instr("UnconditionalJump", None, <<>>, 1)}
      [] Phase(p) = 3 -> {Instr("Label", None, <<>>, 2)}
      [] Phase(p) = 4 -> {Instr("Return", None, <<t>>, 0) : t \in Dominating(p)}

-----------------------------------------------------------------------------
(* Calls *)

Passed(p) == Cardinality({k \in DOMAIN p : p[k].op = "PassArgument"})
Called(p) == \E k \in DOMAIN p : p[k].op \in {"Call", "CallWithResult"}
AfterCall(p) == Len(p) - (CHOOSE k \in DOMAIN p : p[k].op \in {"Call", "CallWithResult"})

\* An argument is the root of its expression: no other argument is computed from it.
Roots(p) == {t \in Temps(p) : \A k \in DOMAIN p : p[k].op # "PassArgument" => t \notin ToSet(p[k].srcs)}

\* What follows the call combines its result with what was computed before it.
Newest(p) == Fresh(p) - 1
IsVoid(p) == \E k \in DOMAIN p : p[k].op = "Call"
ReturnedBy(p) == IF IsVoid(p) THEN <<>> ELSE <<Newest(p)>>

Body(p) == Constants(p) \cup Loads(p, {1, 2}) \cup Unary(p, Turn(p, Complements)) \cup Binary(p, Turn(p, Operations))

WithCall(p) ==
    IF Called(p) THEN IF AfterCall(p) = After THEN {Instr("Return", None, ReturnedBy(p), 0)}
                      ELSE {i \in Binary(p, Turn(p, Operations)) : Newest(p) \in ToSet(i.srcs)}
    ELSE IF Passed(p) = Arguments THEN {Instr("CallWithResult", Fresh(p), <<>>, Arguments),
                                        Instr("Call", None, <<>>, Arguments)}
    ELSE IF Len(p) >= Len(Prologue) + Before
         THEN {Instr("PassArgument", None, <<t>>, Passed(p) + 1) : t \in Roots(p)}
    ELSE Body(p)

-----------------------------------------------------------------------------
(* Memory *)

MCObjectSize == (3 :> 37) @@ (5 :> 13) @@ (20 :> 37)
Array == 3
WholeArray == 20
Sizes == {<<3, 37>>, <<5, 13>>, <<2, 7>>}

Fills(p) == {Instr(op, x[1], <<>>, x[2]) : op \in {"ZeroMemory", "CopyFromData"}, x \in Sizes}
Addresses(p, vs) == {Instr("AddressOf", Fresh(p), <<v>>, 0) : v \in vs}

\* What a temporary points to: the variable or array its address was computed from.
Points(p) ==
    LET Base[t \in Temporaries] ==
            IF t \notin Temps(p) THEN None
            ELSE LET i == p[CHOOSE k \in DOMAIN p : p[k].dst = t /\ p[k].op # "IndirectStore"]
                 IN  CASE i.op = "AddressOf" -> i.srcs[1]
                       [] i.op = "add"       -> Base[i.srcs[1]]
                       [] OTHER              -> None
    IN  Base

\* A register an indirect store has taken is not read again; the copy of the
\* array takes all registers, its address with them.
TakenBy(i) ==
    CASE i.op = "IndirectStore" -> ToSet(i.srcs)
      [] i.op = "Indirection" /\ i.dst = WholeArray -> ToSet(i.srcs)
      [] OTHER -> {}
Usable(p) == Temps(p) \ UNION {TakenBy(p[k]) : k \in DOMAIN p}
Pointers(p, base, vs) == {t \in Usable(p) : base[t] \in vs}
Plain8(p, base) == {t \in Usable(p) : base[t] = None}

Whole(p) == \E k \in DOMAIN p : p[k].dst = WholeArray
Used(p, t) == \E k \in DOMAIN p : t \in ToSet(p[k].srcs)
\* The variable is stored by name only after its address, if taken, was used.
Named(p, base) ==
    IF \E t \in Temps(p) : base[t] = 1 /\ ~Used(p, t) THEN {} ELSE {1}
StoredByName(p) == \E k \in DOMAIN p : p[k].op = "copy" /\ p[k].dst = 1

\* What an indirect store takes is read by nothing that may be computed later.
Final(p, ts) == {t \in ts : \A k \in DOMAIN p : p[k].op = "add" => t \notin ToSet(p[k].srcs)}
\* The address of the array itself, nothing computed from it.
Plainly(p, base) ==
    Final(p, {t \in Pointers(p, base, {Array}) : \A k \in DOMAIN p : p[k].dst = t => p[k].op # "add"})
Reads(p, base) ==
    {Instr("Indirection", Fresh(p), <<t>>, 0) : t \in Pointers(p, base, {1, Array})}
    \cup {Instr("Indirection", WholeArray, <<t>>, 0) :
              t \in {x \in Plainly(p, base) : ~Whole(p)}}
Writes(p, base) ==
    {Instr("IndirectStore", t, <<t, s>>, 0) : t \in Final(p, Pointers(p, base, {1, Array})), s \in Final(p, Plain8(p, base))}
    \cup {Instr("IndirectStore", t, <<t, WholeArray>>, 0) :
              t \in {x \in Plainly(p, base) : Whole(p)}}
Offsets(p, base) ==
    {Instr("add", Fresh(p), <<t, s>>, 0) :
        t \in Pointers(p, base, {Array}), s \in {c \in Usable(p) : IsConstant(p, c)}}

OnMemory(p, base) ==
    UNION {Constants(p), Loads(p, {1}),
           Addresses(p, IF StoredByName(p) THEN {Array} ELSE {1, Array}),
           {Instr("copy", 1, <<t>>, 0) : t \in Plain8(p, base), v \in Named(p, base)},
           Reads(p, base), Writes(p, base), Offsets(p, base)}
WithMemory(p) ==
    IF Len(p) = 2 + MemoryLength
    THEN {Instr("Return", None, <<t>>, 0) : t \in Plain8(p, Points(p))} \cup {Instr("Return", None, <<>>, 0)}
    ELSE OnMemory(p, Points(p))
StartsMemory(p) == p[2].op \in {"AddressOf", "ZeroMemory", "CopyFromData"}

-----------------------------------------------------------------------------

MCSpillages(p) == IF Len(p) > 1 /\ StartsMemory(p) THEN {"None"} ELSE SpillageChoices

(* The second instruction tells the families apart. *)
SecondInstructions(p) ==
    UNION {{Prologue[2]},
           IF Looped THEN WithLoop(p) ELSE {},
           IF MemoryLength > 0 THEN Fills(p) \cup Addresses(p, {1, Array}) ELSE {}}
MCMayFollow(p) ==
    IF IsComplete(p) THEN {}
    ELSE CASE p = <<>> -> {Prologue[1]}
           [] Len(p) = 1 -> SecondInstructions(p)
           [] Len(p) > 1 -> IF StartsMemory(p) THEN WithMemory(p)
                            ELSE IF p[2] # Prologue[2] THEN WithLoop(p)
                            ELSE IF Calling THEN WithCall(p) ELSE Straight(p)
=============================================================================
