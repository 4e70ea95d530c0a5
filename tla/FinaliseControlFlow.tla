--------------------------- MODULE FinaliseControlFlow ---------------------------
(***************************************************************************)
(* ParsingContext::FinaliseControlFlow, the clean-up of a routine's jumps: *)
(* one pass of the optimising mode, and the other mode, which only removes *)
(* jumps to labels that were never placed.  The virtual code of a routine  *)
(* is known here as far as control goes: labels, jumps, compare-and-jumps  *)
(* and everything else, which is either an operation the outside can see   *)
(* or a return.  A label is known by its name.                             *)
(***************************************************************************)
EXTENDS Naturals, Sequences

CONSTANTS
    MaxPasses,    \* passes over a routine (8 in the code)
    MaxHops       \* jumps followed from one jump (32 in the code)

Operation(of) == [op |-> "Operation", of |-> of]
Return(of)    == [op |-> "Return", of |-> of]
Label(l)      == [op |-> "Label", label |-> l]
UnconditionalJump(l)         == [op |-> "UnconditionalJump", label |-> l]
CompareAndJump(test, c, l) == [op |-> "CompareAndJump", test |-> test, code |-> c, label |-> l]

IsJump(i) == i.op \in {"UnconditionalJump", "CompareAndJump"}
TargetsOf(i) == IF IsJump(i) THEN {i.label} ELSE {}
Position(code, l) == CHOOSE i \in DOMAIN code : code[i] = Label(l)
Placed(code) == {code[i].label : i \in {j \in DOMAIN code : code[j].op = "Label"}}

\* The instructions that are not dead, in their order.
Without(code, dead) ==
    LET kept[n \in 0..Len(code)] ==
            IF n = 0 THEN <<>> ELSE IF n \in dead THEN kept[n - 1] ELSE Append(kept[n - 1], code[n])
    IN  kept[Len(code)]

\* Mutant: the jumps are kept.
EraseNothing(code, definedLabels) == code
\* Without OptimiseDeadJumps: erase_if.
EraseUndefined(code, definedLabels) ==
    Without(code, {i \in DOMAIN code : ~(TargetsOf(code[i]) \subseteq definedLabels)})

-----------------------------------------------------------------------------
(* Threading: a jump to a jump becomes a jump to where that one goes *)

\* skipLabels
SkipLabels(code, i) ==
    CHOOSE next \in i..(Len(code) + 1) :
        /\ next > Len(code) \/ code[next].op # "Label"
        /\ \A j \in i..(next - 1) : code[j].op = "Label"

\* Mutant: a conditional jump is followed like the others.
OnwardThroughTests(code, position, l) ==
    LET next == SkipLabels(code, position[l])
    IN  IF next <= Len(code) /\ IsJump(code[next]) /\ code[next].label \in DOMAIN position
        THEN code[next].label
        ELSE l
\* One hop from a placed label; the label itself where the loop breaks.
Onward(code, position, l) ==
    LET next == SkipLabels(code, position[l])
    IN  IF /\ next <= Len(code)
           /\ code[next].op = "UnconditionalJump"
           /\ code[next].label \in DOMAIN position
        THEN code[next].label
        ELSE l
Follow(code, position, l) ==
    LET hop[hops \in 0..MaxHops, at \in DOMAIN position] ==
            LET onward == Onward(code, position, at)
            IN  IF hops = MaxHops \/ onward = at THEN at ELSE hop[hops + 1, onward]
    IN  hop[0, l]

Redirect(code, position, i) ==
    IF IsJump(code[i]) /\ code[i].label \in DOMAIN position
    THEN [code EXCEPT ![i].label = Follow(code, position, @)]
    ELSE code

\* In place, from the first instruction to the last: a jump follows those before it as they
\* have become.
Threaded(code) ==
    LET position == [l \in Placed(code) |-> Position(code, l)]
        done[n \in 0..Len(code)] == IF n = 0 THEN code ELSE Redirect(done[n - 1], position, n)
    IN  done[Len(code)]

-----------------------------------------------------------------------------
(* Dead instructions of the threaded code *)

\* Jumps to nowhere, and jumps to a label that is next anyway.
ToUndefined(code) == {i \in DOMAIN code : ~(TargetsOf(code[i]) \subseteq Placed(code))}
ToNext(code) ==
    {i \in DOMAIN code :
        \E j \in (i + 1)..Len(code) :
            /\ IsJump(code[i]) /\ code[j] = Label(code[i].label)
            /\ \A k \in (i + 1)..j : code[k].op = "Label"}

References(code, dead) == UNION {TargetsOf(code[i]) : i \in DOMAIN code \ dead}
Unreferenced(code, dead) ==
    {i \in DOMAIN code : code[i].op = "Label" /\ code[i].label \notin References(code, dead)}

\* What follows a live return or jump, up to the next label somebody jumps to.
Unreachable(code, dead, unreferenced) ==
    {i \in DOMAIN code :
        /\ code[i].op # "Label"
        /\ \E k \in 1..(i - 1) :
              /\ k \notin dead
              /\ code[k].op \in {"Return", "UnconditionalJump"}
              /\ \A j \in k..i : code[j].op = "Label" => j \in unreferenced}

\* The body of the loop over the passes.
Pass(code) ==
    LET threaded == Threaded(code)
        dead == ToUndefined(threaded) \cup ToNext(threaded)
        unreferenced == Unreferenced(threaded, dead)
    IN  Without(threaded, dead \cup unreferenced \cup Unreachable(threaded, dead, unreferenced))

================================================================================
