------------------------------- MODULE Statements -------------------------------
(***************************************************************************)
(* The lowering of statements: IR::Parse...Statement writes labels, jumps, *)
(* comparisons and branches, ParsingContext::ParseNode turns them into     *)
(* virtual code, FinaliseControlFlow cleans that up.                       *)
(*                                                                         *)
(* The recursion of ParseNode over a statement and its body is cut at the  *)
(* tokens of the body: an open statement is a frame that holds the labels  *)
(* its handler made.  Names made by MakeLabelName are pairs <<hint, n>>.   *)
(***************************************************************************)
EXTENDS StatementSemantics, FinaliseControlFlow, SequencesExt

CONSTANTS
    Vocabularies,  \* the kinds of statements a function is made of, and how many tokens
    UserLabels,    \* names in label and goto statements
    ContinueIn,    \* loops that have continue statements
    Codes,         \* condition codes of the comparisons, by turns
    Optimise       \* values of OptimiseDeadJumps

\* What MakeLabelName is asked for. A name the programmer wrote has no dot in it.
Hints == {"if.then", "if.else", "if.end"} \cup
         {kind \o part : kind \in Loops, part \in {".body", ".cont", ".end"}}
ASSUME UserLabelsAssumption == UserLabels \cap Hints = {}

VARIABLES
    vocabulary,      \* of this function: .kinds and .tokens
    program,         \* the tokens read
    frames,          \* open statements, innermost last
    jumpStack,       \* _jumpStack
    nextLabelIndex,  \* _nextLabelIndex
    built,           \* _built: the nodes of the function's body
    code,            \* instructions of the routine
    diagnosed,       \* has a diagnostic been issued?
    phase,           \* "statements", "finalising", "done"
    pass             \* pass of FinaliseControlFlow

vars == <<vocabulary, program, frames, jumpStack, nextLabelIndex, built, code, diagnosed, phase, pass>>
translation == <<code, phase, pass>>

Init ==
    /\ vocabulary \in Vocabularies
    /\ program = <<>> /\ frames = <<>> /\ jumpStack = <<>> /\ nextLabelIndex = 0
    /\ built = <<>> /\ code = <<>> /\ diagnosed = FALSE
    /\ phase = "statements" /\ pass = 0

-----------------------------------------------------------------------------
(* Nodes *)

EmitLabel(l) == <<[node |-> "Label", label |-> l]>>
EmitJump(l)  == <<[node |-> "Goto", label |-> l]>>
EmitBranch(test, ifTrue, ifFalse) ==
    <<[node |-> "Branch", test |-> test, ifTrue |-> ifTrue, ifFalse |-> ifFalse]>>
EmitCompare(test, c) == <<[node |-> "Compare", test |-> test, code |-> c]>>
Other(kind, of) == <<[node |-> kind, of |-> of]>>

\* A name made here has a dot in it.
MakeLabelName(hint, n) == <<hint, n>>
Written(l) == <<l, 0>>

\* A comparison and the branch on it, or a jump where no condition is written.
EmitConditionalBranch(token, test, ifTrue, ifFalse) ==
    IF token.cond = "none"
    THEN EmitJump(ifTrue)
    ELSE EmitCompare(test, token.code) \o EmitBranch(test, ifTrue, ifFalse)

-----------------------------------------------------------------------------
(* Statements *)

Here == Len(program) + 1
Code == Codes[1 + (Here % Len(Codes))]
Token(kind, cond, label) == [kind |-> kind, cond |-> cond, code |-> Code, label |-> label]
Room(kind) == Here + Len(frames) + (IF kind \in Openers THEN 1 ELSE 0) <= vocabulary.tokens
Read(kind, cond, label) ==
    /\ phase = "statements" /\ kind \in vocabulary.kinds /\ Room(kind)
    /\ program' = Append(program, Token(kind, cond, label))
    /\ UNCHANGED translation
\* Nothing but nodes and diagnostics.
Write(nodes, problem) ==
    /\ built' = built \o nodes
    /\ diagnosed' = (diagnosed \/ problem)
    /\ UNCHANGED <<frames, jumpStack, nextLabelIndex>>

ExpressionStatement == Read("op", "none", "") /\ Write(Other("Operation", <<"at", Here>>), FALSE)
\* A comparison whose result is used as a number.
ComparisonAsValue ==
    /\ Read("value", "none", "")
    /\ Write(EmitCompare(Here, Code) \o Other("UseOfComparison", <<"at", Here>>), FALSE)
ParseReturn == Read("return", "none", "") /\ Write(Other("Return", <<"at", Here>>), FALSE)
ParseLabelNode(l) == Read("label", "none", l) /\ Write(EmitLabel(Written(l)), FALSE)
ParseGotoNode(l)  == Read("goto", "none", l) /\ Write(EmitJump(Written(l)), FALSE)

\* Mutant: break leaves the outermost loop.
BreakOutermost ==
    /\ Read("break", "none", "")
    /\ IF jumpStack = <<>>
       THEN Write(<<>>, TRUE)
       ELSE Write(EmitJump(Head(jumpStack).breakLabel), FALSE)
ParseBreakNode ==
    /\ Read("break", "none", "")
    /\ IF jumpStack = <<>>
       THEN Write(<<>>, TRUE)
       ELSE Write(EmitJump(Last(jumpStack).breakLabel), FALSE)

\* The kind of the innermost open loop.
InnermostLoop ==
    {frames[i].kind : i \in {j \in DOMAIN frames : /\ frames[j].kind \in Loops
                                                   /\ \A k \in (j + 1)..Len(frames) :
                                                         frames[k].kind \notin Loops}}

\* Every loop has a continue label, so that the nearest entry is the one found.
ParseContinueNode ==
    /\ InnermostLoop \subseteq ContinueIn
    /\ Read("continue", "none", "")
    /\ IF jumpStack = <<>>
       THEN Write(<<>>, TRUE)
       ELSE Write(EmitJump(Last(jumpStack).continueLabel), FALSE)

\* If, while and for give up on a condition that is not one.  The loops have made their labels
\* by then, and for has lowered its first statement.
IllCondition(kind) ==
    /\ Read("ill", "none", "")
    /\ built' = built \o IF kind = "for" THEN Other("Operation", <<"init", Here>>) ELSE <<>>
    /\ nextLabelIndex' = nextLabelIndex + IF kind = "if" THEN 0 ELSE 3
    /\ diagnosed' = TRUE
    /\ UNCHANGED <<frames, jumpStack>>

-----------------------------------------------------------------------------
(* Statements with a body *)

Frame(kind, body, cont, end) == [kind |-> kind, at |-> Here, body |-> body, cont |-> cont, end |-> end]

\* JumpScope
Enter(frame, names) ==
    /\ frames' = Append(frames, frame)
    /\ jumpStack' = IF frame.kind \in Loops
                    THEN Append(jumpStack, [breakLabel |-> frame.end, continueLabel |-> frame.cont])
                    ELSE jumpStack
    /\ nextLabelIndex' = nextLabelIndex + names
    /\ UNCHANGED diagnosed
EmitEntry(nodes) == built' = built \o nodes

OpenIf(hasElse) ==
    LET then == MakeLabelName("if.then", nextLabelIndex)
        end == MakeLabelName("if.end", nextLabelIndex + 1)
        else == IF hasElse THEN MakeLabelName("if.else", nextLabelIndex + 2) ELSE end
    IN  /\ Read("if", "test", "")
        /\ Enter(Frame("if", then, else, end), IF hasElse THEN 3 ELSE 2)
        /\ EmitEntry(EmitConditionalBranch(Token("if", "test", ""), Here, then, else) \o EmitLabel(then))

\* The end of the first body of an if that has a second.
Else ==
    LET frame == Last(frames)
    IN  /\ frames # <<>> /\ frame.kind = "if" /\ frame.cont # frame.end
        /\ Read("else", "none", "")
        /\ frames' = [frames EXCEPT ![Len(frames)].kind = "else"]
        /\ built' = built \o EmitJump(frame.end) \o EmitLabel(frame.cont)
        /\ UNCHANGED <<jumpStack, nextLabelIndex, diagnosed>>

LoopFrame(kind) ==
    Frame(kind, MakeLabelName(kind \o ".body", nextLabelIndex),
                MakeLabelName(kind \o ".cont", nextLabelIndex + 1),
                MakeLabelName(kind \o ".end", nextLabelIndex + 2))

OpenLoop(kind, cond) ==
    LET frame == LoopFrame(kind)
    IN  /\ cond = "none" => kind = "for"
        /\ cond = "ill" => kind = "do"
        /\ Read(kind, cond, "")
        /\ Enter(frame, 3)
        /\ EmitEntry((IF kind = "for" THEN Other("Operation", <<"init", Here>>) ELSE <<>>)
                     \o (IF kind = "do" THEN <<>>
                         ELSE EmitConditionalBranch(Token(kind, cond, ""), Here, frame.body, frame.end))
                     \o EmitLabel(frame.body))

\* The end of a body.  For lowers its step in the body; a do whose condition is ill writes no
\* label for its end.
CloseNodes(frame) ==
    CASE frame.kind = "if"   -> EmitJump(frame.end) \o EmitLabel(frame.end)
      [] frame.kind = "else" -> EmitLabel(frame.end)
      [] frame.kind \in Loops ->
            (IF frame.kind = "for" THEN Other("Operation", <<"step", frame.at>>) ELSE <<>>)
            \o EmitLabel(frame.cont)
            \o (IF program[frame.at].cond = "ill"
                THEN <<>>
                ELSE EmitConditionalBranch(program[frame.at], frame.at, frame.body, frame.end)
                     \o EmitLabel(frame.end))

\* An else with nothing in it is no else.
Close ==
    LET frame == Last(frames)
    IN  /\ frames # <<>> /\ phase = "statements"
        /\ frame.kind = "if" => frame.cont = frame.end
        /\ frame.kind = "else" => Last(program).kind # "else"
        /\ program' = Append(program, Token("close", "none", ""))
        /\ frames' = Front(frames)
        /\ jumpStack' = IF frame.kind \in Loops THEN Front(jumpStack) ELSE jumpStack
        /\ built' = built \o CloseNodes(frame)
        /\ diagnosed' = (diagnosed \/ program[frame.at].cond = "ill")
        /\ UNCHANGED <<nextLabelIndex, translation>>

-----------------------------------------------------------------------------
(* CompileRoutine *)

\* Invert: the condition a branch jumps away on.
Invert(c) ==
    CASE c = "Equal"        -> "NotEqual"
      [] c = "NotEqual"     -> "Equal"
      [] c = "Less"         -> "GreaterEqual"
      [] c = "LessEqual"    -> "Greater"
      [] c = "Greater"      -> "LessEqual"
      [] c = "GreaterEqual" -> "Less"
      [] c = "Below"        -> "AboveEqual"
      [] c = "BelowEqual"   -> "Above"
      [] c = "Above"        -> "BelowEqual"
      [] c = "AboveEqual"   -> "Below"

NoCompare == [test |-> 0, code |-> ""]
EmptyRoutine == [instructions |-> <<>>, definedLabels |-> {}, gotoReferences |-> {},
                 pendingCompare |-> NoCompare, diagnosed |-> FALSE]

Emit(r, i) == [r EXCEPT !.instructions = Append(@, i)]
Diagnose(r) == [r EXCEPT !.diagnosed = TRUE]

\* ParseBranchNode: jump away on the opposite condition, then to the true label.
BranchOn(r, n) ==
    IF r.pendingCompare.test # n.test
    THEN [Diagnose(r) EXCEPT !.pendingCompare = NoCompare]
    ELSE [Emit(Emit(r, CompareAndJump(n.test, Invert(r.pendingCompare.code), n.ifFalse)),
               UnconditionalJump(n.ifTrue)) EXCEPT !.pendingCompare = NoCompare]

\* Mutant: a label placed again is not noticed.
PlaceAgain(r, l) == [Emit(r, Label(l)) EXCEPT !.definedLabels = @ \cup {l}]
\* ParseLabelNode of the back end: the first of two equal labels counts.
Place(r, l) ==
    IF l \in r.definedLabels
    THEN Diagnose(r)
    ELSE [Emit(r, Label(l)) EXCEPT !.definedLabels = @ \cup {l}]

\* A comparison nobody branches on is dropped with a diagnostic.
Settle(r, n) ==
    IF r.pendingCompare # NoCompare /\ n.node # "Branch"
    THEN [Diagnose(r) EXCEPT !.pendingCompare = NoCompare]
    ELSE r

ParseNode(before, n) ==
    LET r == Settle(before, n)
    IN  CASE n.node = "Operation" -> Emit(r, Operation(n.of))
          [] n.node = "Return"    -> Emit(r, Return(n.of))
          [] n.node = "Label"     -> Place(r, n.label)
          [] n.node = "Goto"      -> [Emit(r, UnconditionalJump(n.label))
                                         EXCEPT !.gotoReferences = @ \cup {n.label}]
          [] n.node = "Compare"   -> [r EXCEPT !.pendingCompare = [test |-> n.test, code |-> n.code]]
          [] n.node = "Branch"    -> BranchOn(r, n)
          [] n.node = "UseOfComparison" -> Diagnose(r)

\* A function that returns nothing has a return after its body.
ImplicitReturn(void) == IF void THEN Other("Return", <<"at", Here>>) ELSE <<>>

\* The loop over the nodes.
Compiled(nodes) ==
    LET r[n \in 0..Len(nodes)] == IF n = 0 THEN EmptyRoutine ELSE ParseNode(r[n - 1], nodes[n])
    IN  r[Len(nodes)]

CompileRoutine(void, optimise) ==
    LET nodes == built \o ImplicitReturn(void)
        r == Compiled(nodes)
    IN  /\ phase = "statements" /\ frames = <<>> /\ program # <<>>
        /\ built' = nodes
        /\ diagnosed' = (diagnosed \/ r.diagnosed \/ ~(r.gotoReferences \subseteq r.definedLabels))
        /\ code' = IF optimise THEN r.instructions ELSE EraseUndefined(r.instructions, r.definedLabels)
        /\ phase' = IF optimise THEN "finalising" ELSE "done"
        /\ UNCHANGED <<program, frames, jumpStack, nextLabelIndex, pass>>

FinalisePass ==
    /\ phase = "finalising"
    /\ code' = Pass(code)
    /\ pass' = pass + 1
    /\ phase' = IF code' = code \/ pass' = MaxPasses THEN "done" ELSE "finalising"
    /\ UNCHANGED <<program, frames, jumpStack, nextLabelIndex, built, diagnosed>>

Next ==
    /\ UNCHANGED vocabulary
    /\ \/ ExpressionStatement \/ ComparisonAsValue \/ ParseReturn
       \/ \E l \in UserLabels : ParseLabelNode(l) \/ ParseGotoNode(l)
       \/ ParseBreakNode \/ ParseContinueNode
       \/ \E kind \in {"if", "while", "for"} : IllCondition(kind)
       \/ \E hasElse \in BOOLEAN : OpenIf(hasElse)
       \/ Else
       \/ \E kind \in Loops, cond \in {"test", "none", "ill"} : OpenLoop(kind, cond)
       \/ Close
       \/ \E void \in BOOLEAN, optimise \in Optimise : CompileRoutine(void, optimise)
       \/ FinalisePass

Spec == Init /\ [][Next]_vars

-----------------------------------------------------------------------------
(* What the code does *)

\* The instruction after the jump, the branch or the label at pc, when the operands of each
\* test compare as cmp says.
Onto(routine, cmp, pc) ==
    LET i == routine[pc]
    IN  IF \/ i.op = "UnconditionalJump"
           \/ i.op = "CompareAndJump" /\ Holds(i.code, cmp[i.test])
        THEN Position(routine, i.label)
        ELSE pc + 1

\* The first thing that can be seen when the code is entered at pc: an operation, a return, the
\* end of the code, or nothing ever.  No state changes before it, so that every test has one
\* outcome, and a walk longer than the code goes round for good.
FirstSeen(routine, cmp, pc) ==
    LET walk[left \in Nat, at \in Nat] ==
            CASE at > Len(routine)                          -> <<"end">>
              [] routine[at].op \in {"Operation", "Return"} -> <<routine[at].op, routine[at].of>>
              [] left = 0                                   -> <<"spin">>
              [] OTHER                                      -> walk[left - 1, Onto(routine, cmp, at)]
    IN  walk[Len(routine) + 1, pc]

-----------------------------------------------------------------------------
(* Properties *)

Tests == {i \in DOMAIN program : program[i].cond = "test"}

\* Operands of the first test compare in every way, those of the others in one way that
\* satisfies it and one that does not.
Comparisons ==
    LET Ways(i) == IF \A j \in Tests : i <= j
                   THEN Orderings
                   ELSE {CHOOSE o \in Orderings : Holds(program[i].code, o),
                         CHOOSE o \in Orderings : ~Holds(program[i].code, o)}
    IN  {cmp \in [Tests -> Orderings] : \A i \in Tests : cmp[i] \in Ways(i)}

\* A function may return at its end or run off it.
Outcome(seen) == IF seen = <<"Return", <<"at", Here>>>> THEN <<"end">> ELSE seen

\* The code of a function without diagnostics does what the function's statements say, whether
\* or not FinaliseControlFlow has cleaned it up: whatever the conditions are, it begins with the
\* same operation or return, after each operation goes on to the same one, ends where they end
\* and never stops where they never do.
SameBehaviour ==
    phase = "done" /\ ~diagnosed =>
        LET nest == Nesting(program)
        IN  \A cmp \in Comparisons :
                /\ Outcome(FirstSeen(code, cmp, 1)) = Meets(program, nest, cmp, <<"at", 1>>)
                /\ \A pc \in DOMAIN code :
                      code[pc].op = "Operation" =>
                          Outcome(FirstSeen(code, cmp, pc + 1)) =
                              Meets(program, nest, cmp, From(program, nest, cmp, code[pc].of))

\* A diagnostic is issued for exactly the functions that are not allowed: none is accepted
\* because its jumps were cleaned away, none is refused because of labels the compiler made.
DiagnosedExactly == phase # "statements" => (diagnosed <=> IllFormed(program))

\* Whatever was diagnosed, the code handed on has each label once and each jump has its label:
\* the emitter asserts that no jump leads to a label that was never emitted.
JumpsHaveLabels ==
    phase = "done" =>
        /\ \A i \in DOMAIN code : TargetsOf(code[i]) \subseteq Placed(code)
        /\ \A i, j \in DOMAIN code : code[i].op = "Label" /\ code[i] = code[j] => i = j

================================================================================
