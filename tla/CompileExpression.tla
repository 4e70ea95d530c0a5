---------------------------- MODULE CompileExpression ----------------------------
(* One function with one statement, from its syntax tree to virtual instructions:  *)
(* the tree is parsed and lowered to SSA nodes, the nodes are walked, and what the  *)
(* virtual instructions do is compared with what the statement means.               *)
EXTENDS SsaLowering, ExpressionMeaning

CONSTANTS Programs,     \* statements with the SSA nodes the front end makes of them (FrontEnd)
          Samples       \* the values the variables may start with

VARIABLE source         \* the statement being compiled; a body of another origin has none

NoSource == [form |-> "none", tree |-> Lit(0)]

\* What the front end makes of the statements, each a form and a syntax tree, that it reports
\* nothing about.
FrontEnd(statements) ==
    LET lowered == {[form |-> s.form, tree |-> s.tree, routine |-> LowerRoutine(s.form, s.tree)] :
                       s \in {t \in statements : Accepted(t.form, t.tree)}}
    IN {[form |-> p.form, tree |-> p.tree, body |-> p.routine.built] : p \in {q \in lowered : q.routine.ok}}

CompileInit ==
    \/ \E p \in Programs : source = [form |-> p.form, tree |-> p.tree] /\ Start(p.body)
    \/ source = NoSource /\ \E b \in Bodies : Start(b)
CompileNext == ParseNode /\ UNCHANGED source
CompileSpec == CompileInit /\ [][CompileNext]_<<vars, source>>
---------------------------------------------------------------------------------
\* The front end keeps its promises to the walk: every register is defined once and before
\* it is read, parameters come first, and a comparison is consumed at most once.
BodyWellFormed == pos = 1 => IsBody(body) /\ OperandWidths(body)

\* What was compiled without a report does what the statement means, whatever the variables
\* hold: the value returned, the memory left behind, the calls and their arguments. The
\* front end's conversions, the order of evaluation, the scaling of pointer offsets, the
\* storage an assignment reaches and the operands the walk finds all show here.
ValuePreserved ==
    pos = Len(body) + 1 /\ diagnostics = <<>> /\ source # NoSource =>
        \A arguments \in Samples :
            Keeps(RoutineMeaning(source.form, source.tree, Entered(arguments)),
                  RoutineShows([instructions |-> instructions, descriptors |-> descriptors], arguments))
================================================================================
