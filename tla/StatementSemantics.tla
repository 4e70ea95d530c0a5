--------------------------- MODULE StatementSemantics ---------------------------
(***************************************************************************)
(* What the statements of a function body mean: the abstract specification *)
(* of their lowering.  A body is a sequence of tokens, as it is written,   *)
(* and control is at a point of it.  There are no labels here but the      *)
(* programmer's, and a condition is written once.                          *)
(*                                                                         *)
(* A token is a record [kind, cond, code, label]: cond is "test" where a   *)
(* condition is written, code the condition code of its comparison, label  *)
(* the name in a label or a goto.                                          *)
(***************************************************************************)
EXTENDS Naturals, Sequences, FiniteSets

(* Conditions *)

ConditionCodes == {"Equal", "NotEqual", "Less", "LessEqual", "Greater", "GreaterEqual",
                   "Below", "BelowEqual", "Above", "AboveEqual"}

\* How two operands compare: both orders at once, the signed and the unsigned one.
Orderings == {[signed |-> "eq", unsigned |-> "eq"]} \cup
             [signed : {"lt", "gt"}, unsigned : {"lt", "gt"}]
Holds(c, o) ==
    CASE c = "Equal"        -> o.signed = "eq"
      [] c = "NotEqual"     -> o.signed # "eq"
      [] c = "Less"         -> o.signed = "lt"
      [] c = "LessEqual"    -> o.signed \in {"lt", "eq"}
      [] c = "Greater"      -> o.signed = "gt"
      [] c = "GreaterEqual" -> o.signed \in {"gt", "eq"}
      [] c = "Below"        -> o.unsigned = "lt"
      [] c = "BelowEqual"   -> o.unsigned \in {"lt", "eq"}
      [] c = "Above"        -> o.unsigned = "gt"
      [] c = "AboveEqual"   -> o.unsigned \in {"gt", "eq"}

-----------------------------------------------------------------------------
(* Statements *)

Loops == {"while", "do", "for"}
Openers == {"if"} \cup Loops

\* How many statements are open before token i, and the ends of an open statement.
Depth(p, i) == Cardinality({j \in 1..(i - 1) : p[j].kind \in Openers}) -
               Cardinality({j \in 1..(i - 1) : p[j].kind = "close"})
CloseOf(p, i) ==
    CHOOSE j \in (i + 1)..Len(p) :
        /\ p[j].kind = "close" /\ Depth(p, j) = Depth(p, i) + 1
        /\ \A k \in (i + 1)..(j - 1) : ~(p[k].kind = "close" /\ Depth(p, k) = Depth(p, i) + 1)
ElsesOf(p, i) ==
    {j \in (i + 1)..CloseOf(p, i) : p[j].kind = "else" /\ Depth(p, j) = Depth(p, i) + 1}
Around(p, i) == {k \in 1..(i - 1) : p[k].kind \in Openers /\ CloseOf(p, k) >= i}
LoopsAround(p, i) == {k \in Around(p, i) : p[k].kind \in Loops}
Innermost(around) == IF around = {} THEN 0 ELSE CHOOSE k \in around : \A j \in around : j <= k

\* The nesting of a body: where each statement ends and its else is (0: it has none), and the
\* statement and the loop each token is in.
Nesting(p) ==
    LET openers == {i \in DOMAIN p : p[i].kind \in Openers}
    IN  [close |-> [i \in openers |-> CloseOf(p, i)],
         else  |-> [i \in openers |-> Innermost(ElsesOf(p, i))],
         in    |-> [i \in DOMAIN p |-> Innermost(Around(p, i))],
         loop  |-> [i \in DOMAIN p |-> Innermost(LoopsAround(p, i))]]

-----------------------------------------------------------------------------
(* Points: <<part, i>> is before token i, or before the condition or the step of loop i. *)

True(p, cmp, i) == p[i].cond = "none" \/ Holds(p[i].code, cmp[i])

After(nest, i) == <<"at", nest.close[i] + 1>>

\* After the body of statement i, and where continue leads.
Again(p, nest, i) ==
    CASE p[i].kind = "if"              -> After(nest, i)
      [] p[i].kind = "for"             -> <<"step", i>>
      [] p[i].kind \in {"while", "do"} -> <<"test", i>>

From(p, nest, cmp, point) ==
    LET i == point[2]
        t == p[i]
    IN  CASE point[1] \in {"step", "init"} -> <<"test", i>>
          [] point[1] = "test" -> IF True(p, cmp, i) THEN <<"at", i + 1>> ELSE After(nest, i)
          [] point[1] = "at"   ->
               CASE t.kind \in {"op", "label", "do"} -> <<"at", i + 1>>
                 [] t.kind = "goto"  -> <<"at", CHOOSE j \in DOMAIN p :
                                                   p[j].kind = "label" /\ p[j].label = t.label>>
                 [] t.kind = "if"    -> IF True(p, cmp, i) THEN <<"at", i + 1>>
                                        ELSE IF nest.else[i] = 0 THEN After(nest, i)
                                        ELSE <<"at", nest.else[i] + 1>>
                 [] t.kind = "while" -> <<"test", i>>
                 [] t.kind = "for"   -> <<"init", i>>
                 [] t.kind \in {"close", "else"} -> Again(p, nest, nest.in[i])
                 [] t.kind = "break"    -> After(nest, nest.loop[i])
                 [] t.kind = "continue" -> Again(p, nest, nest.loop[i])

\* The first thing seen from a point on, as FirstSeen is for code.
Meets(p, nest, cmp, point) ==
    LET walk[left \in Nat, q \in {"at", "test", "step", "init"} \X Nat] ==
            CASE q = <<"at", Len(p) + 1>>    -> <<"end">>
              [] q[1] \in {"init", "step"}   -> <<"Operation", q>>
              [] q[1] = "at" /\ p[q[2]].kind = "op"     -> <<"Operation", q>>
              [] q[1] = "at" /\ p[q[2]].kind = "return" -> <<"Return", q>>
              [] left = 0                    -> <<"spin">>
              [] OTHER                       -> walk[left - 1, From(p, nest, cmp, q)]
    IN  walk[4 * Len(p) + 1, point]

\* A body the language does not allow.  (Conditions of the wrong type are tokens "ill".)
IllFormed(p) ==
    \/ \E i \in DOMAIN p : \/ p[i].kind \in {"value", "ill"} \/ p[i].cond = "ill"
                           \/ p[i].kind \in {"break", "continue"} /\ LoopsAround(p, i) = {}
    \/ \E i \in DOMAIN p : p[i].kind = "goto" /\
          \A j \in DOMAIN p : p[j].kind = "label" => p[j].label # p[i].label
    \/ \E i, j \in DOMAIN p : /\ i # j /\ p[i].kind = "label" /\ p[j].kind = "label"
                              /\ p[i].label = p[j].label

================================================================================
