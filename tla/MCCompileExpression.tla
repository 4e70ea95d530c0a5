-------------------------- MODULE MCCompileExpression ---------------------------
EXTENDS CompileExpression, TLC

CONSTANTS x, c, p, xs,   \* int x, char c, int* p, int xs[2]
          f, g          \* int f(int, char), void g(int*)

\* Two bits to a byte keep every value small; the sizes are those of the program.
MCSizeOf == <<1, 2, 4, 4, 8>>
MCVariables == <<x, c, p, xs>>
MCTypeOf == x :> SignedInt @@ c :> SignedChar @@ p :> PointerTo(SignedInt) @@ xs :> ArrayOf(SignedInt, 2)
MCFunctions == f :> [parameters |-> <<SignedInt, SignedChar>>, result |-> SignedInt]
            @@ g :> [parameters |-> <<PointerTo(SignedInt)>>, result |-> Void]
MCText == <<1, -2, 0>>
MCRegisters == 1 .. 30

Value4(v1, v2, v3, v4) == x :> v1 @@ c :> v2 @@ p :> v3 @@ xs :> v4
Array(first, second) == Pattern(first, 8) + 256 * Pattern(second, 8)
MCSamples == {Value4(3, 3, AddressAt[1], Array(5, -6)), Value4(1, 1, AddressAt[4] + 4, Array(-128, 127)),
              Value4(253, 2, AddressAt[4], Array(0, 3))}

\* Trees of one operator: every operator on every pair of atoms.
Atoms == {Lit(2), Id(x), Id(c), Id(p), Id(xs)}
ArithmeticOperators == {"+", "-", "*", "/", "%", "<<", ">>", "&", "|", "^"}
Single == {Bin(op, l, r) : op \in ArithmeticOperators \cup CompoundOperators \cup RelationalOperators \cup {"=", "[]"},
                           l \in Atoms, r \in Atoms \cup {Str}}
          \cup {Un(op, e) : op \in UnaryOperators, e \in Atoms}
          \cup {Call(f, <<l, r>>) : l \in Atoms, r \in Atoms} \cup {Call(g, <<l>>) : l \in Atoms}

\* Trees of two: every kind of node below every kind of operator.
Below == {Bin("+", Id(x), Id(c)), Bin("-", Lit(2), Id(x)), Bin("/", Id(x), Lit(2)), Bin("-", Id(p), Id(xs)),
          Un("-x", Id(x)), Un("*x", Id(p)), Un("&x", Id(x)), Bin("[]", Id(xs), Id(x)), Bin("[]", Str, Id(c)),
          Bin("+", Id(p), Id(c)), Bin("=", Id(x), Id(c)), Bin("=", Id(c), Id(x)), Bin("=", Id(p), Id(xs)),
          Bin("+=", Id(c), Id(x)), Un("++x", Id(x)), Un("--x", Id(c)), Un("x++", Id(c)), Un("x--", Id(x)),
          Bin("=", Un("*x", Id(p)), Id(c)), Call(f, <<Id(x), Id(c)>>), Bin("<", Id(x), Id(c)), Bin("%", Id(x), Id(c))}
Above == {"+", "-", "*", "/", "<<", "&", "=", "+=", "-=", "[]", "<", "=="}
Double == {Bin(op, l, r) : op \in Above, l \in Atoms, r \in Below}
          \cup {Bin(op, l, r) : op \in Above, l \in Below, r \in Atoms}
          \cup {Un(op, e) : op \in UnaryOperators, e \in Below}
          \cup {Call(f, <<l, r>>) : l \in Below, r \in Atoms} \cup {Call(g, <<l>>) : l \in Below}

RECURSIVE Trees(_)
Trees(e) == {e} \cup UNION {Trees(e.args[k]) : k \in DOMAIN e.args}

\* What is compiled wrongly, each for a reason the README gives: unary plus, negation and complement
\* of a char, steps of pointers, stores to the result of an assignment or a step, and divisions and
\* shifts that assign to an operand of another type.
KnownDefect(e) ==
    LET TypeAt(k) == ParseExpression(e.args[k]).type
    IN \/ e.op = "+x"
       \/ e.op \in {"-x", "~x"} /\ TypeAt(1) \in {SignedChar, Bool}
       \/ e.op \in PrefixStep \cup PostfixStep /\ IsPointer(TypeAt(1))
       \/ e.op \in PrefixStep \cup PostfixStep \cup CompoundOperators \cup {"="} /\ e.args[1].op \notin {"id", "*x", "[]"}
       \/ e.op \in {"/=", "<<=", ">>="} /\ TypeAt(1) # TypeAt(2)
Sound(e) == \A t \in Trees(e) : ~KnownDefect(t)

Statements(trees) == [form : {"return", "discard", "if"}, tree : trees]
MCPrograms == FrontEnd(Statements({e \in Single \cup Double : Sound(e)}))

\* The same variables with an unsigned char, and the one statement that widens it.
MCUnsignedTypeOf == [MCTypeOf EXCEPT ![c] = Integral("unsigned", CharKind)]
MCWidening == FrontEnd({[form |-> "return", tree |-> Id(c)]})

\* Nodes the statements do not have.
MCBodies ==
    {<<Node("Allocate", 1, 8, <<>>, ""), Node("ArrayStore", NoResult, 0, <<1>>, "empty"),
       Node("ArrayStore", NoResult, 0, <<1>>, "unsupported"), Node("StoreInteger", NoResult, 0, <<1>>, ""),
       Node("PointerConversion", 2, 8, <<1>>, ""), Node("Compare", 3, 1, <<2, 2>>, ""), Node("Label", NoResult, 0, <<>>, "again"),
       Node("Label", NoResult, 0, <<>>, "again"), Node("AddressOf", 4, 8, <<3>>, ""), Node("Jump", NoResult, 0, <<>>, "again")>>}
=================================================================================
