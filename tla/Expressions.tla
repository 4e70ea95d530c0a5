------------------------------- MODULE Expressions -------------------------------
(* The front end for expressions: a syntax tree becomes a typed tree (the          *)
(* Parse...Expression functions of IR), and a typed tree becomes SSA nodes         *)
(* (LowerExpression).                                                              *)
(*                                                                                 *)
(* A syntax tree is a literal, a variable, a call, or an operator over trees. A    *)
(* typed tree has a node, a type, a value category, operands and a payload.        *)
EXTENDS Integers, Sequences

(* Types: those expressions have, the integral conversions of the front end and    *)
(* the arithmetic of the values they describe.                                     *)

CONSTANTS CharBit,      \* bits of a byte: 8 in the program, fewer in the instances
          SizeOf,       \* TypeSizes: bytes of each kind of integer
          PointerSize   \* bytes of a pointer

\* typeSystem::TypeKind in its order, which is the order of IntegerConversionRank.
CharKind == 1
ShortKind == 2
IntKind == 3
LongKind == 4
LongLongKind == 5
IntegerKinds == CharKind .. LongLongKind

ASSUME SizesAssumption ==
    /\ CharBit \in Nat \ {0} /\ PointerSize \in Nat \ {0}
    /\ SizeOf \in [IntegerKinds -> Nat \ {0}]
    /\ \A k \in IntegerKinds : k > CharKind => SizeOf[k] >= SizeOf[k - 1]

Integral(sign, kind) == [class |-> "integral", sign |-> sign, kind |-> kind]
Bool == [class |-> "bool", sign |-> "unsigned", kind |-> CharKind]
Void == [class |-> "void"]
PointerTo(base) == [class |-> "pointer", base |-> base]
ArrayOf(base, count) == [class |-> "array", base |-> base, count |-> count]

SignedChar == Integral("signed", CharKind)
SignedInt == Integral("signed", IntKind)
UnsignedInt == Integral("unsigned", IntKind)
PtrDiff == Integral("signed", LongLongKind)

IsPointer(t) == t.class = "pointer"
IsArray(t) == t.class = "array"
IsIntegral(t) == t.class \in {"integral", "bool"}
IsScalar(t) == IsIntegral(t) \/ IsPointer(t)

Size(t) == CASE IsIntegral(t) -> SizeOf[t.kind]
             [] IsPointer(t) -> PointerSize
             [] IsArray(t) -> t.count * (IF IsIntegral(t.base) THEN SizeOf[t.base.kind] ELSE PointerSize)
Width(t) == IF t = Bool THEN 1 ELSE Size(t) * CharBit
--------------------------------------------------------------------------------
PromoteInteger(t) ==
    IF t = Bool THEN SignedInt
    ELSE IF t.kind < IntKind THEN Integral(t.sign, IntKind) ELSE t

CommonWith(t, u) ==
    IF t.sign = u.sign THEN (IF t.kind > u.kind THEN t ELSE u)
    ELSE LET uns == IF t.sign = "unsigned" THEN t ELSE u
             sig == IF t.sign = "signed" THEN t ELSE u
         IN IF uns.kind > sig.kind THEN uns
            ELSE IF Width(sig) >= Width(uns) THEN sig ELSE uns

CommonType(t, u) == CommonWith(PromoteInteger(t), PromoteInteger(u))

\* The conversion LowerExpression picks for a ConvertNode.
ConversionType(from, to) ==
    IF Size(to) = Size(from) THEN "Reinterpret"
    ELSE IF Size(to) < Size(from) THEN "Truncate"
    ELSE IF from.sign = to.sign
         THEN (IF to.sign = "signed" THEN "SignExtension" ELSE "ZeroExtension")
         ELSE (IF to.sign = "signed" THEN "SignExtendAndReinterpret" ELSE "ZeroExtendAndReinterpret")

SelectPredicate(operator, type) ==
    [operator |-> operator, signed |-> operator \notin {"==", "!="} /\ type.sign = "signed"]
--------------------------------------------------------------------------------
\* Registers and memory hold bit patterns: naturals below 2 ^ width.
Pattern(value, width) == value % (2 ^ width)
AsSigned(pattern, width) == IF pattern >= 2 ^ (width - 1) THEN pattern - 2 ^ width ELSE pattern

\* The value of a pattern of an integral or pointer type.
ValueOf(pattern, t) ==
    IF ~IsPointer(t) /\ t.sign = "signed" THEN AsSigned(pattern, Width(t)) ELSE pattern

Representable(value, t) ==
    IF t.sign = "signed" THEN value \in -(2 ^ (Width(t) - 1)) .. 2 ^ (Width(t) - 1) - 1
    ELSE value \in 0 .. 2 ^ Width(t) - 1

\* ConvertConstant, for the folded offset of pointer arithmetic
ConvertConstant(value, from, to) == Pattern(ValueOf(Pattern(value, Width(from)), from), Width(to))

----------------------------------------------------------------------------------
(* Syntax trees and typed trees. *)

CONSTANTS Variables,    \* the declared variables, in the order of their declarations
          TypeOf,       \* their types
          Functions,    \* the declared functions: their parameters' types and their result's
          Text          \* the characters of the string literal programs may hold

Lit(n) == [op |-> "literal", value |-> n, args |-> <<>>]
Str == [op |-> "string", value |-> 0, args |-> <<>>]
Call(f, args) == [op |-> "call", value |-> f, args |-> args]
Id(x) == [op |-> "id", value |-> x, args |-> <<>>]
Un(op, e) == [op |-> op, value |-> 0, args |-> <<e>>]
Bin(op, l, r) == [op |-> op, value |-> 0, args |-> <<l, r>>]

PrefixStep == {"++x", "--x"}
PostfixStep == {"x++", "x--"}
UnaryOperators == {"+x", "-x", "~x", "*x", "&x"} \cup PrefixStep \cup PostfixStep
CompoundOperators == {"+=", "-=", "*=", "/=", "%=", "^=", "&=", "|=", "<<=", ">>="}
RelationalOperators == {"==", "!=", "<", "<=", ">", ">="}

\* The node an arithmetic operator makes, in a typed tree and in SSA.
NodeOf(op) == CASE op \in {"+", "+=", "++x", "x++"} -> "Addition"
                [] op \in {"-", "-=", "--x", "x--"} -> "Subtraction"
                [] op \in {"*", "*="} -> "Multiplication"
                [] op \in {"/", "/="} -> "Division"
                [] op \in {"%", "%="} -> "Modulo"
                [] op \in {"<<", "<<="} -> "LeftBitShift"
                [] op \in {">>", ">>="} -> "RightBitShift"
                [] op \in {"|", "|="} -> "Or"
                [] op \in {"&", "&="} -> "And"
                [] op \in {"^", "^="} -> "Xor"

Typed(node, type, lvalue, args, value) ==
    [node |-> node, type |-> type, lvalue |-> lvalue, args |-> args, value |-> value]

\* nullptr: the expression was reported, or an exception ended the compilation.
Rejected == Typed("null", Bool, FALSE, <<>>, 0)
IsRejected(e) == e.node = "null"

Integer(type, n) == Typed("Integer", type, FALSE, <<>>, n)
ConvertNode(e, type) == Typed("Convert", type, FALSE, <<e>>, 0)
Coerced(e, type) == IF e.type = type THEN e ELSE ConvertNode(e, type)

\* The IsIndirectLValue cases: through *pp, a step or an assignment looks at the pointee.
Pointee(e) == IF e.node = "Dereference" /\ IsPointer(e.type) THEN e.type.base ELSE e.type
--------------------------------------------------------------------------------
\* A literal changes its type in place, whatever its value.
ConvertIntegral(e, type) ==
    IF e.node = "Integer" THEN [e EXCEPT !.type = type] ELSE ConvertNode(e, type)

MakeNonZeroTest(e) ==
    Typed("Compare", Bool, FALSE, <<e, Integer(e.type, 0)>>, [operator |-> "!=", signed |-> FALSE])

\* An array decays to the address of its first element; a literal's is a temporary.
DecayedArray(e) ==
    IF e.node = "Reference" THEN Typed("LoadArrayDecay", PointerTo(e.type.base), FALSE, <<e>>, 0)
    ELSE IF e.node = "IntegerArray" THEN Typed("IntegerArrayDecay", PointerTo(e.type.base), FALSE, <<>>, 0)
    ELSE Typed("PointerConversion", PointerTo(e.type.base), FALSE,
               <<Typed("AddressOf", PointerTo(e.type), FALSE, <<e>>, 0)>>, 0)

\* Constant evaluation comes before the conversions: it finds literals alone, which it keeps.
ConvertTo(e, type) ==
    IF IsRejected(e) THEN Rejected
    ELSE IF IsIntegral(type) /\ e.type = Bool THEN MakeNonZeroTest(e)
    ELSE IF e.type = type THEN e
    ELSE IF IsIntegral(type) /\ IsIntegral(e.type) THEN ConvertIntegral(e, type)
    ELSE IF IsPointer(type) /\ IsArray(e.type) /\ e.type.base = type.base THEN DecayedArray(e)
    ELSE Rejected

\* UsualArithmeticConversions and the operators that are nothing else; the shifts convert
\* both operands to their common type too.
ParseIntegralBinary(op, l, r) ==
    IF ~IsIntegral(l.type) \/ ~IsIntegral(r.type) THEN Rejected
    ELSE LET common == CommonType(l.type, r.type)
         IN Typed(NodeOf(op), common, FALSE, <<Coerced(l, common), Coerced(r, common)>>, 0)

\* Mutant: an offset that needs no scaling is not converted either.
ScaledOffsetUnconverted(e, elementSize) ==
    IF e.node = "Integer"
    THEN Integer(PtrDiff, Pattern(ConvertConstant(e.value, e.type, PtrDiff) * elementSize, Width(PtrDiff)))
    ELSE IF elementSize = 1 THEN e
    ELSE Typed("Multiplication", PtrDiff, FALSE, <<Coerced(e, PtrDiff), Integer(PtrDiff, elementSize)>>, 0)

\* The offset of a pointer, in bytes: folded when it is a literal.
ScaledOffset(e, elementSize) ==
    IF e.node = "Integer"
    THEN Integer(PtrDiff, Pattern(ConvertConstant(e.value, e.type, PtrDiff) * elementSize, Width(PtrDiff)))
    ELSE IF elementSize = 1 THEN Coerced(e, PtrDiff)
    ELSE Typed("Multiplication", PtrDiff, FALSE, <<Coerced(e, PtrDiff), Integer(PtrDiff, elementSize)>>, 0)

PointerOffset(op, pointer, offset) ==
    Typed(NodeOf(op), pointer.type, FALSE, <<pointer, ScaledOffset(offset, Size(pointer.type.base))>>, 0)

PointerDifference(l, r) ==
    LET bytes == Typed("Subtraction", PtrDiff, FALSE, <<l, r>>, 0)
        size == Size(l.type.base)
    IN IF size = 1 THEN bytes ELSE Typed("Division", PtrDiff, FALSE, <<bytes, Integer(PtrDiff, size)>>, 0)

ParseAdditiveExpression(op, l, r) ==
    IF IsPointer(l.type) /\ IsIntegral(r.type) THEN PointerOffset(op, l, r)
    ELSE IF IsIntegral(l.type) /\ IsPointer(r.type) THEN (IF op = "+" THEN PointerOffset(op, r, l) ELSE Rejected)
    ELSE IF IsPointer(l.type) /\ IsPointer(r.type)
    THEN (IF op = "-" /\ l.type.base = r.type.base THEN PointerDifference(l, r) ELSE Rejected)
    ELSE ParseIntegralBinary(op, l, r)

\* The arrays of subscripts and dereferences.
Decayed(e) == IF IsArray(e.type) THEN ConvertTo(e, PointerTo(e.type.base)) ELSE e

ParseDereferenceExpression(e) ==
    LET pointer == Decayed(e)
    IN IF IsRejected(pointer) \/ ~IsPointer(pointer.type) THEN Rejected
       ELSE Typed("Dereference", pointer.type.base, TRUE, <<pointer>>, 0)

ParseSubscriptExpression(l, r) ==
    IF \/ ~IsIntegral(l.type) /\ IsIntegral(r.type)
       \/ IsIntegral(l.type) /\ ~IsIntegral(r.type)
    THEN LET sum == ParseAdditiveExpression("+", Decayed(l), Decayed(r))
         IN IF IsRejected(sum) THEN Rejected ELSE ParseDereferenceExpression(sum)
    ELSE Rejected

ParseAddressOfExpression(e) ==
    IF e.lvalue THEN Typed("AddressOf", PointerTo(e.type), FALSE, <<e>>, 0) ELSE Rejected

\* Complement and negation: the operand is promoted, the result has the operand's type.
\* Unary plus takes the same path as unary minus.
ParseBitwiseNotExpression(e) ==
    IF IsIntegral(e.type)
    THEN Typed("BitwiseNot", e.type, FALSE, <<Coerced(e, PromoteInteger(e.type))>>, 0) ELSE Rejected
ParseArithmeticNegationExpression(e) ==
    IF IsIntegral(e.type)
    THEN Typed("ArithmeticNegation", e.type, FALSE, <<Coerced(e, PromoteInteger(e.type))>>, 0) ELSE Rejected

\* The increment is 1, also for a pointer.
ParseStepExpression(op, e) ==
    IF ~IsScalar(Pointee(e)) \/ ~e.lvalue THEN Rejected
    ELSE IF op \in PrefixStep
         THEN Typed("StepAssign", Pointee(e), TRUE, <<e, Integer(Pointee(e), 1)>>, NodeOf(op))
         ELSE Typed("PostStep", Pointee(e), FALSE, <<e>>, NodeOf(op))

ParseAssignmentExpression(l, r) ==
    LET value == IF r.type = l.type THEN r ELSE ConvertTo(r, l.type)
    IN IF ~l.lvalue \/ IsRejected(value) THEN Rejected
       ELSE Typed("Assign", l.type, TRUE, <<l, value>>, 0)

ParseCompoundAssignmentExpression(op, l, r) ==
    LET value == IF r.type = l.type THEN r ELSE ConvertTo(r, l.type)
    IN IF ~l.lvalue \/ IsRejected(value) THEN Rejected
       ELSE Typed("CompoundAssign", l.type, TRUE, <<l, value>>, NodeOf(op))

ParseRelationalExpression(op, l, r) ==
    IF IsPointer(l.type) /\ IsPointer(r.type)
    THEN (IF l.type.base = r.type.base
          THEN Typed("Compare", Bool, FALSE, <<l, r>>, SelectPredicate(op, UnsignedInt)) ELSE Rejected)
    ELSE IF ~IsIntegral(l.type) \/ ~IsIntegral(r.type) THEN Rejected
    ELSE LET common == CommonType(l.type, r.type)
         IN Typed("Compare", Bool, FALSE, <<Coerced(l, common), Coerced(r, common)>>, SelectPredicate(op, common))

ParseUnaryExpression(op, e) ==
    CASE op \in {"+x", "-x"} -> ParseArithmeticNegationExpression(e)
      [] op = "~x" -> ParseBitwiseNotExpression(e)
      [] op = "*x" -> ParseDereferenceExpression(e)
      [] op = "&x" -> ParseAddressOfExpression(e)
      [] OTHER -> ParseStepExpression(op, e)

ParseBinaryExpression(op, l, r) ==
    CASE op \in {"+", "-"} -> ParseAdditiveExpression(op, l, r)
      [] op = "[]" -> ParseSubscriptExpression(l, r)
      [] op = "=" -> ParseAssignmentExpression(l, r)
      [] op \in CompoundOperators -> ParseCompoundAssignmentExpression(op, l, r)
      [] op \in RelationalOperators -> ParseRelationalExpression(op, l, r)
      [] OTHER -> ParseIntegralBinary(op, l, r)

\* Overload resolution with one candidate of the name.
ParseCallExpression(f, args) ==
    LET parameters == Functions[f].parameters
        converted == [k \in DOMAIN args |-> ConvertTo(args[k], parameters[k])]
    IN IF Len(args) # Len(parameters) THEN Rejected
       ELSE IF \E k \in DOMAIN args : IsRejected(converted[k]) THEN Rejected
       ELSE Typed("Call", Functions[f].result, FALSE, converted, f)

RECURSIVE ParseExpression(_)
ParseExpression(e) ==
    CASE e.op = "literal" -> Integer(SignedInt, e.value)
      [] e.op = "string" -> Typed("IntegerArray", ArrayOf(SignedChar, Len(Text)), FALSE, <<>>, 0)
      [] e.op = "id" -> Typed("Reference", TypeOf[e.value], TRUE, <<>>, e.value)
      [] OTHER ->
           LET args == [k \in DOMAIN e.args |-> ParseExpression(e.args[k])]
           IN IF \E k \in DOMAIN args : IsRejected(args[k]) THEN Rejected
              ELSE IF e.op = "call" THEN ParseCallExpression(e.value, args)
              ELSE IF Len(args) = 1 THEN ParseUnaryExpression(e.op, args[1])
              ELSE ParseBinaryExpression(e.op, args[1], args[2])
====================================================================================
