---------------------------- MODULE ExpressionMeaning ----------------------------
(* What the lowering of an expression promises: the C++ meaning of a syntax tree,  *)
(* from the language's own conversion rules, and the machine that runs the virtual *)
(* instructions. Both work on one byte-addressed memory. A meaning that is not     *)
(* ok is undefined, unspecified or ill-formed: nothing is promised about it.       *)
EXTENDS LowerExpression, FiniteSets, Bitwise

\* Variables are apart by a byte, and the literal follows them: nothing starts where
\* another thing ends.
Bytes(t) == Size(t)
AddressAt[n \in 1 .. Len(Variables) + 1] ==
    IF n = 1 THEN PointerSize ELSE AddressAt[n - 1] + Bytes(TypeOf[Variables[n - 1]]) + 1
TextAddress == AddressAt[Len(Variables) + 1]
Addresses == PointerSize .. TextAddress + Len(Text) - 1
Blank == [a \in Addresses |-> IF a >= TextAddress THEN Pattern(Text[a - TextAddress + 1], CharBit) ELSE 0]

ReadMemory(mem, a, bytes) ==
    LET sum[i \in 0 .. bytes] == IF i = 0 THEN 0 ELSE sum[i - 1] + mem[a + i - 1] * 2 ^ (CharBit * (i - 1))
    IN sum[bytes]
WriteMemory(mem, a, bytes, pattern) ==
    [b \in DOMAIN mem |-> IF b \in a .. a + bytes - 1 THEN (pattern \div 2 ^ (CharBit * (b - a))) % 2 ^ CharBit ELSE mem[b]]

\* The scalar objects: every one of a type has an address of its own.
ObjectsOf(a, t) == IF IsArray(t) THEN {<<a + i * Bytes(t.base), t.base>> : i \in 0 .. t.count - 1} ELSE {<<a, t>>}
Objects == UNION {ObjectsOf(AddressAt[n], TypeOf[Variables[n]]) : n \in DOMAIN Variables}
           \cup ObjectsOf(TextAddress, ArrayOf(SignedChar, Len(Text)))
\* The addresses a pointer into an object may move to, one past its end included.
Extents == {AddressAt[n] .. AddressAt[n] + Bytes(TypeOf[Variables[n]]) : n \in DOMAIN Variables}
           \cup {TextAddress .. TextAddress + Len(Text)}
SameExtent(a, b) == \E extent \in Extents : {a, b} \subseteq extent

\* An external function returns something that depends on every argument and its place.
External(f, args) == LET sum[k \in 0 .. Len(args)] == IF k = 0 THEN 1 ELSE 2 * sum[k - 1] + args[k] IN sum[Len(args)] % 8
--------------------------------------------------------------------------------
(* The language.                                                                   *)
Promoted(t) == IF t.class = "bool" \/ t.kind < IntKind THEN SignedInt ELSE t
Common(t, u) ==
    IF t.sign = u.sign THEN (IF t.kind > u.kind THEN t ELSE u)
    ELSE LET uns == IF t.sign = "unsigned" THEN t ELSE u
             sig == IF t.sign = "signed" THEN t ELSE u
         IN IF uns.kind >= sig.kind THEN uns
            ELSE IF Size(sig) > Size(uns) THEN sig ELSE Integral("unsigned", sig.kind)

\* A meaning: the value of a prvalue or the address of an lvalue, the memory afterwards,
\* the objects read and written on the way, and the functions called.
Meaning(ok, type, lvalue, val, mem) ==
    [ok |-> ok, type |-> type, lvalue |-> lvalue, val |-> val, mem |-> mem,
     reads |-> {}, writes |-> {}, calls |-> <<>>]
Of(m, type, val) == [m EXCEPT !.type = type, !.lvalue = FALSE, !.val = val]
If(condition, m) == [m EXCEPT !.ok = @ /\ condition]
After(m, n) == [n EXCEPT !.ok = @ /\ m.ok, !.reads = @ \cup m.reads, !.writes = @ \cup m.writes,
                         !.calls = m.calls \o @]

Conflict(m, n) ==
    \/ m.writes \cap (n.reads \cup n.writes) # {}
    \/ n.writes \cap m.reads # {}
    \/ m.calls # <<>> /\ n.calls # <<>>
\* Two operands that nothing orders, the second one evaluated in the memory of the first.
Unsequenced(m, n) == If(~Conflict(m, n), After(m, n))

Loaded(m) ==
    IF ~m.ok \/ ~m.lvalue THEN m
    ELSE IF IsArray(m.type) THEN Of(m, PointerTo(m.type.base), m.val)
    ELSE IF <<m.val, m.type>> \notin Objects THEN If(FALSE, m)
    ELSE [Of(m, m.type, ValueOf(ReadMemory(m.mem, m.val, Bytes(m.type)), m.type)) EXCEPT !.reads = @ \cup {m.val}]

Converted(m, t) ==
    IF ~m.ok \/ m.type = t THEN m
    ELSE IF IsIntegral(t) /\ IsIntegral(m.type) THEN Of(m, t, ValueOf(Pattern(m.val, Width(t)), t))
    ELSE If(FALSE, m)

\* The memory of m, with a value stored in the lvalue target; the result is target.
Stored(m, target, value) ==
    IF ~m.ok \/ <<target.val, target.type>> \notin Objects \/ target.val >= TextAddress THEN If(FALSE, m)
    ELSE [m EXCEPT !.type = target.type, !.lvalue = TRUE, !.val = target.val,
                   !.mem = WriteMemory(@, target.val, Bytes(target.type), Pattern(value, Width(target.type))),
                   !.writes = @ \cup {target.val}]

TruncatedQuotient(a, b) ==
    LET magnitude(n) == IF n < 0 THEN -n ELSE n
    IN IF (a < 0) = (b < 0) THEN magnitude(a) \div magnitude(b) ELSE -(magnitude(a) \div magnitude(b))

BitsOf(op, a, b) == CASE op = "And" -> a & b [] op = "Or" -> a | b [] op = "Xor" -> a ^^ b

Arithmetic(op, t, a, b) ==
    CASE op = "Addition" -> a + b
      [] op = "Subtraction" -> a - b
      [] op = "Multiplication" -> a * b
      [] op = "Division" -> TruncatedQuotient(a, b)
      [] op = "LeftBitShift" -> ValueOf(Pattern(a * 2 ^ b, Width(t)), t)
      [] op = "RightBitShift" -> a \div 2 ^ b
      [] OTHER -> ValueOf(BitsOf(op, Pattern(a, Width(t)), Pattern(b, Width(t))), t)
\* Shifts of negative values are left to the implementation.
Shifts == {"LeftBitShift", "RightBitShift"}
Operable(op, t, a, b) == (op = "Division" => b # 0) /\ (op \in Shifts => a >= 0 /\ b \in 0 .. Width(t) - 1)

\* A binary operator on the values l and r; m carries the effects of both operands.
Operated(m, op, l, r) ==
    IF ~m.ok THEN m
    ELSE IF IsIntegral(l.type) /\ IsIntegral(r.type)
    THEN LET t == IF op \in Shifts THEN Promoted(l.type) ELSE Common(Promoted(l.type), Promoted(r.type))
             a == Converted(l, t).val
             b == IF op \in Shifts THEN r.val ELSE Converted(r, t).val
         IN IF ~Operable(op, t, a, b) THEN If(FALSE, m)
            ELSE IF t.sign = "signed"
                 THEN If(Representable(Arithmetic(op, t, a, b), t), Of(m, t, Arithmetic(op, t, a, b)))
                 ELSE Of(m, t, Pattern(Arithmetic(op, t, a, b), Width(t)))
    ELSE IF op \in {"Addition", "Subtraction"} /\ IsPointer(l.type) /\ IsIntegral(r.type)
    THEN LET to == IF op = "Addition" THEN l.val + r.val * Bytes(l.type.base) ELSE l.val - r.val * Bytes(l.type.base)
         IN If(SameExtent(l.val, to), Of(m, l.type, to))
    ELSE IF op = "Addition" /\ IsPointer(r.type) /\ IsIntegral(l.type)
    THEN LET to == r.val + l.val * Bytes(r.type.base) IN If(SameExtent(r.val, to), Of(m, r.type, to))
    ELSE IF op = "Subtraction" /\ IsPointer(l.type) /\ l.type = r.type
    THEN If(SameExtent(l.val, r.val), Of(m, PtrDiff, TruncatedQuotient(l.val - r.val, Bytes(l.type.base))))
    ELSE If(FALSE, m)

Holds(operator, a, b) == CASE operator = "==" -> a = b [] operator = "!=" -> a # b [] operator = "<" -> a < b
                           [] operator = "<=" -> a <= b [] operator = ">" -> a > b [] operator = ">=" -> a >= b

Related(m, op, l, r) ==
    IF ~m.ok THEN m
    ELSE IF IsIntegral(l.type) /\ IsIntegral(r.type)
    THEN LET t == Common(Promoted(l.type), Promoted(r.type))
         IN Of(m, Bool, IF Holds(op, Converted(l, t).val, Converted(r, t).val) THEN 1 ELSE 0)
    ELSE IF l.type = r.type
    THEN If(op \in {"==", "!="} \/ SameExtent(l.val, r.val), Of(m, Bool, IF Holds(op, l.val, r.val) THEN 1 ELSE 0))
    ELSE If(FALSE, m)

\* target op= value, in the memory of m; old is what the target held.
Updated(m, op, target, value) ==
    LET old == Loaded([m EXCEPT !.type = target.type, !.lvalue = TRUE, !.val = target.val])
        new == Operated(old, op, old, value)
        kept == Converted(new, target.type)
    IN [old |-> old, result |-> IF target.lvalue THEN Stored(kept, target, kept.val) ELSE If(FALSE, m)]

\* An operator on operands whose meanings are l and r, r in the memory l left.
BinaryMeaning(op, l, r) ==
    CASE op = "=" -> LET value == Converted(Loaded(r), l.type)
                     IN If(l.lvalue, Stored(Unsequenced(l, value), l, value.val))
      [] op \in CompoundOperators ->
             LET value == Loaded(r) IN Updated(Unsequenced(l, value), NodeOf(op), l, value).result
      [] op = "[]" ->
             LET sum == Operated(Unsequenced(Loaded(l), Loaded(r)), "Addition", Loaded(l), Loaded(r))
             IN IF sum.ok /\ IsPointer(sum.type) THEN [sum EXCEPT !.type = @.base, !.lvalue = TRUE] ELSE If(FALSE, sum)
      [] op \in RelationalOperators -> Related(Unsequenced(Loaded(l), Loaded(r)), op, Loaded(l), Loaded(r))
      [] OTHER -> Operated(Unsequenced(Loaded(l), Loaded(r)), NodeOf(op), Loaded(l), Loaded(r))

UnaryMeaning(op, m) ==
    LET value == Loaded(m)
        zero == Of(value, SignedInt, 0)
        step == Updated(m, NodeOf(op), m, Of(m, SignedInt, 1))
    IN CASE op = "-x" -> Operated(value, "Subtraction", zero, value)
         [] op = "~x" -> Operated(value, "Xor", value, Of(value, SignedInt, -1))
         [] op = "*x" -> IF value.ok /\ IsPointer(value.type)
                         THEN [value EXCEPT !.type = @.base, !.lvalue = TRUE] ELSE If(FALSE, value)
         [] op = "&x" -> If(m.lvalue, Of(m, PointerTo(m.type), m.val))
         [] op \in PrefixStep -> step.result
         [] op \in PostfixStep -> Of(step.result, m.type, step.old.val)

RECURSIVE MeaningOf(_, _), ArgumentsOf(_, _, _)

\* The arguments of a call, converted to the parameters' types.
ArgumentsOf(f, args, mem) ==
    IF args = <<>> THEN [meaning |-> Meaning(TRUE, Void, FALSE, 0, mem), values |-> <<>>]
    ELSE LET n == Len(args)
             before == ArgumentsOf(f, SubSeq(args, 1, n - 1), mem)
             last == Converted(Loaded(MeaningOf(args[n], before.meaning.mem)), Functions[f].parameters[n])
         IN IF ~before.meaning.ok THEN before
            ELSE [meaning |-> Unsequenced(before.meaning, last), values |-> Append(before.values, last.val)]

CallMeaning(f, passed) ==
    IF ~passed.meaning.ok THEN passed.meaning
    ELSE [Of(passed.meaning, Functions[f].result, External(f, passed.values)) EXCEPT
             !.calls = Append(@, <<f, passed.values>>)]

MeaningOf(e, mem) ==
    CASE e.op = "literal" -> Meaning(TRUE, SignedInt, FALSE, e.value, mem)
      [] e.op = "string" -> Meaning(TRUE, ArrayOf(SignedChar, Len(Text)), TRUE, TextAddress, mem)
      [] e.op = "id" -> Meaning(TRUE, TypeOf[e.value], TRUE, AddressAt[VariableRegister(e.value)], mem)
      [] e.op = "call" -> CallMeaning(e.value, ArgumentsOf(e.value, e.args, mem))
      [] OTHER ->
           LET first == MeaningOf(e.args[1], mem)
           IN IF ~first.ok THEN first
              ELSE IF Len(e.args) = 1 THEN UnaryMeaning(e.op, first)
              ELSE LET second == MeaningOf(e.args[2], first.mem)
                   IN IF ~second.ok THEN second ELSE BinaryMeaning(e.op, first, second)

\* What a routine shows: what it returns, the memory it leaves and the calls it made.
Behaviour(result, mem, calls) == [result |-> result, mem |-> mem, calls |-> calls]
MeaningAs(form, m) ==
    LET value == Converted(Loaded(m), SignedInt)
        truth == Loaded(m)
    IN CASE form = "discard" -> [ok |-> m.ok, shows |-> Behaviour(<<>>, m.mem, m.calls)]
         [] form = "return" -> [ok |-> value.ok, shows |-> Behaviour(<<value.val>>, value.mem, value.calls)]
         [] form = "if" -> [ok |-> truth.ok /\ IsScalar(truth.type),
                            shows |-> Behaviour(<<IF truth.val # 0 THEN 1 ELSE 0>>, truth.mem, truth.calls)]
RoutineMeaning(form, e, mem) == MeaningAs(form, MeaningOf(e, mem))

\* Code may show anything when the meaning is not ok.
Keeps(meaning, shown) == meaning.ok => meaning.shows = shown
--------------------------------------------------------------------------------
(* The machine: a program is the virtual instructions and the descriptors of the   *)
(* virtual registers. The variables live in memory, in the order of their          *)
(* allocations, the temporaries in registers.                                      *)
Initial(program, arguments) ==
    [program |-> program, arguments |-> arguments, at |-> 1, mem |-> Blank, passed |-> <<>>, calls |-> <<>>,
     registers |-> [v \in DOMAIN program.descriptors |-> 0], result |-> <<>>]

RegisterWidth(m, v) == m.program.descriptors[v].width
InMemory(m, v) == m.program.descriptors[v].class = "Allocation"
Home(m, v) == AddressAt[Cardinality({u \in 1 .. v : InMemory(m, u)})]

Fetch(m, v) == IF InMemory(m, v) THEN ReadMemory(m.mem, Home(m, v), RegisterWidth(m, v) \div CharBit) ELSE m.registers[v]
Put(m, v, pattern) ==
    LET kept == Pattern(pattern, RegisterWidth(m, v))
    IN IF InMemory(m, v) THEN [m EXCEPT !.mem = WriteMemory(@, Home(m, v), RegisterWidth(m, v) \div CharBit, kept)]
       ELSE [m EXCEPT !.registers[v] = kept]
SignedFetch(m, v) == AsSigned(Fetch(m, v), RegisterWidth(m, v))

Computed(m, i) ==
    LET a == Fetch(m, i.sources[1])
        b == Fetch(m, i.sources[2])
    IN CASE i.type = "Addition" -> a + b
         [] i.type = "Subtraction" -> a - b
         [] i.type = "Multiplication" -> a * b
         [] i.type = "Division" -> IF b = 0 THEN 0 ELSE TruncatedQuotient(SignedFetch(m, i.sources[1]), SignedFetch(m, i.sources[2]))
         [] i.type = "LeftBitShift" -> IF b < 30 THEN a * 2 ^ b ELSE 0
         [] i.type = "RightBitShift" -> IF b < 30 THEN a \div 2 ^ b ELSE 0
         [] i.type \in {"And", "Or", "Xor"} -> BitsOf(i.type, a, b)
         [] i.type = "BitwiseNot" -> -a - 1
         [] i.type = "ArithmeticNegation" -> -a
         [] i.type \in {"Copy", "Truncate", "Reinterpret", "ZeroExtension", "ZeroExtendAndReinterpret"} -> a
         [] i.type \in {"SignExtension", "SignExtendAndReinterpret"} -> SignedFetch(m, i.sources[1])
         [] i.type = "AddressOf" -> Home(m, i.sources[1])
         [] i.type = "Indirection" -> LET bytes == RegisterWidth(m, i.target) \div CharBit
                                      IN IF a .. a + bytes - 1 \subseteq Addresses THEN ReadMemory(m.mem, a, bytes) ELSE 0
         [] i.type = "CopyInteger" -> i.value
         [] i.type \in {"CopyParameter", "CopyFromData"} -> m.arguments[i.value]
         [] i.type = "LoadStringAddress" -> TextAddress

LabelAt(m, label) == CHOOSE n \in DOMAIN m.program.instructions :
    m.program.instructions[n].type = "Label" /\ m.program.instructions[n].value = label
Satisfied(m, i) ==
    IF i.value.unless.signed
    THEN Holds(i.value.unless.operator, SignedFetch(m, i.sources[1]), SignedFetch(m, i.sources[2]))
    ELSE Holds(i.value.unless.operator, Fetch(m, i.sources[1]), Fetch(m, i.sources[2]))
PassedValues(m, f) == [k \in DOMAIN m.passed |-> ValueOf(m.passed[k], Functions[f].parameters[k])]
Called(m, f) == [m EXCEPT !.calls = Append(@, <<f, PassedValues(m, f)>>), !.passed = <<>>]

Executed(m, i) ==
    CASE i.type = "Label" -> m
      [] i.type = "PassArgument" -> [m EXCEPT !.passed = Append(@, Fetch(m, i.sources[1]))]
      [] i.type = "Call" -> Called(m, i.value)
      [] i.type = "CallWithResult" -> Put(Called(m, i.value), i.target, External(i.value, PassedValues(m, i.value)))
      [] i.type = "IndirectStore" ->
             [m EXCEPT !.mem = WriteMemory(@, Fetch(m, i.sources[1]), RegisterWidth(m, i.sources[2]) \div CharBit, Fetch(m, i.sources[2]))]
      [] OTHER -> Put(m, i.target, Computed(m, i))

RECURSIVE Run(_)
Run(m) ==
    LET i == m.program.instructions[m.at]
        next == [m EXCEPT !.at = @ + 1]
    IN IF m.at \notin DOMAIN m.program.instructions THEN m
       ELSE CASE i.type = "Return" ->
                   IF i.sources = <<>> THEN m ELSE [m EXCEPT !.result = <<SignedFetch(m, i.sources[1])>>]
              [] i.type = "UnconditionalJump" -> Run([m EXCEPT !.at = LabelAt(m, i.value)])
              [] i.type = "CompareAndJump" ->
                   IF Satisfied(m, i) THEN Run(next) ELSE Run([m EXCEPT !.at = LabelAt(m, i.value.label)])
              [] OTHER -> Run([Executed(m, i) EXCEPT !.at = m.at + 1])

RoutineShows(program, arguments) ==
    LET final == Run(Initial(program, arguments)) IN Behaviour(final.result, final.mem, final.calls)

\* The memory a routine sees once its parameters are stored and its arrays initialised.
Entered(arguments) ==
    LET stored[n \in 0 .. Len(Variables)] ==
            IF n = 0 THEN Blank
            ELSE WriteMemory(stored[n - 1], AddressAt[n], Bytes(TypeOf[Variables[n]]), arguments[Variables[n]])
    IN stored[Len(Variables)]
================================================================================
