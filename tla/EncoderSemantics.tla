--------------------------- MODULE EncoderSemantics ---------------------------
(***************************************************************************)
(* What the code means on both sides of the encoder: virtual instructions  *)
(* on virtual registers, and the emitted instructions on the processor.    *)
(* Both sides compute modulo Modulus and report what the outside sees in   *)
(* seen: the arguments of a call, a returned value, a comparison.          *)
(***************************************************************************)
EXTENDS EncoderState

\* Arbitrary values, told apart from each other and from junk.
Parameter(i) == (40 + 11 * i) % Modulus
InitialValue(v) == (31 * v * v + 17) % Modulus
JunkIn(r) == (150 + 7 * (CHOOSE i \in DOMAIN Pool : Pool[i] = r)) % Modulus
JunkSlot(v) == (230 + v) % Modulus
CallResult(arguments) ==
    FoldLeft(LAMBDA total, argument : (3 * total + argument + 5) % Modulus, 7, arguments)

BitsOf(a) == {k \in 0..15 : 2 ^ k < Modulus /\ (a \div 2 ^ k) % 2 = 1}
FromBits(bits) == MapThenSumSet(LAMBDA k : 2 ^ k, bits)

UnaryOperations == {"neg", "not", "movsx", "movzx"}
BinaryOperations == {"add", "sub", "mul", "div", "shl", "shr", "and", "or", "xor"}
Compute(op, a, b) ==
    CASE op = "add" -> (a + b) % Modulus
      [] op = "sub" -> (a + Modulus - b) % Modulus
      [] op = "mul" -> (a * b) % Modulus
      [] op = "div" -> IF b = 0 THEN 0 ELSE a \div b
      [] op = "shl" -> (a * 2 ^ (b % 8)) % Modulus
      [] op = "shr" -> a \div 2 ^ (b % 8)
      [] op = "and" -> FromBits(BitsOf(a) \cap BitsOf(b))
      [] op = "or"  -> FromBits(BitsOf(a) \cup BitsOf(b))
      [] op = "xor" -> FromBits((BitsOf(a) \cup BitsOf(b)) \ (BitsOf(a) \cap BitsOf(b)))
      [] op = "neg" -> (Modulus - a) % Modulus
      [] op = "not" -> Modulus - 1 - a
      [] op = "movsx" -> SignExtendImmediate(a, Narrow)
      [] op = "movzx" -> a % Narrow

Nothing == <<>>

-----------------------------------------------------------------------------
(* Memory.  A byte is a bit, so that a word of eight bytes is a value.  The  *)
(* variables come first, a word each, then the large objects, then the data  *)
(* an array starts with.  Either side keeps the words of the variables and   *)
(* the words of the objects.                                                 *)

ByteOf(word, k) == (word \div 2 ^ k) % 2
WordsOf(v) == IF IsLargeObject(v) THEN (ObjectSize[v] + 7) \div 8 ELSE 1
InMemoryBefore(v, w) == IF IsLargeObject(v) <=> IsLargeObject(w) THEN v < w ELSE IsLargeObject(w)
FirstWord == [v \in Variables \cup Large |->
                 1 + MapThenSumSet(WordsOf, {w \in Variables \cup Large : InMemoryBefore(w, v)})]
Address(v) == 8 * FirstWord[v]
Occupant == [w \in 0..31 |->
                LET holders == {v \in DOMAIN FirstWord : w \in FirstWord[v]..(FirstWord[v] + WordsOf(v) - 1)}
                IN  IF holders = {} THEN None ELSE CHOOSE v \in holders : TRUE]
DataWords == <<153, 77, 202, 86, 175>>
FirstDataWord == 20
DataByte(k) == ByteOf(DataWords[(k \div 8) + 1], k % 8)
InitialObjects == [v \in Large |-> [j \in 1..WordsOf(v) |-> (29 * j + 41 * v + 90) % Modulus]]

WordAt(words, objects, w) ==
    LET v == Occupant[w % 32] IN
    CASE v = None -> IF w - FirstDataWord \in 0..(Len(DataWords) - 1) THEN DataWords[w - FirstDataWord + 1] ELSE 0
      [] v \in Large -> objects[v][w - FirstWord[v] + 1]
      [] OTHER -> words[v]
LoadAt(words, objects, address, width) ==
    ((WordAt(words, objects, address \div 8) + Modulus * WordAt(words, objects, (address \div 8) + 1))
        \div 2 ^ (address % 8)) % 2 ^ width

\* A word some of whose bytes are given anew.
Assemble(word, new) ==
    MapThenSumSet(LAMBDA k : (IF k \in DOMAIN new THEN new[k] ELSE ByteOf(word, k)) * 2 ^ k, 0..7)

\* The word at w once width bytes of value are stored at address.
WordAfter(w, word, address, width, value) ==
    IF w \notin {address \div 8, (address + width - 1) \div 8} THEN word
    ELSE Assemble(word, [k \in {j \in 0..7 : 8 * w + j \in address..(address + width - 1)} |->
                            ByteOf(value, 8 * w + k - address)])
ObjectsAfter(objects, address, width, value) ==
    [v \in Large |-> [j \in 1..WordsOf(v) |->
                          WordAfter(FirstWord[v] + j - 1, objects[v][j], address, width, value)]]
WordsAfter(words, address, width, value) ==
    [v \in VRegs |-> IF v \in Variables \ Large THEN WordAfter(FirstWord[v], words[v], address, width, value)
                     ELSE words[v]]

-----------------------------------------------------------------------------
(* Virtual instructions: a state is [env, object, pending, seen] *)

ReferenceStart(env) == [env |-> env, object |-> InitialObjects, pending |-> <<>>, seen |-> Nothing]

Assign(f, v, value) == [f EXCEPT !.env[v] = value]
ReferenceCall(f) == [f EXCEPT !.seen = <<"call", f.pending>>, !.pending = <<>>]

\* The first bytes of v are given anew; those of its j-th word.
OfWord(bytes, j) ==
    [k \in {i \in 0..7 : 8 * (j - 1) + i \in DOMAIN bytes} |-> bytes[8 * (j - 1) + k]]
Filled(f, v, bytes) ==
    IF IsLargeObject(v)
    THEN [f EXCEPT !.object[v] = [j \in DOMAIN @ |-> Assemble(@[j], OfWord(bytes, j))]]
    ELSE Assign(f, v, Assemble(f.env[v], bytes))

Indirection(f, v, address) ==
    IF IsLargeObject(v)
    THEN Filled(f, v, [k \in 0..(ObjectSize[v] - 1) |-> LoadAt(f.env, f.object, address + k, 1)])
    ELSE Assign(f, v, LoadAt(f.env, f.object, address, 8))

StoreBytes(f, address, width, value) ==
    [f EXCEPT !.env = WordsAfter(@, address, width, value),
              !.object = ObjectsAfter(@, address, width, value)]
IndirectStore(f, address, v) ==
    IF IsLargeObject(v)
    THEN FoldLeft(LAMBDA g, j : StoreBytes(g, address + 8 * (j - 1), Min({8, ObjectSize[v] - 8 * (j - 1)}),
                                           f.object[v][j]),
                  f, [j \in 1..WordsOf(v) |-> j])
    ELSE StoreBytes(f, address, 8, f.env[v])

ReferenceStep(f, i) ==
    LET a == f.env[i.srcs[1]]
        b == f.env[i.srcs[2]]
        quiet == [f EXCEPT !.seen = Nothing]
    IN  CASE i.op \in {"int", "string"} -> Assign(quiet, i.dst, i.n)
          [] i.op = "copy"           -> Assign(quiet, i.dst, a)
          [] i.op \in UnaryOperations  -> Assign(quiet, i.dst, Compute(i.op, a, 0))
          [] i.op \in BinaryOperations -> Assign(quiet, i.dst, Compute(i.op, a, b))
          [] i.op = "AddressOf"      -> Assign(quiet, i.dst, Address(i.srcs[1]))
          [] i.op = "Indirection"    -> Indirection(quiet, i.dst, a)
          [] i.op = "IndirectStore"  -> IndirectStore(quiet, a, i.srcs[2])
          [] i.op = "ZeroMemory"     -> Filled(quiet, i.dst, [k \in 0..(i.n - 1) |-> 0])
          [] i.op = "CopyFromData"   -> Filled(quiet, i.dst, [k \in 0..(i.n - 1) |-> DataByte(k)])
          [] i.op = "CopyParameter"  -> Assign(quiet, i.dst, Parameter(i.n))
          [] i.op = "PassArgument"   -> [quiet EXCEPT !.pending = Append(@, a)]
          [] i.op = "Call"           -> ReferenceCall(f)
          [] i.op = "CallWithResult" ->
                Assign(ReferenceCall(f), i.dst, CallResult(f.pending))
          [] i.op = "Return"         ->
                [f EXCEPT !.seen = IF i.srcs = <<>> THEN <<"ret">> ELSE <<"ret", a>>]
          [] i.op = "CompareAndJump" -> [f EXCEPT !.seen = <<"cmp", a, b>>]
          [] i.op \in {"Label", "UnconditionalJump"} -> quiet

-----------------------------------------------------------------------------
(* Emitted instructions: a state is [reg, slot, object, out, seen] *)

MachineStart(reg, slot) ==
    [reg |-> reg, slot |-> slot, object |-> InitialObjects, out |-> <<>>, seen |-> Nothing]

Low(width, value) == IF width = 8 THEN value ELSE value % 2 ^ width
AddressIn(m, o) == ((IF o.kind = "memory" THEN m.reg[o.of] ELSE Address(o.of)) + o.at) % Modulus
InMemory(o, width) == o.kind = "memory" \/ (o.kind = "slot" /\ (IsLargeObject(o.of) \/ width # 8))

Read(m, o, width) ==
    CASE o.kind \in {"imm", "string"} -> o.of
      [] o.kind = "data" -> 8 * FirstDataWord
      [] o.kind = "reg"  -> Low(width, m.reg[o.of])
      [] InMemory(o, width) -> LoadAt(m.slot, m.object, AddressIn(m, o), width)
      [] o.kind = "slot" /\ ~InMemory(o, width) -> m.slot[o.of]
      [] o.kind = "out"  -> 0

\* Half a register or less leaves the rest alone, four bytes clear the rest.
Merged(old, width, value) ==
    IF width >= 4 THEN value ELSE (old - (old % 2 ^ width)) + value
Store(m, address, width, value) ==
    [m EXCEPT !.slot = WordsAfter(@, address, width, value),
              !.object = ObjectsAfter(@, address, width, value)]
Write(m, o, width, value) ==
    CASE o.kind = "reg"  -> [m EXCEPT !.reg[o.of] = Merged(@, width, value)]
      [] InMemory(o, width) -> Store(m, AddressIn(m, o), width, value)
      [] o.kind = "slot" /\ ~InMemory(o, width) -> [m EXCEPT !.slot[o.of] = value]
      [] o.kind = "out"  -> [m EXCEPT !.out = [i \in DOMAIN @ \cup {o.of} |->
                                IF i = o.of THEN value ELSE @[i]]]

ArgumentsInPlace(m, count) ==
    [i \in 1..count |-> IF i \in DOMAIN ParamRegisters THEN m.reg[ParamRegisters[i]]
                        ELSE IF i \in DOMAIN m.out THEN m.out[i] ELSE 0]

\* The callee may overwrite every caller-saved register.
MachineCall(m, count) ==
    LET arguments == ArgumentsInPlace(m, count)
    IN  [m EXCEPT !.seen = <<"call", arguments>>,
                  !.out = <<>>,
                  !.reg = [r \in Registers |->
                              IF r = Rax THEN CallResult(arguments)
                              ELSE IF r \in CalleeSaved THEN @[r] ELSE JunkIn(r)]]

\* lea of a slot, of a string, of what a register points to
Effective(m, o) == IF o.kind = "data" THEN 8 * FirstDataWord ELSE AddressIn(m, o)

\* What an instruction with operands a and b writes to its destination.
Result(m, i, a, b) ==
    CASE i.op = "mov"  -> b
      [] i.op = "lea"  -> Effective(m, i.s)
      [] i.op \in {"neg", "not"} -> Compute(i.op, a, 0)
      [] i.op \in {"movsx", "movzx"} -> Compute(i.op, b, 0)
      [] i.op \in BinaryOperations -> Compute(i.op, a, b)
Exchanged(m, i, a, b) == Write(Write(m, i.d, i.width, b), i.s, i.width, a)

Executed(m, i, a, b) ==
    CASE i.op \in {"mul", "div"} -> [m EXCEPT !.reg[Rax] = Compute(i.op, m.reg[Rax], a),
                                              !.reg[Rdx] = JunkIn(Rdx)]
      [] i.op = "xchg" -> Exchanged(m, i, a, b)
      [] i.op = "call" -> MachineCall(m, i.d.of)
      [] i.op = "cmp"  -> [m EXCEPT !.seen = <<"cmp", a, b>>]
      [] i.op = "ret"  -> [m EXCEPT !.seen = <<"ret", m.reg[Rax]>>]
      [] i.op = "label" -> m
      [] OTHER -> Write(m, i.d, i.width, Result(m, i, a, b))
MachineStep(m, i) == Executed(m, i, Read(m, i.d, i.width), Read(m, i.s, i.width))

\* A loop: jne goes back to the label unless the instruction before it, on a
\* register, gave zero.  A loop that should end has ended after StepBound
\* instructions.
StepBound == 60
IsLoop(code) == \E k \in DOMAIN code : code[k].op = "jne"
LabelIn(code) == CHOOSE k \in DOMAIN code : code[k].op = "label"
AfterJump(m, code, at) == IF m.reg[code[at - 1].d.of] # 0 THEN LabelIn(code) ELSE at + 1
RunStep(l, code) ==
    IF l.at > Len(code) THEN l
    ELSE IF code[l.at].op = "jne" THEN [l EXCEPT !.at = AfterJump(l.m, code, @)]
    ELSE [m |-> MachineStep(l.m, code[l.at]), at |-> l.at + 1]
Run(m, code) ==
    FoldLeft(LAMBDA l, k : RunStep(l, code), [m |-> [m EXCEPT !.seen = Nothing], at |-> 1],
             [k \in 1..(IF IsLoop(code) THEN StepBound ELSE Len(code)) |-> k]).m

\* A function that returns nothing leaves anything in rax.
SeesTheSame(m, f) == m.seen = f.seen \/ (f.seen = <<"ret">> /\ m.seen # Nothing)
=============================================================================
