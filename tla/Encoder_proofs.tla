---------------------------- MODULE Encoder_proofs ----------------------------
(***************************************************************************)
(* Whatever functions the lowering makes of its virtual instructions, on   *)
(* whatever pool: the allocator's two maps stay inverse to each other, and *)
(* unless an instruction is one of the three that part the allocator from  *)
(* the virtual register map (Strict), the two agree.                       *)
(*                                                                         *)
(* Every handler is a composition of the small steps of EncoderState.  The *)
(* predicate Good holds between any two of these steps; it names what such *)
(* a state may differ in from one between instructions: the scratch        *)
(* registers that are held (guards) and the virtual register that has been *)
(* given a physical register but is not materialised yet (pending).        *)
(***************************************************************************)
EXTENDS Encoder, Induction, TLAPS

CONSTANTS
    Lowered,    \* the operations the functions are made of
    Immediates, \* what their immediates, labels and numbers are taken from
    Functions   \* the functions the lowering makes, and what it makes them from

-----------------------------------------------------------------------------
(* The functions *)

BinaryOps == {"add", "sub", "mul", "div", "and", "or", "xor", "shl", "shr"}
UnaryOps == {"copy", "movsx", "movzx", "neg", "not", "AddressOf"}
Operations2 == BinaryOps \cup {"CompareAndJump", "IndirectStore"}
Operations1 == UnaryOps \cup {"Indirection", "PassArgument"}
Defining == BinaryOps \cup UnaryOps \cup {"int", "string", "Indirection", "ZeroMemory",
                                          "CopyFromData", "CopyParameter", "CallWithResult"}
Operations == Operations1 \cup Operations2 \cup Defining
                  \cup {"Call", "Return", "Label", "UnconditionalJump"}

Instructions ==
    {i \in [op : Operations \cap Lowered, dst : VRegs \cup {None}, srcs : Seq(VRegs), n : Immediates] :
        /\ i.op \in Defining => i.dst \in VRegs
        /\ i.op \in Operations1 => Len(i.srcs) = 1
        /\ i.op \in Operations2 => Len(i.srcs) = 2}

\* Every jump goes to a label of the function.
JumpsLand(f) ==
    \A k \in DOMAIN f :
        f[k].op \in {"UnconditionalJump", "CompareAndJump"} =>
            \E j \in DOMAIN f : f[j].op = "Label" /\ f[j].n = f[k].n

\* What is asked of the lowering: it appends instructions to a function until it is
\* complete, and then every jump has somewhere to go.
LowersFunctions ==
    /\ Functions \subseteq Seq(Instructions) /\ <<>> \in Functions
    /\ \A f \in Functions :
          /\ \A i \in MayFollow(f) : Append(f, i) \in Functions
          /\ MayFollow(f) = {} => JumpsLand(f)

\* A product or a quotient is left in rax whoever owns rax; an indirect store gives
\* the registers of its operands away and leaves them materialised.
Strict == Lowered \cap {"mul", "div", "IndirectStore"} = {}

-----------------------------------------------------------------------------
(* The encoder between two small steps *)

Fields == {"occupancy", "colour", "preferred", "locked", "mat", "val", "evicted", "evictable",
           "uses", "sites", "spilled", "spills", "code", "reg", "err"}

Kinds == BinaryOps \cup UnaryOps \cup {"unknown", "int", "string", "param", "call"}
IsValue(value) ==
    /\ value.kind \in Kinds /\ value.srcs \in Seq(VRegs)
    /\ value.kind \in UnaryOps => Len(value.srcs) = 1
    /\ value.kind \in BinaryOps => Len(value.srcs) = 2
    /\ value.kind \in {"mul", "div"} => ~Strict

\* This much of the state stands even when an assertion has failed.
Shape(s) ==
    /\ DOMAIN s = Fields
    /\ DOMAIN s.val = VRegs /\ \A v \in VRegs : IsValue(s.val[v])

OneOwner(s) == \A r \in Registers, v \in Owners : s.occupancy[r] = v <=> s.colour[v] = r
Sited(s) ==
    /\ s.uses \in [VRegs -> Nat] /\ s.sites \in [VRegs -> Seq(Nat)]
    /\ \A v \in VRegs : s.uses[v] <= Len(s.sites[v])
Facts(s, guards) ==
    /\ s.occupancy \in [Registers -> Owners \cup {None}]
    /\ s.colour \in [Owners -> Registers \cup {None}]
    /\ s.mat \in [VRegs -> Registers \cup {None}]
    /\ s.evictable \subseteq VRegs
    /\ OneOwner(s)
    /\ \A g \in Guards \ guards : s.colour[g] = None
    /\ Sited(s)

\* The pending register, if there is one, is where the last allocation put it.
Agree(s, pending) ==
    \A v \in VRegs : IF v = pending THEN s.mat[v] = None /\ s.colour[v] = s.reg
                     ELSE s.mat[v] = s.colour[v]

\* No assertion has failed.
Fine(s) == s.err = ""

Good(s, guards, pending) ==
    /\ Shape(s)
    /\ Fine(s) =>
          /\ Facts(s, guards)
          /\ pending \in VRegs => s.reg \in Registers \cup {None}
          /\ Strict => Agree(s, pending)

\* Nothing Good looks at differs.
Untouched(t, s) ==
    /\ DOMAIN t = DOMAIN s /\ t.err = s.err
    /\ t.occupancy = s.occupancy /\ t.colour = s.colour /\ t.mat = s.mat /\ t.val = s.val
    /\ t.evictable = s.evictable /\ t.uses = s.uses /\ t.sites = s.sites /\ t.reg = s.reg

-----------------------------------------------------------------------------
(* Assertions, emission, use counts *)

LEMMA FineStays ==
  ASSUME NEW s, NEW t, t.err = s.err
  PROVE  Fine(t) <=> Fine(s)
BY Zenon DEF Fine

LEMMA UntouchedIsGood ==
  ASSUME NEW s, NEW t, NEW guards, NEW pending, Good(s, guards, pending), Untouched(t, s)
  PROVE  Good(t, guards, pending)
<1>1. Fine(t) <=> Fine(s)
  BY FineStays DEF Untouched
<1>2. Shape(t)
  BY DEF Good, Untouched, Shape
<1> QED
  BY <1>1, <1>2 DEF Good, Untouched, Facts, Sited, OneOwner, Agree

\* After a failed assertion only the shape is left, and it is all Good asks for.
LEMMA FailIsGood ==
  ASSUME NEW s, NEW message, NEW guards, NEW pending, Shape(s), message # ""
  PROVE  Good(Fail(s, message), guards, pending) /\ ~Fine(Fail(s, message))
BY Zenon DEF Good, Shape, Fail, Fields, Fine

LEMMA CheckIsGood ==
  ASSUME NEW s, NEW message, NEW guards, NEW pending, NEW condition, Good(s, guards, pending), message # ""
  PROVE  /\ Good(Check(s, condition, message), guards, pending)
         /\ Fine(Check(s, condition, message)) => condition /\ Check(s, condition, message) = s
BY Zenon, FailIsGood DEF Check, Good

LEMMA EmitIsGood ==
  ASSUME NEW s, NEW instruction, NEW guards, NEW pending, Good(s, guards, pending)
  PROVE  Good(Emit(s, instruction), guards, pending)
<1>1. Untouched(Emit(s, instruction), s)
  BY DEF Good, Shape, Fields, Emit, Untouched
<1> QED
  BY <1>1, UntouchedIsGood

LEMMA ResultIsGood ==
  ASSUME NEW s, NEW name, NEW operand, NEW guards, NEW pending, Good(s, guards, pending)
  PROVE  Good(OnResult(s, name, operand), guards, pending) /\ Good(Load(s, operand), guards, pending)
BY EmitIsGood DEF OnResult, Load

LEMMA NeedsRegisterIsGood ==
  ASSUME NEW s, NEW v, NEW guards, NEW pending, Good(s, guards, pending)
  PROVE  /\ Good(NeedsRegister(s, v), guards, pending)
         /\ Fine(NeedsRegister(s, v)) => IsMaterialised(s, v) /\ NeedsRegister(s, v) = s
<1>1. "Register must be materialised" # ""
  BY Zenon
<1> QED
  BY Zenon, <1>1, CheckIsGood DEF NeedsRegister

LEMMA SourceReadyIsGood ==
  ASSUME NEW s, NEW v, NEW guards, NEW pending, Good(s, guards, pending)
  PROVE  Good(SourceReady(s, v), guards, pending)
BY NeedsRegisterIsGood DEF SourceReady

LEMMA ConsumeUseIsGood ==
  ASSUME NEW s, NEW v \in VRegs, NEW guards, NEW pending, Good(s, guards, pending)
  PROVE  Good(ConsumeUse(s, v), guards, pending)
<1>1. CASE s.uses[v] = 0
  <2>1. "Virtual register consumed more often than it is used" # ""
    BY Zenon
  <2> QED
    BY Zenon, <1>1, <2>1, FailIsGood DEF ConsumeUse, Good
<1>2. CASE s.uses[v] # 0
  <2> DEFINE t == [s EXCEPT !.uses[v] = @ - 1]
  <2>1. ConsumeUse(s, v) = t
    BY <1>2 DEF ConsumeUse
  <2>2. /\ DOMAIN t = DOMAIN s /\ t.err = s.err
        /\ t.occupancy = s.occupancy /\ t.colour = s.colour /\ t.mat = s.mat /\ t.val = s.val
        /\ t.evictable = s.evictable /\ t.sites = s.sites /\ t.reg = s.reg
        /\ t.uses = [s.uses EXCEPT ![v] = @ - 1]
    BY DEF Good, Shape, Fields
  <2>3. ASSUME Sited(s) PROVE Sited(t)
    <3>1. \A u \in VRegs : s.uses[u] \in Nat /\ Len(s.sites[u]) \in Nat
      BY <2>3 DEF Sited
    <3> HIDE DEF t
    <3> QED
      BY <1>2, <2>2, <2>3, <3>1 DEF Sited
  <2> HIDE DEF t
  <2>4. Fine(t) <=> Fine(s)
    BY <2>2, FineStays
  <2> QED
    BY <2>1, <2>2, <2>3, <2>4 DEF Good, Shape, Facts, OneOwner, Agree
<1> QED
  BY <1>1, <1>2

-----------------------------------------------------------------------------
(* The allocator gives a register back *)

LEMMA FreeColourFields ==
  ASSUME NEW s, NEW v, Shape(s)
  PROVE  LET t == FreeColour(s, v)
         IN  /\ DOMAIN t = Fields /\ t.err = s.err /\ t.val = s.val /\ t.mat = s.mat
             /\ t.evictable = s.evictable /\ t.uses = s.uses /\ t.sites = s.sites /\ t.reg = s.reg
             /\ t.locked = s.locked
BY DEF FreeColour, Shape, Fields

LEMMA FreeColourMaps ==
  ASSUME NEW s, NEW v \in Owners, NEW guards, Shape(s), Facts(s, guards)
  PROVE  /\ FreeColour(s, v).colour = [s.colour EXCEPT ![v] = None]
         /\ Facts(FreeColour(s, v), guards)
<1> DEFINE t == FreeColour(s, v)
<1>1. /\ s.colour \in [Owners -> Registers \cup {None}]
      /\ s.occupancy \in [Registers -> Owners \cup {None}] /\ DOMAIN s = Fields
  BY DEF Facts, Shape
<1>2. /\ t.colour = [s.colour EXCEPT ![v] = None]
      /\ t.occupancy = [r \in Registers |-> IF r = s.colour[v] THEN None ELSE s.occupancy[r]]
  <2>1. CASE s.colour[v] = None
    <3>1. t = s
      BY <2>1 DEF FreeColour
    <3>2. \A r \in Registers : r # s.colour[v]
      BY <2>1, NoneAssumption
    <3> HIDE DEF t
    <3> QED
      BY <1>1, <2>1, <3>1, <3>2
  <2>2. CASE s.colour[v] # None
    <3>1. /\ t.colour = [s.colour EXCEPT ![v] = None]
          /\ t.occupancy = [s.occupancy EXCEPT ![s.colour[v]] = None]
      BY <1>1, <2>2 DEF FreeColour, Fields
    <3> HIDE DEF t
    <3> QED
      BY <1>1, <2>2, <3>1
  <2> QED
    BY <2>1, <2>2
<1>3. /\ t.mat = s.mat /\ t.evictable = s.evictable /\ t.uses = s.uses /\ t.sites = s.sites
  BY FreeColourFields
<1> HIDE DEF t
<1>4. OneOwner(t)
  BY <1>2, NoneAssumption DEF Facts, OneOwner
<1>5. Sited(t)
  BY <1>3 DEF Facts, Sited
<1>6. /\ t.colour \in [Owners -> Registers \cup {None}]
      /\ t.occupancy \in [Registers -> Owners \cup {None}]
      /\ \A g \in Guards \ guards : t.colour[g] = None
  BY <1>2 DEF Facts, Owners
<1>7. Facts(t, guards)
  BY <1>3, <1>4, <1>5, <1>6 DEF Facts
<1> QED
  BY <1>2, <1>7 DEF t

LEMMA FreeColourIsGood ==
  ASSUME NEW s, NEW v, NEW guards, NEW pending, Good(s, guards, pending),
         Fine(s) => v \in Owners /\ (Strict => v \notin VRegs \/ s.mat[v] = None)
  PROVE  Good(FreeColour(s, v), guards, IF v = pending THEN None ELSE pending)
<1> DEFINE t == FreeColour(s, v)
           rest == IF v = pending THEN None ELSE pending
<1>1. /\ DOMAIN t = Fields /\ t.err = s.err /\ t.val = s.val /\ t.mat = s.mat /\ t.reg = s.reg
  BY FreeColourFields DEF Good
<1>2. ASSUME Fine(s) PROVE t.colour = [s.colour EXCEPT ![v] = None] /\ Facts(t, guards)
  BY <1>2, FreeColourMaps DEF Good
<1> HIDE DEF t
<1>3. Fine(t) <=> Fine(s)
  BY <1>1, FineStays
<1>4. Shape(t)
  BY <1>1 DEF Good, Shape
<1>5. ASSUME Fine(s) PROVE rest \in VRegs => t.reg \in Registers \cup {None}
  BY <1>1, <1>5, NoneAssumption DEF Good, Owners
<1>6. ASSUME Fine(s), Strict PROVE Agree(t, rest)
  <2>1. s.colour \in [Owners -> Registers \cup {None}] /\ None \notin VRegs
    BY <1>6, NoneAssumption DEF Good, Facts, Owners
  <2> QED
    BY <1>1, <1>2, <1>6, <2>1 DEF Good, Agree, Owners
<1> HIDE DEF rest
<1>7. Good(t, guards, rest)
  BY <1>2, <1>3, <1>4, <1>5, <1>6 DEF Good
<1> QED
  BY <1>7 DEF t, rest

LEMMA DiscardFields ==
  ASSUME NEW s, NEW v, Shape(s)
  PROVE  LET t == Discard(s, v)
         IN  /\ DOMAIN t = Fields /\ t.err = s.err /\ t.val = s.val
             /\ t.evictable = s.evictable /\ t.uses = s.uses /\ t.sites = s.sites /\ t.reg = s.reg
             /\ t.locked = s.locked
             /\ t.colour = FreeColour(s, v).colour /\ t.occupancy = FreeColour(s, v).occupancy
<1>1. DOMAIN FreeColour(s, v) = Fields
  BY FreeColourFields
<1> QED
  BY <1>1, FreeColourFields DEF Discard, Fields

LEMMA DiscardUnmaps ==
  ASSUME NEW s, NEW v, Shape(s)
  PROVE  Discard(s, v).mat = [s.mat EXCEPT ![v] = None]
<1>1. DOMAIN FreeColour(s, v) = Fields /\ FreeColour(s, v).mat = s.mat
  BY FreeColourFields
<1> QED
  BY <1>1 DEF Discard, Fields

LEMMA DiscardIsGood ==
  ASSUME NEW s, NEW v, NEW guards, NEW pending, Good(s, guards, pending),
         Fine(s) => v \in Owners /\ (Strict => v # pending)
  PROVE  Good(Discard(s, v), guards, pending)
<1> DEFINE t == Discard(s, v)
<1>1. /\ DOMAIN t = Fields /\ t.err = s.err /\ t.val = s.val
      /\ t.evictable = s.evictable /\ t.uses = s.uses /\ t.sites = s.sites /\ t.reg = s.reg
      /\ t.mat = [s.mat EXCEPT ![v] = None]
      /\ t.colour = FreeColour(s, v).colour /\ t.occupancy = FreeColour(s, v).occupancy
  BY DiscardFields, DiscardUnmaps DEF Good
<1>2. ASSUME Fine(s)
      PROVE  FreeColour(s, v).colour = [s.colour EXCEPT ![v] = None] /\ Facts(FreeColour(s, v), guards)
  BY <1>2, FreeColourMaps DEF Good
<1>3. Fine(t) <=> Fine(s)
  BY <1>1, FineStays
<1>4. /\ FreeColour(s, v).evictable = s.evictable /\ FreeColour(s, v).uses = s.uses
      /\ FreeColour(s, v).sites = s.sites
  BY FreeColourFields DEF Good
<1> HIDE DEF t
<1>5. Shape(t)
  BY <1>1 DEF Good, Shape
<1>6. ASSUME Fine(s) PROVE Facts(t, guards)
  <2>1. t.mat \in [VRegs -> Registers \cup {None}]
    BY <1>1, <1>6 DEF Good, Facts
  <2> QED
    BY <1>1, <1>2, <1>4, <1>6, <2>1 DEF Facts, OneOwner, Sited
<1>7. ASSUME Fine(s), Strict PROVE Agree(t, pending)
  <2>1. /\ s.colour \in [Owners -> Registers \cup {None}] /\ v # pending /\ v \in Owners
        /\ s.mat \in [VRegs -> Registers \cup {None}]
    BY <1>7 DEF Good, Facts
  <2> QED
    BY <1>1, <1>2, <1>7, <2>1 DEF Good, Agree, Owners
<1>8. Good(t, guards, pending)
  BY <1>1, <1>3, <1>5, <1>6, <1>7 DEF Good
<1> QED
  BY <1>8 DEF t

LEMMA EvictedIsGood ==
  ASSUME NEW s, NEW v, NEW guards, NEW pending, Good(s, guards, pending),
         Fine(s) => v \in Owners /\ (Strict => v # pending)
  PROVE  /\ Good(Evicted(s, v), guards, pending)
         /\ Good(Evict(s, v), guards, pending)
         /\ Good(EvictAhead(s, v), guards, pending)
<1>1. Good(Discard(s, v), guards, pending) /\ DOMAIN Discard(s, v) = Fields
  BY DiscardIsGood, DiscardFields DEF Good
<1>2. Untouched(Evicted(s, v), Discard(s, v)) /\ DOMAIN Evicted(s, v) = Fields
  BY <1>1 DEF Evicted, Untouched, Fields
<1>3. Good(Evicted(s, v), guards, pending)
  BY <1>1, <1>2, UntouchedIsGood
<1>4. Untouched(Evict(s, v), Evicted(s, v))
  BY <1>2 DEF Evict, Untouched, Fields
<1> DEFINE t == [Evicted(s, v) EXCEPT !.evictable = @ \ {v}]
<1>5. /\ DOMAIN t = Fields /\ t.evictable \subseteq Evicted(s, v).evictable
      /\ LET u == Evicted(s, v)
         IN  /\ t.err = u.err /\ t.occupancy = u.occupancy /\ t.colour = u.colour /\ t.mat = u.mat
             /\ t.val = u.val /\ t.uses = u.uses /\ t.sites = u.sites /\ t.reg = u.reg
  BY <1>2 DEF Fields
<1>6. Fine(t) <=> Fine(Evicted(s, v))
  BY <1>5, FineStays
<1>7. Untouched(EvictAhead(s, v), t)
  BY <1>2 DEF EvictAhead, Untouched, Fields
<1> HIDE DEF t
<1>8. Good(t, guards, pending)
  BY <1>2, <1>3, <1>5, <1>6 DEF Good, Shape, Facts, OneOwner, Sited, Agree
<1> QED
  BY <1>3, <1>4, <1>7, <1>8, UntouchedIsGood

\* A register a virtual register is read from for the last time is given back.
LEMMA ReleaseRegisterIsGood ==
  ASSUME NEW s, NEW v, NEW guards, NEW pending, Good(s, guards, pending), Fine(s) => v \in VRegs
  PROVE  Good(ReleaseRegister(s, v), guards, pending)
<1> DEFINE t == IF IsMaterialised(s, v) THEN Discard(s, v) ELSE s
<1>1. ASSUME IsMaterialised(s, v), Fine(s), Strict PROVE v # pending
  BY <1>1 DEF IsMaterialised, Good, Agree
<1>2. Good(t, guards, pending)
  BY <1>1, DiscardIsGood DEF Owners
<1>3. ReleaseRegister(s, v) = [t EXCEPT !.evicted = @ \ {v}]
  BY DEF ReleaseRegister
<1> HIDE DEF t
<1>4. Untouched([t EXCEPT !.evicted = @ \ {v}], t)
  BY <1>2 DEF Untouched, Good, Shape, Fields
<1> QED
  BY <1>2, <1>3, <1>4, UntouchedIsGood

LEMMA ReleaseIfUnusedIsGood ==
  ASSUME NEW s, NEW v \in VRegs, NEW guards, NEW pending, Good(s, guards, pending)
  PROVE  Good(ReleaseIfUnused(s, v), guards, pending)
BY ReleaseRegisterIsGood DEF ReleaseIfUnused

LEMMA DereferenceIsGood ==
  ASSUME NEW s, NEW v \in VRegs, NEW guards, NEW pending, Good(s, guards, pending)
  PROVE  Good(DereferenceAndMaybeFree(s, v), guards, pending)
BY ConsumeUseIsGood, ReleaseIfUnusedIsGood DEF DereferenceAndMaybeFree

LEMMA RedefineIsGood ==
  ASSUME NEW s, NEW v \in VRegs, NEW value, NEW guards, NEW pending, Good(s, guards, pending),
         IsValue(value)
  PROVE  Good(Redefine(s, v, value), guards, pending)
<1> DEFINE u == ReleaseRegister(s, v)
           t == [u EXCEPT !.val[v] = value]
<1>1. Good(u, guards, pending)
  BY ReleaseRegisterIsGood
<1>2. Redefine(s, v, value) = t
  BY DEF Redefine
<1> HIDE DEF u
<1>3. /\ DOMAIN t = Fields /\ t.val = [u.val EXCEPT ![v] = value]
      /\ t.err = u.err /\ t.occupancy = u.occupancy /\ t.colour = u.colour /\ t.mat = u.mat
      /\ t.evictable = u.evictable /\ t.uses = u.uses /\ t.sites = u.sites /\ t.reg = u.reg
  BY <1>1 DEF Good, Shape, Fields
<1>4. Fine(t) <=> Fine(u)
  BY <1>3, FineStays
<1> HIDE DEF t
<1>5. Shape(t)
  BY <1>1, <1>3 DEF Good, Shape
<1>6. Good(t, guards, pending)
  BY <1>1, <1>3, <1>4, <1>5 DEF Good, Facts, OneOwner, Sited, Agree
<1> QED
  BY <1>2, <1>6

LEMMA ClearRegisterIsGood ==
  ASSUME NEW s, NEW r \in Registers, NEW keep, NEW guards, Good(s, guards, None)
  PROVE  Good(ClearRegister(s, r, keep), guards, None)
<1>1. CASE s.occupancy[r] \in {None, keep} \/ s.uses[s.occupancy[r]] = 0
  BY <1>1 DEF ClearRegister
<1>2. CASE ~(s.occupancy[r] \in {None, keep} \/ s.uses[s.occupancy[r]] = 0)
  <2>1. ASSUME Fine(s) PROVE s.occupancy[r] \in Owners /\ s.occupancy[r] # None
    BY <1>2, <2>1 DEF Good, Facts
  <2>2. Good(Evict(s, s.occupancy[r]), guards, None)
    BY <2>1, EvictedIsGood
  <2> QED
    BY <1>2, <2>2 DEF ClearRegister
<1> QED
  BY <1>1, <1>2

-----------------------------------------------------------------------------
(* A register changes its owner *)

\* t is s after from has handed its register to to, unless an assertion failed.
Reassigned(t, s, from, to) ==
    /\ DOMAIN t = Fields /\ t.val = s.val /\ t.mat = s.mat
    /\ t.evictable = s.evictable /\ t.uses = s.uses /\ t.sites = s.sites /\ t.reg = s.reg
    /\ t.evicted = s.evicted
    /\ Fine(t) => /\ Fine(s) /\ s.colour[from] # None /\ s.colour[to] = None
                  /\ t.occupancy = [s.occupancy EXCEPT ![s.colour[from]] = to]
                  /\ t.colour = [[s.colour EXCEPT ![to] = s.colour[from]] EXCEPT ![from] = None]

LEMMA ReassignFields ==
  ASSUME NEW s, NEW from, NEW to, Shape(s)
  PROVE  Reassigned(Reassign(s, from, to), s, from, to)
<1> DEFINE t == Reassign(s, from, to)
<1>1. ASSUME NEW message, message # ""
      PROVE  Reassigned(Fail(s, message), s, from, to)
  BY Zenon, <1>1 DEF Fail, Fine, Shape, Fields, Reassigned
<1>2. CASE s.colour[from] = None
  <2>1. t = Fail(s, "Virtual register does not hold a physical colour")
    BY <1>2 DEF Reassign
  <2>2. "Virtual register does not hold a physical colour" # ""
    BY Zenon
  <2> QED
    BY Zenon, <1>1, <2>1, <2>2
<1>3. CASE s.colour[from] # None /\ s.colour[to] # None
  <2>1. \E message : message # "" /\ t = Fail(s, message)
    BY Zenon, <1>3 DEF Reassign
  <2> QED
    BY Zenon, <1>1, <2>1
<1>4. CASE s.colour[from] # None /\ s.colour[to] = None
  <2> DEFINE u == [[s EXCEPT !.occupancy[s.colour[from]] = to] EXCEPT !.colour[to] = s.colour[from]]
  <2>1. t = [u EXCEPT !.colour[from] = None]
    BY <1>4 DEF Reassign
  <2>2. /\ DOMAIN u = Fields /\ u.val = s.val /\ u.mat = s.mat /\ u.err = s.err
        /\ u.evictable = s.evictable /\ u.uses = s.uses /\ u.sites = s.sites /\ u.reg = s.reg
        /\ u.evicted = s.evicted
        /\ u.occupancy = [s.occupancy EXCEPT ![s.colour[from]] = to]
        /\ u.colour = [s.colour EXCEPT ![to] = s.colour[from]]
    BY DEF Shape, Fields
  <2> HIDE DEF t, u
  <2>3. /\ DOMAIN t = Fields /\ t.val = s.val /\ t.mat = s.mat /\ t.err = s.err
        /\ t.evictable = s.evictable /\ t.uses = s.uses /\ t.sites = s.sites /\ t.reg = s.reg
        /\ t.evicted = s.evicted /\ t.occupancy = u.occupancy
        /\ t.colour = [u.colour EXCEPT ![from] = None]
    BY <2>1, <2>2 DEF Fields
  <2>4. Fine(t) <=> Fine(s)
    BY <2>3, FineStays
  <2> QED
    BY <1>4, <2>2, <2>3, <2>4 DEF Reassigned, t
<1> QED
  BY <1>2, <1>3, <1>4

LEMMA ReassignMaps ==
  ASSUME NEW s, NEW guards, NEW from \in Owners, NEW to \in Owners, to \in Guards => to \in guards,
         Shape(s), Facts(s, guards), Fine(Reassign(s, from, to))
  PROVE  /\ s.colour[from] \in Registers /\ from # to
         /\ Facts(Reassign(s, from, to), guards)
<1> DEFINE t == Reassign(s, from, to)
<1>0. Reassigned(t, s, from, to)
  BY ReassignFields
<1> HIDE DEF t
<1>1. /\ t.mat = s.mat /\ t.evictable = s.evictable /\ t.uses = s.uses /\ t.sites = s.sites
      /\ s.colour[from] # None /\ s.colour[to] = None
      /\ t.occupancy = [s.occupancy EXCEPT ![s.colour[from]] = to]
      /\ t.colour = [[s.colour EXCEPT ![to] = s.colour[from]] EXCEPT ![from] = None]
  BY <1>0 DEF Reassigned, t
<1>2. /\ s.colour \in [Owners -> Registers \cup {None}]
      /\ s.occupancy \in [Registers -> Owners \cup {None}]
      /\ \A r \in Registers, v \in Owners : s.occupancy[r] = v <=> s.colour[v] = r
  BY DEF Facts, OneOwner
<1>3. s.colour[from] \in Registers /\ from # to
  BY <1>1, <1>2
<1>4. /\ t.colour \in [Owners -> Registers \cup {None}]
      /\ t.occupancy \in [Registers -> Owners \cup {None}]
  <2>1. /\ [s.colour EXCEPT ![to] = s.colour[from]] \in [Owners -> Registers \cup {None}]
        /\ [s.occupancy EXCEPT ![s.colour[from]] = to] \in [Registers -> Owners \cup {None}]
    BY <1>2, <1>3
  <2> QED
    BY <1>1, <2>1
<1>5. OneOwner(t)
  <2> SUFFICES ASSUME NEW r \in Registers, NEW v \in Owners
               PROVE  t.occupancy[r] = v <=> t.colour[v] = r
    BY DEF OneOwner
  <2>1. CASE v = to
    BY <1>1, <1>2, <1>3, <2>1, NoneAssumption
  <2>2. CASE v = from
    BY <1>1, <1>2, <1>3, <2>2, NoneAssumption
  <2>3. CASE v # to /\ v # from
    BY <1>1, <1>2, <1>3, <2>3
  <2> QED
    BY <2>1, <2>2, <2>3
<1>6. \A g \in Guards \ guards : t.colour[g] = None
  BY <1>1, <1>2 DEF Facts, Owners
<1>7. Sited(t)
  BY <1>1 DEF Facts, Sited
<1>8. Facts(t, guards)
  BY <1>1, <1>4, <1>5, <1>6, <1>7 DEF Facts
<1> QED
  BY <1>3, <1>8 DEF t

\* TransferRegister: the owner takes the register over from an operand.
LEMMA TransferRegisterIsGood ==
  ASSUME NEW s, NEW from \in VRegs, NEW to \in VRegs, NEW guards, Good(s, guards, None)
  PROVE  Good(TransferRegister(s, from, to), guards, to)
<1> DEFINE c == Check(s, from \notin s.evicted, "Cannot transfer an evicted register")
           u == Reassign(c, from, to)
           t == [u EXCEPT !.mat[from] = None, !.reg = PhysicalRegisterOf(s, from)]
<1>1. TransferRegister(s, from, to) = t
  BY DEF TransferRegister
<1>2. Good(c, guards, None) /\ (Fine(c) => c = s)
  <2>1. "Cannot transfer an evicted register" # ""
    BY Zenon
  <2> QED
    BY Zenon, <2>1, CheckIsGood
<1> HIDE DEF c
<1> HIDE DEF u
<1>12. Reassigned(u, c, from, to)
  BY <1>2, ReassignFields DEF Good, u
<1>3. /\ DOMAIN u = Fields /\ u.val = c.val /\ u.mat = c.mat
      /\ u.evictable = c.evictable /\ u.uses = c.uses /\ u.sites = c.sites
      /\ Fine(u) => /\ Fine(c)
                    /\ u.colour = [[c.colour EXCEPT ![to] = c.colour[from]] EXCEPT ![from] = None]
                    /\ c.colour[to] = None
  BY <1>12 DEF Reassigned
<1>4. ASSUME Fine(u)
      PROVE  /\ Facts(c, guards) /\ c = s /\ c.colour[from] \in Registers /\ from # to /\ Facts(u, guards)
  <2>1. to \notin Guards /\ from \in Owners /\ to \in Owners
    BY GuardAssumption DEF Owners
  <2> QED
    BY <1>2, <1>3, <1>4, <2>1, ReassignMaps DEF Good, u
<1>5. /\ DOMAIN t = Fields /\ t.err = u.err /\ t.val = u.val /\ t.reg = s.mat[from]
      /\ t.occupancy = u.occupancy /\ t.colour = u.colour /\ t.mat = [u.mat EXCEPT ![from] = None]
      /\ t.evictable = u.evictable /\ t.uses = u.uses /\ t.sites = u.sites
  BY <1>3 DEF Fields, PhysicalRegisterOf
<1>6. Fine(t) <=> Fine(u)
  BY <1>5, FineStays
<1> HIDE DEF t
<1>7. Shape(t)
  BY <1>2, <1>3, <1>5 DEF Good, Shape
<1> SUFFICES ASSUME Fine(u)
             PROVE  /\ Facts(t, guards) /\ t.reg \in Registers \cup {None}
                    /\ Strict => Agree(t, to)
  BY <1>1, <1>6, <1>7 DEF Good
<1>8. s.mat \in [VRegs -> Registers \cup {None}] /\ u.mat = s.mat
  BY <1>3, <1>4 DEF Facts
<1>9. Facts(t, guards)
  <2>1. t.mat \in [VRegs -> Registers \cup {None}]
    BY <1>5, <1>8
  <2> QED
    BY <1>4, <1>5, <2>1 DEF Facts, OneOwner, Sited
<1>10. ASSUME Strict PROVE Agree(t, to)
  <2>1. s.colour \in [Owners -> Registers \cup {None}] /\ u.colour = [[s.colour EXCEPT ![to] = s.colour[from]] EXCEPT ![from] = None]
    BY <1>3, <1>4 DEF Facts
  <2>2. \A v \in VRegs : s.mat[v] = s.colour[v]
    BY <1>2, <1>3, <1>4, <1>10, NoneAssumption DEF Good, Agree, Owners
  <2>3. s.colour[to] = None /\ from # to
    BY <1>3, <1>4
  <2> QED
    BY <1>5, <1>8, <2>1, <2>2, <2>3 DEF Agree, Owners
<1> QED
  BY <1>5, <1>8, <1>9, <1>10

-----------------------------------------------------------------------------
(* Allocation *)

\* Among finitely many there is one whose value is highest, the first among equals.
LEMMA FurthestExists ==
  ASSUME NEW n \in Nat, NEW C \in SUBSET (1..n), C # {}, NEW f, \A i \in C : f[i] \in Nat
  PROVE  \E i \in C : \A j \in C : f[j] <= f[i] /\ (j < i => f[j] < f[i])
<1> DEFINE Best(i, top) == \A j \in C \cap 1..top : f[j] <= f[i] /\ (j < i => f[j] < f[i])
           A == {top \in Nat : C \cap 1..top = {} \/ \E i \in C \cap 1..top : Best(i, top)}
<1>1. 0 \in A
  OBVIOUS
<1>2. ASSUME NEW top \in Nat, top \in A PROVE top + 1 \in A
  <2>1. C \cap 1..(top + 1) = IF top + 1 \in C THEN (C \cap 1..top) \cup {top + 1} ELSE C \cap 1..top
    OBVIOUS
  <2>2. CASE top + 1 \notin C
    BY <1>2, <2>1, <2>2
  <2>3. CASE top + 1 \in C /\ C \cap 1..top = {}
    <3>1. C \cap 1..(top + 1) = {top + 1} /\ f[top + 1] \in Nat
      BY <2>1, <2>3
    <3> QED
      BY <3>1
  <2>4. CASE top + 1 \in C /\ C \cap 1..top # {}
    <3>1. PICK i \in C \cap 1..top : Best(i, top)
      BY <1>2, <2>4
    <3>2. f[i] \in Nat /\ f[top + 1] \in Nat /\ i \in 1..top
      BY <2>4, <3>1
    <3>3. CASE f[top + 1] <= f[i]
      <4>1. Best(i, top + 1)
        BY <2>1, <2>4, <3>1, <3>2, <3>3
      <4> QED
        BY <2>1, <2>4, <4>1
    <3>4. CASE ~(f[top + 1] <= f[i])
      <4>1. \A j \in C \cap 1..top : f[j] \in Nat /\ f[j] < f[top + 1]
        BY <3>1, <3>2, <3>4
      <4>2. Best(top + 1, top + 1)
        BY <2>1, <2>4, <3>2, <4>1
      <4> QED
        BY <2>1, <2>4, <4>2
    <3> QED
      BY <3>3, <3>4
  <2> QED
    BY <2>2, <2>3, <2>4
<1> HIDE DEF A
<1>3. n \in A
  BY <1>1, <1>2, InductionOverNat
<1>4. C \cap 1..n = C
  OBVIOUS
<1> QED
  BY <1>3, <1>4 DEF A

LEMMA LeastExists ==
  ASSUME NEW S \in SUBSET Nat, S # {}
  PROVE  \E i \in S : \A j \in S : i <= j
<1> SUFFICES ASSUME \A i \in S : \E j \in S : ~(i <= j) PROVE FALSE
  OBVIOUS
<1> DEFINE A == {n \in Nat : \A i \in S : n <= i}
<1>1. 0 \in A
  OBVIOUS
<1>2. ASSUME NEW n \in Nat, n \in A PROVE n + 1 \in A
  <2>1. n \notin S
    BY <1>2
  <2> QED
    BY <1>2, <2>1
<1> HIDE DEF A
<1>3. \A n \in Nat : n \in A
  BY <1>1, <1>2, InductionOverNat
<1>4. PICK i \in S : i \in Nat
  OBVIOUS
<1> QED
  BY <1>3, <1>4 DEF A

LEMMA PoolFacts ==
  /\ Len(Pool) \in Nat /\ DOMAIN Pool = 1..Len(Pool)
  /\ \A i \in DOMAIN Pool : Pool[i] \in Registers
  /\ \A r \in Registers : \E i \in DOMAIN Pool : Pool[i] = r
BY PoolAssumption DEF Registers

LEMMA OwnerFacts ==
  /\ None \notin Registers /\ None \notin Owners /\ None \notin VRegs
  /\ VRegs \subseteq Owners /\ Guards \subseteq Owners /\ VRegs \cap Guards = {}
BY NoneAssumption, GuardAssumption DEF Owners

LEMMA NextUseIsNatural ==
  ASSUME NEW s, NEW v \in VRegs, Sited(s)
  PROVE  NextUse(s, v) \in Nat
<1>1. s.uses[v] \in Nat /\ s.sites[v] \in Seq(Nat) /\ s.uses[v] <= Len(s.sites[v])
  BY DEF Sited
<1>2. CASE s.uses[v] = 0 \/ s.sites[v] = <<>>
  BY <1>2 DEF NextUse, Never
<1>3. CASE ~(s.uses[v] = 0 \/ s.sites[v] = <<>>)
  <2>1. Len(s.sites[v]) - s.uses[v] + 1 \in 1..Len(s.sites[v])
    BY <1>1, <1>3
  <2>2. \A q \in Seq(Nat) : \A k \in 1..Len(q) : q[k] \in Nat
    OBVIOUS
  <2>3. s.sites[v][Len(s.sites[v]) - s.uses[v] + 1] \in Nat
    BY <1>1, <2>1, <2>2
  <2> QED
    BY <1>3, <2>3 DEF NextUse
<1> QED
  BY <1>2, <1>3

\* EvictOne finds a virtual register and leaves its physical register free.
LEMMA VictimIsOwner ==
  ASSUME NEW s, NEW guards, Facts(s, guards), CanEvictOne(s)
  PROVE  /\ Victim(s) \in VRegs
         /\ \E i \in DOMAIN Pool : s.colour[Victim(s)] = Pool[i] /\ ~IsLocked(s, Pool[i])
<1> DEFINE f == [i \in Candidates(s) |-> Distance(s, i)]
           Furthest(i) == \A j \in Candidates(s) : /\ Distance(s, j) <= Distance(s, i)
                                                   /\ j < i => Distance(s, j) < Distance(s, i)
           c == CHOOSE i \in Candidates(s) : Furthest(i)
<1>1. Candidates(s) \in SUBSET (1..Len(Pool)) /\ Len(Pool) \in Nat /\ Candidates(s) # {}
  BY PoolFacts DEF Candidates, CanEvictOne
<1>2. \A i \in Candidates(s) :
        s.occupancy[Pool[i]] \in VRegs /\ i \in DOMAIN Pool /\ ~IsLocked(s, Pool[i])
  BY DEF Candidates, Facts
<1>3. ASSUME NEW i \in Candidates(s) PROVE f[i] \in Nat
  BY <1>2, NextUseIsNatural DEF Distance, Facts
<1>4. \E i \in Candidates(s) : \A j \in Candidates(s) : f[j] <= f[i] /\ (j < i => f[j] < f[i])
  <2> HIDE DEF f
  <2> QED
    BY <1>1, <1>3, FurthestExists
<1>5. \E i \in Candidates(s) : Furthest(i)
  BY <1>4
<1>6. c \in Candidates(s)
  BY <1>5
<1>7. Victim(s) = s.occupancy[Pool[c]]
  BY DEF Victim
<1> HIDE DEF c
<1>8. Victim(s) \in VRegs /\ c \in DOMAIN Pool /\ ~IsLocked(s, Pool[c])
  BY <1>2, <1>6, <1>7
<1>9. s.colour[Victim(s)] = Pool[c]
  BY <1>7, <1>8, PoolFacts, OwnerFacts DEF Facts, OneOwner
<1> QED
  BY <1>8, <1>9

LEMMA EvictOneIsGood ==
  ASSUME NEW s, NEW guards, Good(s, guards, None), CanEvictOne(s)
  PROVE  /\ Good(EvictOne(s), guards, None)
         /\ Fine(EvictOne(s)) => Fine(s)
         /\ Fine(s) => \E i \in DOMAIN Pool : Available(EvictOne(s), Pool[i])
         /\ \A v \in Owners : Fine(s) /\ s.colour[v] = None => EvictOne(s).colour[v] = None
<1> DEFINE v == Victim(s)
           t == EvictAhead(s, v)
<1>1. EvictOne(s) = t
  BY DEF EvictOne
<1>2. ASSUME Fine(s)
      PROVE  v \in VRegs /\ \E i \in DOMAIN Pool : s.colour[v] = Pool[i] /\ ~IsLocked(s, Pool[i])
  BY <1>2, VictimIsOwner DEF Good
<1> HIDE DEF v
<1>3. Good(t, guards, None)
  BY <1>2, EvictedIsGood, OwnerFacts
<1>4. /\ t.err = s.err /\ t.locked = s.locked /\ t.occupancy = FreeColour(s, v).occupancy
      /\ t.colour = FreeColour(s, v).colour
  <2>1. /\ DOMAIN Discard(s, v) = Fields /\ Discard(s, v).err = s.err
        /\ Discard(s, v).colour = FreeColour(s, v).colour
        /\ Discard(s, v).occupancy = FreeColour(s, v).occupancy /\ Discard(s, v).locked = s.locked
    BY DiscardFields DEF Good
  <2> QED
    BY <2>1 DEF EvictAhead, Evicted, Fields
<1>5. Fine(t) <=> Fine(s)
  BY <1>4, FineStays
<1>6. ASSUME Fine(s) PROVE \E i \in DOMAIN Pool : Available(t, Pool[i])
  <2>1. PICK i \in DOMAIN Pool : s.colour[v] = Pool[i] /\ ~IsLocked(s, Pool[i])
    BY <1>2, <1>6
  <2>2. s.occupancy \in [Registers -> Owners \cup {None}] /\ Pool[i] \in Registers /\ Pool[i] # None
    BY <1>6, PoolFacts, OwnerFacts DEF Good, Facts
  <2>4. FreeColour(s, v) = [s EXCEPT !.occupancy[s.colour[v]] = None, !.colour[v] = None]
    BY <2>1, <2>2 DEF FreeColour
  <2>5. FreeColour(s, v).occupancy = [s.occupancy EXCEPT ![s.colour[v]] = None]
    BY <2>4 DEF Good, Shape, Fields
  <2>3. t.occupancy[Pool[i]] = None
    BY <1>4, <2>1, <2>2, <2>5
  <2> QED
    BY <1>4, <2>1, <2>3 DEF Available, IsFree, IsLocked
<1>7. ASSUME Fine(s), NEW u \in Owners, s.colour[u] = None PROVE t.colour[u] = None
  <2>1. FreeColour(s, v).colour = [s.colour EXCEPT ![v] = None]
    BY <1>2, <1>7, FreeColourMaps, OwnerFacts DEF Good
  <2> QED
    BY <1>4, <1>7, <2>1 DEF Good, Facts
<1> QED
  BY <1>1, <1>3, <1>5, <1>6, <1>7

PendingOf(v) == IF v \in VRegs THEN v ELSE None

LEMMA ClaimIsGood ==
  ASSUME NEW s, NEW v, NEW r, NEW guards, Good(s, guards, None),
         Fine(s) => /\ v \in Owners /\ (v \in Guards => v \in guards) /\ r \in Registers
                    /\ s.occupancy[r] = None /\ s.colour[v] = None
  PROVE  /\ Good(Claim(s, v, r), guards, PendingOf(v))
         /\ Fine(Claim(s, v, r)) => /\ Fine(s) /\ Claim(s, v, r).reg = r
                                    /\ Claim(s, v, r).occupancy[r] = v
<1> DEFINE t == Claim(s, v, r)
<1>1. /\ DOMAIN t = Fields /\ t.err = s.err /\ t.val = s.val /\ t.mat = s.mat /\ t.reg = r
      /\ t.evictable = s.evictable /\ t.uses = s.uses /\ t.sites = s.sites
      /\ t.occupancy = [s.occupancy EXCEPT ![r] = v] /\ t.colour = [s.colour EXCEPT ![v] = r]
  BY DEF Claim, Good, Shape, Fields
<1>2. Fine(t) <=> Fine(s)
  BY <1>1, FineStays
<1> HIDE DEF t
<1>3. Shape(t)
  BY <1>1 DEF Good, Shape
<1> SUFFICES ASSUME Fine(s)
             PROVE  /\ Facts(t, guards) /\ t.reg \in Registers \cup {None} /\ t.occupancy[r] = v
                    /\ Strict => Agree(t, PendingOf(v))
  BY <1>1, <1>2, <1>3 DEF Good, t
<1>4. /\ Facts(s, guards) /\ v \in Owners /\ (v \in Guards => v \in guards) /\ r \in Registers
      /\ s.occupancy[r] = None /\ s.colour[v] = None
  BY DEF Good
<1>5. /\ s.colour \in [Owners -> Registers \cup {None}]
      /\ s.occupancy \in [Registers -> Owners \cup {None}]
      /\ \A p \in Registers, u \in Owners : s.occupancy[p] = u <=> s.colour[u] = p
  BY <1>4 DEF Facts, OneOwner
<1>6. /\ t.colour \in [Owners -> Registers \cup {None}]
      /\ t.occupancy \in [Registers -> Owners \cup {None}]
      /\ t.occupancy[r] = v
  BY <1>1, <1>4, <1>5
<1>7. OneOwner(t)
  <2> SUFFICES ASSUME NEW p \in Registers, NEW u \in Owners
               PROVE  t.occupancy[p] = u <=> t.colour[u] = p
    BY DEF OneOwner
  <2>1. CASE u = v
    BY <1>1, <1>4, <1>5, <2>1, OwnerFacts
  <2>2. CASE u # v
    BY <1>1, <1>4, <1>5, <2>2, OwnerFacts
  <2> QED
    BY <2>1, <2>2
<1>8. Facts(t, guards)
  <2>1. \A g \in Guards \ guards : t.colour[g] = None
    BY <1>1, <1>4, <1>5, OwnerFacts DEF Facts
  <2>2. Sited(t)
    BY <1>1, <1>4 DEF Facts, Sited
  <2> QED
    BY <1>1, <1>4, <1>6, <1>7, <2>1, <2>2 DEF Facts
<1>9. ASSUME Strict PROVE Agree(t, PendingOf(v))
  BY <1>1, <1>4, <1>5, <1>9, OwnerFacts DEF Good, Agree, PendingOf
<1> QED
  BY <1>1, <1>4, <1>6, <1>8, <1>9

LEMMA AllocateIsGood ==
  ASSUME NEW s, NEW v, NEW guards, Good(s, guards, None),
         Fine(s) => v \in Owners /\ (v \in Guards => v \in guards)
  PROVE  LET t == Allocate(s, v)
         IN  /\ Good(t, guards, PendingOf(v))
             /\ Fine(t) => Fine(s) /\ t.reg \in Registers /\ t.occupancy[t.reg] = v
<1> DEFINE t == Allocate(s, v)
           u == IF Exhausted(s) THEN EvictOne(s) ELSE s
           r == IF u.preferred \in Registers /\ Available(u, u.preferred)
                THEN u.preferred ELSE FirstAvailable(u)
<1>1. CASE s.colour[v] # None \/ (Exhausted(s) /\ ~CanEvictOne(s))
  <2>1. \E message : message # "" /\ t = Fail(s, message)
    <3>1. CASE s.colour[v] # None
      BY Zenon, <3>1 DEF Allocate
    <3>2. CASE ~(s.colour[v] # None)
      BY Zenon, <1>1, <3>2 DEF Allocate
    <3> QED
      BY <3>1, <3>2
  <2> HIDE DEF t
  <2>2. Good(t, guards, PendingOf(v)) /\ ~Fine(t)
    BY Zenon, <2>1, FailIsGood DEF Good
  <2> QED
    BY <2>2 DEF t
<1>2. CASE s.colour[v] = None /\ (Exhausted(s) => CanEvictOne(s))
  <2>1. t = Claim(u, v, r)
    BY <1>2 DEF Allocate, Pick
  <2>2. Good(u, guards, None) /\ (Fine(u) => Fine(s) /\ (v \in Owners => u.colour[v] = None))
    BY <1>2, EvictOneIsGood
  <2>3. ASSUME Fine(s) PROVE \E i \in DOMAIN Pool : Available(u, Pool[i])
    <3>1. CASE Exhausted(s)
      BY <1>2, <2>3, <3>1, EvictOneIsGood
    <3>2. CASE ~Exhausted(s)
      <4>1. {p \in Registers : Available(s, p)} # {}
        BY <3>2, FS_EmptySet DEF Exhausted, FreeCount
      <4> QED
        BY <3>2, <4>1, PoolFacts
    <3> QED
      BY <3>1, <3>2
  <2> HIDE DEF u
  <2>4. ASSUME Fine(s) PROVE r \in Registers /\ Available(u, r)
    <3>1. CASE u.preferred \in Registers /\ Available(u, u.preferred)
      BY <3>1
    <3>2. CASE ~(u.preferred \in Registers /\ Available(u, u.preferred))
      <4> DEFINE S == {i \in DOMAIN Pool : Available(u, Pool[i])}
                 First(i) == Available(u, Pool[i]) /\ \A j \in 1..(i - 1) : ~Available(u, Pool[j])
                 c == CHOOSE i \in DOMAIN Pool : First(i)
      <4>5. S \in SUBSET Nat /\ S # {}
        BY <2>3, <2>4, PoolFacts
      <4>1. \E i \in S : \A j \in S : i <= j
        <5> HIDE DEF S
        <5> QED
          BY <4>5, LeastExists
      <4>2. \E i \in DOMAIN Pool : First(i)
        <5>1. PICK i \in S : \A j \in S : i <= j
          BY <4>1
        <5>2. ASSUME NEW j \in 1..(i - 1), Available(u, Pool[j]) PROVE FALSE
          <6>1. i \in 1..Len(Pool) /\ Len(Pool) \in Nat
            BY <5>1, PoolFacts
          <6>2. j \in DOMAIN Pool /\ ~(i <= j)
            BY <6>1, PoolFacts
          <6> QED
            BY <5>1, <5>2, <6>2
        <5> QED
          BY <5>1, <5>2
      <4>3. c \in DOMAIN Pool /\ First(c)
        BY <4>2
      <4>4. r = Pool[c]
        BY <3>2 DEF FirstAvailable
      <4> HIDE DEF c, r
      <4> QED
        BY <4>3, <4>4, PoolFacts
    <3> QED
      BY <3>1, <3>2
  <2> HIDE DEF r
  <2>5. ASSUME Fine(u)
        PROVE  /\ v \in Owners /\ (v \in Guards => v \in guards) /\ r \in Registers
               /\ u.occupancy[r] = None /\ u.colour[v] = None
    BY <2>2, <2>4, <2>5 DEF Available, IsFree
  <2>6. /\ Good(Claim(u, v, r), guards, PendingOf(v))
        /\ Fine(Claim(u, v, r)) => /\ Fine(u) /\ Claim(u, v, r).reg = r
                                   /\ Claim(u, v, r).occupancy[r] = v
    BY <2>2, <2>5, ClaimIsGood
  <2> HIDE DEF t
  <2>7. /\ Good(t, guards, PendingOf(v))
        /\ Fine(t) => Fine(s) /\ t.reg \in Registers /\ t.occupancy[t.reg] = v
    BY <2>1, <2>2, <2>4, <2>6
  <2> QED
    BY <2>7 DEF t
<1> QED
  BY <1>1, <1>2

\* A virtual register that has been allocated is pending.
LEMMA AllocateForRegister ==
  ASSUME NEW s, NEW v \in VRegs, NEW guards, Good(s, guards, None)
  PROVE  Good(Allocate(s, v), guards, v)
BY AllocateIsGood, OwnerFacts DEF PendingOf

-----------------------------------------------------------------------------
(* Scratch registers *)

LEMMA FailedIsGood ==
  ASSUME NEW s, NEW guards, NEW pending, Shape(s), ~Fine(s)
  PROVE  Good(s, guards, pending)
BY DEF Good

LEMMA MoreGuards ==
  ASSUME NEW s, NEW guards, NEW pending, Good(s, guards, pending)
  PROVE  Good(s, Guards, pending)
BY DEF Good, Facts

\* Where the two maps may part, nothing is asked of the pending register but that
\* it has one.
LEMMA LaxIsGood ==
  ASSUME NEW s, NEW guards, NEW pending, NEW other, Good(s, guards, pending), ~Strict,
         Fine(s) /\ other \in VRegs => s.reg \in Registers \cup {None}
  PROVE  Good(s, guards, other)
BY DEF Good

LEMMA RegistersAreFinite == IsFiniteSet(Registers)
<1> DEFINE f == [i \in 1..Len(Pool) |-> Pool[i]]
<1>1. IsFiniteSet(1..Len(Pool))
  BY PoolFacts, FS_Interval
<1>2. f \in Surjection(1..Len(Pool), Registers)
  BY PoolFacts DEF Surjection
<1> HIDE DEF f
<1> QED
  BY <1>1, <1>2, FS_Surjection

\* There are more guards than registers, so one of them holds none.
LEMMA FreshGuardIsFree ==
  ASSUME NEW s, NEW guards, Facts(s, guards)
  PROVE  FreshGuard(s) \in Guards /\ s.colour[FreshGuard(s)] = None
<1>1. \E g \in Guards : s.colour[g] = None
  <2> SUFFICES ASSUME \A g \in Guards : s.colour[g] # None PROVE FALSE
    OBVIOUS
  <2> DEFINE f == [g \in Guards |-> s.colour[g]]
  <2>1. f \in [Guards -> Registers]
    BY OwnerFacts DEF Facts
  <2>2. \A x, y \in Guards : f[x] = f[y] => x = y
    <3> SUFFICES ASSUME NEW x \in Guards, NEW y \in Guards, s.colour[x] = s.colour[y] PROVE x = y
      OBVIOUS
    <3>1. s.colour[x] \in Registers
      BY <2>1
    <3> QED
      BY <3>1, OwnerFacts DEF Facts, OneOwner
  <2> HIDE DEF f
  <2>3. \E x, y \in Guards : x # y /\ f[x] = f[y]
    BY <2>1, RegistersAreFinite, OwnerAssumption, FS_PigeonHole
  <2> QED
    BY <2>2, <2>3
<1> QED
  BY <1>1 DEF FreshGuard

LEMMA NewScratchIsGood ==
  ASSUME NEW s, NEW guards, Good(s, guards, None)
  PROVE  LET t == NewScratch(s)
         IN  /\ Good(t, Guards, None)
             /\ Fine(t) => Fine(s) /\ t.reg \in Registers /\ t.occupancy[t.reg] \in Guards
<1> DEFINE g == FreshGuard(s)
           t == Allocate(s, g)
<1>1. NewScratch(s) = t
  BY DEF NewScratch
<1>2. Fine(s) => g \in Guards
  BY FreshGuardIsFree DEF Good
<1> HIDE DEF g
<1>3. /\ Good(t, Guards, PendingOf(g))
      /\ Fine(t) => Fine(s) /\ t.reg \in Registers /\ t.occupancy[t.reg] = g
  BY <1>2, AllocateIsGood, MoreGuards, OwnerFacts
<1> HIDE DEF t
<1>4. Fine(s) => PendingOf(g) = None
  BY <1>2, OwnerFacts DEF PendingOf
<1>5. Good(t, Guards, None)
  BY <1>3, <1>4, FailedIsGood DEF Good
<1> QED
  BY <1>1, <1>2, <1>3, <1>5

\* What a guard takes over from a virtual register.
TakenFrom(t, s, from) ==
    /\ Shape(t) /\ t.mat = s.mat
    /\ Fine(t) => /\ Fine(s) /\ Facts(t, Guards) /\ t.reg \in Registers /\ t.occupancy[t.reg] \in Guards
                  /\ t.colour[from] = None
                  /\ \A v \in VRegs \ {from} : t.colour[v] = s.colour[v]

LEMMA TakeMaps ==
  ASSUME NEW s, NEW from \in VRegs, NEW guards, Good(s, guards, None)
  PROVE  TakenFrom(Take(s, from), s, from)
<1>1. CASE s.colour[from] = None
  <2>1. "Cannot take over a register that holds no physical colour" # ""
    BY Zenon
  <2> DEFINE t == Fail(s, "Cannot take over a register that holds no physical colour")
  <2>2. Shape(t) /\ ~Fine(t)
    BY Zenon, <2>1, FailIsGood DEF Good
  <2>3. t.mat = s.mat
    BY Zenon DEF Fail, Good, Shape, Fields
  <2>4. Take(s, from) = t
    BY <1>1 DEF Take
  <2> HIDE DEF t
  <2> QED
    BY <2>2, <2>3, <2>4 DEF TakenFrom
<1>2. CASE s.colour[from] # None
  <2> DEFINE g == FreshGuard(s)
             u == Reassign(s, from, g)
             t == [u EXCEPT !.reg = s.colour[from]]
  <2>1. Take(s, from) = t
    BY <1>2 DEF Take
  <2>2. Fine(s) => g \in Guards
    BY FreshGuardIsFree DEF Good
  <2> HIDE DEF g
  <2>3. Reassigned(u, s, from, g)
    BY ReassignFields DEF Good
  <2> HIDE DEF u
  <2>4. /\ DOMAIN t = Fields /\ t.err = u.err /\ t.val = u.val /\ t.mat = u.mat
        /\ t.evictable = u.evictable /\ t.uses = u.uses /\ t.sites = u.sites
        /\ t.occupancy = u.occupancy /\ t.colour = u.colour /\ t.reg = s.colour[from]
    BY <2>3 DEF Reassigned, Fields
  <2>5. Fine(t) <=> Fine(u)
    BY <2>4, FineStays
  <2> HIDE DEF t
  <2>6. Shape(t) /\ t.mat = s.mat
    BY <2>3, <2>4 DEF Good, Shape, Reassigned
  <2>7. ASSUME Fine(t)
        PROVE  /\ Fine(s) /\ Facts(t, Guards) /\ t.reg \in Registers /\ t.occupancy[t.reg] \in Guards
               /\ t.colour[from] = None
               /\ \A v \in VRegs \ {from} : t.colour[v] = s.colour[v]
    <3>1. /\ Fine(s) /\ g \in Guards /\ g \in Owners /\ from \in Owners /\ Facts(s, Guards)
          /\ u.occupancy = [s.occupancy EXCEPT ![s.colour[from]] = g]
          /\ u.colour = [[s.colour EXCEPT ![g] = s.colour[from]] EXCEPT ![from] = None]
      BY <2>2, <2>3, <2>5, <2>7, OwnerFacts, MoreGuards DEF Reassigned, Good
    <3>2. s.colour[from] \in Registers /\ Facts(u, Guards)
      BY <2>5, <2>7, <3>1, ReassignMaps DEF Good, u
    <3>3. Facts(t, Guards)
      BY <2>4, <3>2 DEF Facts, OneOwner, Sited
    <3>4. /\ s.colour \in [Owners -> Registers \cup {None}]
          /\ s.occupancy \in [Registers -> Owners \cup {None}]
      BY <3>1 DEF Facts
    <3>5. t.reg \in Registers /\ t.occupancy[t.reg] = g
      BY <2>4, <3>1, <3>2, <3>4
    <3>6. ASSUME NEW v \in VRegs \ {from} PROVE t.colour[v] = s.colour[v]
      BY <2>4, <3>1, <3>4, OwnerFacts
    <3>7. t.colour[from] = None
      BY <2>4, <3>1, <3>4
    <3> QED
      BY <3>1, <3>3, <3>5, <3>6, <3>7
  <2> QED
    BY <2>1, <2>6, <2>7 DEF TakenFrom
<1> QED
  BY <1>1, <1>2

\* The virtual register map forgets what the guard has taken.
LEMMA TakePointerIsGood ==
  ASSUME NEW s, NEW from \in VRegs, NEW guards, Good(s, guards, None)
  PROVE  LET t == TakePointer(s, from)
         IN  /\ Good(t, Guards, None)
             /\ Fine(t) => Fine(s) /\ t.reg \in Registers /\ t.occupancy[t.reg] \in Guards
<1> DEFINE u == Take(s, from)
           t == [u EXCEPT !.mat[from] = None]
<1>1. TakePointer(s, from) = t
  BY DEF TakePointer
<1>2. TakenFrom(u, s, from)
  BY TakeMaps
<1> HIDE DEF u
<1>3. /\ DOMAIN t = Fields /\ t.err = u.err /\ t.val = u.val /\ t.mat = [s.mat EXCEPT ![from] = None]
      /\ t.evictable = u.evictable /\ t.uses = u.uses /\ t.sites = u.sites
      /\ t.occupancy = u.occupancy /\ t.colour = u.colour /\ t.reg = u.reg
  BY <1>2 DEF TakenFrom, Shape, Fields
<1>4. Fine(t) <=> Fine(u)
  BY <1>3, FineStays
<1> HIDE DEF t
<1>5. Shape(t)
  BY <1>2, <1>3 DEF TakenFrom, Shape
<1>6. ASSUME Fine(u) PROVE Facts(t, Guards) /\ (Strict => Agree(t, None))
  <2>1. s.mat \in [VRegs -> Registers \cup {None}] /\ Facts(s, guards)
    BY <1>2, <1>6 DEF TakenFrom, Good, Facts
  <2>2. t.mat \in [VRegs -> Registers \cup {None}]
    BY <1>3, <2>1
  <2>3. Facts(t, Guards)
    BY <1>2, <1>3, <1>6, <2>2 DEF Facts, OneOwner, Sited, TakenFrom
  <2>4. ASSUME Strict PROVE Agree(t, None)
    BY <1>2, <1>3, <1>6, <2>1, <2>4, OwnerFacts DEF Agree, Good, TakenFrom
  <2> QED
    BY <2>3, <2>4
<1>7. Good(t, Guards, None)
  BY <1>4, <1>5, <1>6, OwnerFacts DEF Good
<1> QED
  BY <1>1, <1>2, <1>3, <1>4, <1>7 DEF TakenFrom

\* An indirect store leaves it materialised.
LEMMA TakeIsGood ==
  ASSUME NEW s, NEW from \in VRegs, NEW guards, Good(s, guards, None), ~Strict
  PROVE  LET t == Take(s, from)
         IN  /\ Good(t, Guards, None)
             /\ Fine(t) => Fine(s) /\ t.reg \in Registers /\ t.occupancy[t.reg] \in Guards
BY TakeMaps, OwnerFacts DEF TakenFrom, Good

\* At the end of the handler no guard holds a register.
LEMMA DestroyGuardsIsGood ==
  ASSUME NEW s, NEW guards, Good(s, guards, None)
  PROVE  Good(DestroyGuards(s), {}, None)
<1> DEFINE t == DestroyGuards(s)
<1>1. /\ DOMAIN t = Fields /\ t.err = s.err /\ t.val = s.val /\ t.mat = s.mat /\ t.reg = s.reg
      /\ t.evictable = s.evictable /\ t.uses = s.uses /\ t.sites = s.sites
      /\ t.occupancy = [r \in Registers |-> IF s.occupancy[r] \in Guards THEN None ELSE s.occupancy[r]]
      /\ t.colour = [v \in Owners |-> IF v \in Guards THEN None ELSE s.colour[v]]
  BY DEF DestroyGuards, Good, Shape, Fields
<1>2. Fine(t) <=> Fine(s)
  BY <1>1, FineStays
<1> HIDE DEF t
<1>3. Shape(t)
  BY <1>1 DEF Good, Shape
<1>4. ASSUME Fine(s) PROVE Facts(t, {})
  <2>1. /\ s.colour \in [Owners -> Registers \cup {None}]
        /\ s.occupancy \in [Registers -> Owners \cup {None}]
        /\ \A r \in Registers, v \in Owners : s.occupancy[r] = v <=> s.colour[v] = r
    BY <1>4 DEF Good, Facts, OneOwner
  <2>2. OneOwner(t)
    BY <1>1, <2>1, OwnerFacts DEF OneOwner
  <2>3. /\ t.colour \in [Owners -> Registers \cup {None}]
        /\ t.occupancy \in [Registers -> Owners \cup {None}]
        /\ \A g \in Guards : t.colour[g] = None
    BY <1>1, <2>1, OwnerFacts
  <2> QED
    BY <1>1, <1>4, <2>2, <2>3 DEF Good, Facts, Sited
<1>5. ASSUME Fine(s), Strict PROVE Agree(t, None)
  BY <1>1, <1>5, OwnerFacts DEF Good, Agree, Owners
<1>6. Good(t, {}, None)
  BY <1>2, <1>3, <1>4, <1>5, OwnerFacts DEF Good
<1> QED
  BY <1>6 DEF t

-----------------------------------------------------------------------------
(* Materialisation: the owner ends up pending. *)

\* Fields Good does not look at.
LEMMA OtherFieldsAreGood ==
  ASSUME NEW s, NEW x, NEW guards, NEW pending, Good(s, guards, pending)
  PROVE  /\ Good([s EXCEPT !.code = x], guards, pending)
         /\ Good([s EXCEPT !.locked = x], guards, pending)
         /\ Good([s EXCEPT !.evicted = x], guards, pending)
         /\ Good(Prefer(s, x), guards, pending)
<1>1. /\ Untouched([s EXCEPT !.code = x], s)
      /\ Untouched([s EXCEPT !.locked = x], s)
      /\ Untouched([s EXCEPT !.evicted = x], s)
      /\ Untouched(Prefer(s, x), s)
  BY DEF Good, Shape, Fields, Prefer, Untouched
<1> QED
  BY <1>1, UntouchedIsGood

\* Unless a register is pending, reg says nothing.
LEMMA RegIsGood ==
  ASSUME NEW s, NEW r, NEW guards, Good(s, guards, None)
  PROVE  Good([s EXCEPT !.reg = r], guards, None)
<1> DEFINE t == [s EXCEPT !.reg = r]
<1>1. /\ DOMAIN t = Fields /\ t.err = s.err
      /\ t.occupancy = s.occupancy /\ t.colour = s.colour /\ t.mat = s.mat /\ t.val = s.val
      /\ t.evictable = s.evictable /\ t.uses = s.uses /\ t.sites = s.sites
  BY DEF Good, Shape, Fields
<1>2. Fine(t) <=> Fine(s)
  BY <1>1, FineStays
<1> HIDE DEF t
<1>3. Good(t, guards, None)
  BY <1>1, <1>2, OwnerFacts DEF Good, Shape, Facts, OneOwner, Sited, Agree
<1> QED
  BY <1>3 DEF t

LEMMA ConsumedIsGood ==
  ASSUME NEW s, NEW v \in VRegs, NEW guards, NEW pending, Good(s, guards, pending)
  PROVE  Good(ConsumeUse(NeedsRegister(s, v), v), guards, pending)
BY NeedsRegisterIsGood, ConsumeUseIsGood

LEMMA TakeOverIsGood ==
  ASSUME NEW s, NEW operand \in VRegs, NEW owner \in VRegs, NEW guards, Good(s, guards, None)
  PROVE  Good(TakeOver(s, operand, owner), guards, owner)
<1>1. Good(TransferRegister(s, operand, owner), guards, owner)
  BY TransferRegisterIsGood
<1>2. Good(Load(Allocate(s, owner), Reg(PhysicalRegisterOf(s, operand))), guards, owner)
  BY AllocateForRegister, ResultIsGood
<1>3. Good(ReleaseIfUnused(Load(Allocate(s, owner), Reg(PhysicalRegisterOf(s, operand))), operand),
           guards, owner)
  BY <1>2, ReleaseIfUnusedIsGood
<1> QED
  BY <1>1, <1>3 DEF TakeOver

LEMMA AccumulateIsGood ==
  ASSUME NEW s, NEW operand \in VRegs, NEW owner \in VRegs, NEW guards, Good(s, guards, None)
  PROVE  Good(Accumulate(s, operand, owner), guards, owner)
<1>1. Good(Load(Allocate(ConsumeUse(s, operand), owner), Imm(ImmediateOf(s, operand))), guards, owner)
  BY ConsumeUseIsGood, AllocateForRegister, ResultIsGood
<1>2. Good(TakeOver(ConsumeUse(NeedsRegister(s, operand), operand), operand, owner), guards, owner)
  BY ConsumedIsGood, TakeOverIsGood
<1> QED
  BY <1>1, <1>2 DEF Accumulate

\* An allocation for the owner, and an instruction on its register.
LEMMA ResultForIsGood ==
  ASSUME NEW s, NEW owner \in VRegs, NEW name, NEW operand, NEW guards, Good(s, guards, None)
  PROVE  /\ Good(OnResult(Allocate(s, owner), name, operand), guards, owner)
         /\ Good(Load(Allocate(s, owner), operand), guards, owner)
BY AllocateForRegister, ResultIsGood

LEMMA CopyIsGood ==
  ASSUME NEW s, NEW owner \in VRegs, NEW source \in VRegs, NEW guards, Good(s, guards, None)
  PROVE  /\ Good(MaterialiseCopy(s, owner, source), guards, owner)
         /\ Good(MaterialiseAddressOf(s, owner, source), guards, owner)
<1>1. Good(DereferenceAndMaybeFree(Load(Allocate(s, owner), Slot(source)), source), guards, owner)
  BY ResultForIsGood, DereferenceIsGood
<1>2. Good(TakeOver(ConsumeUse(NeedsRegister(s, source), source), source, owner), guards, owner)
  BY ConsumedIsGood, TakeOverIsGood
<1>3. Good(OnResult(Allocate(ConsumeUse(s, source), owner), "lea", Slot(source)), guards, owner)
  BY ConsumeUseIsGood, ResultForIsGood
<1> QED
  BY <1>1, <1>2, <1>3 DEF MaterialiseCopy, MaterialiseAddressOf

LEMMA ExtendOverIsGood ==
  ASSUME NEW s, NEW owner \in VRegs, NEW source \in VRegs, NEW name, NEW guards,
         Good(s, guards, None)
  PROVE  Good(ExtendOver(s, owner, source, name), guards, owner)
<1>1. Good(TransferRegister(s, source, owner), guards, owner)
  BY TransferRegisterIsGood
<1>2. Good(ReleaseIfUnused(Allocate(s, owner), source), guards, owner)
  BY AllocateForRegister, ReleaseIfUnusedIsGood
<1> QED
  BY <1>1, <1>2, ResultIsGood DEF ExtendOver

LEMMA ExtensionIsGood ==
  ASSUME NEW s, NEW owner \in VRegs, NEW source \in VRegs, NEW guards, Good(s, guards, None)
  PROVE  /\ Good(MaterialiseSignExtension(s, owner, source), guards, owner)
         /\ Good(MaterialiseZeroExtension(s, owner, source), guards, owner)
<1>1. ASSUME NEW name
      PROVE  Good(MaterialiseExtension(s, owner, source, name), guards, owner)
  <2>1. Good(DereferenceAndMaybeFree(OnResult(Allocate(s, owner), name, Slot(source)), source),
             guards, owner)
    BY ResultForIsGood, DereferenceIsGood
  <2>2. Good(ExtendOver(ConsumeUse(NeedsRegister(s, source), source), owner, source, name),
             guards, owner)
    BY ConsumedIsGood, ExtendOverIsGood
  <2> QED
    BY <2>1, <2>2 DEF MaterialiseExtension
<1>2. ASSUME NEW operand
      PROVE  Good(Load(DereferenceAndMaybeFree(Allocate(s, owner), source), operand), guards, owner)
  BY AllocateForRegister, DereferenceIsGood, ResultIsGood
<1> QED
  BY <1>1, <1>2 DEF MaterialiseSignExtension, MaterialiseZeroExtension

LEMMA CombineIsGood ==
  ASSUME NEW s, NEW owner \in VRegs, NEW left \in VRegs, NEW right \in VRegs, NEW name,
         NEW guards, Good(s, guards, None)
  PROVE  /\ Good(Combine(s, owner, left, right, name), guards, owner)
         /\ Good(Commutative(s, owner, left, right, name), guards, owner)
<1>1. ASSUME NEW a \in VRegs, NEW b \in VRegs
      PROVE  Good(Combine(s, owner, a, b, name), guards, owner)
  <2> DEFINE t == Accumulate(SourceReady(s, b), a, owner)
  <2>1. Good(t, guards, owner)
    BY SourceReadyIsGood, AccumulateIsGood
  <2> HIDE DEF t
  <2>2. Good(DereferenceAndMaybeFree(OnResult(t, name, SourceOperand(s, b)), b), guards, owner)
    BY <2>1, ResultIsGood, DereferenceIsGood
  <2> QED
    BY <2>2 DEF Combine, t
<1> QED
  BY <1>1 DEF Commutative

LEMMA SubIsGood ==
  ASSUME NEW s, NEW owner \in VRegs, NEW left \in VRegs, NEW right \in VRegs,
         NEW guards, Good(s, guards, None)
  PROVE  Good(MaterialiseSub(s, owner, left, right), guards, owner)
<1>1. Good(Zeroed(s, owner, left), guards, owner)
  <2>1. Good(ConsumeUse(SourceReady(s, left), left), guards, None)
    BY SourceReadyIsGood, ConsumeUseIsGood
  <2> QED
    BY <2>1, ResultForIsGood DEF Zeroed
<1>2. Good(ReleaseIfUnused(Zeroed(s, owner, left), left), guards, owner)
  BY <1>1, ReleaseIfUnusedIsGood
<1> QED
  BY <1>1, <1>2, CombineIsGood DEF MaterialiseSub

LEMMA ShiftedIsGood ==
  ASSUME NEW s, NEW owner \in VRegs, NEW left \in VRegs, NEW count \in VRegs, NEW name,
         NEW guards, Good(s, guards, None)
  PROVE  Good(Shifted(s, owner, left, count, name), guards, owner)
<1> DEFINE t == Accumulate(s, left, owner)
<1>1. Good(t, guards, owner)
  BY AccumulateIsGood
<1> HIDE DEF t
<1>2. ASSUME NEW immediate PROVE Good(ShiftBy(t, count, immediate, name), guards, owner)
  <2>1. CASE immediate # None
    BY <1>1, <2>1, ResultIsGood DEF ShiftBy
  <2>2. CASE immediate = None
    <3> DEFINE u == Check(NeedsRegister(t, count), PhysicalRegisterOf(t, count) # t.reg,
                          "shift count and destination must not share a register")
               code == ShiftByRegister(t, t.reg, PhysicalRegisterOf(t, count), name)
    <3>1. Good(u, guards, owner)
      <4>1. "shift count and destination must not share a register" # ""
        BY Zenon
      <4> QED
        BY Zenon, <1>1, <4>1, NeedsRegisterIsGood, CheckIsGood
    <3>2. ShiftBy(t, count, immediate, name) = [u EXCEPT !.code = code]
      BY <2>2 DEF ShiftBy
    <3> HIDE DEF u, code
    <3>3. Good([u EXCEPT !.code = code], guards, owner)
      BY <3>1, OtherFieldsAreGood
    <3> QED
      BY <3>2, <3>3
  <2> QED
    BY <2>1, <2>2
<1>3. Good(DereferenceAndMaybeFree(ShiftBy(t, count, ImmediateOf(s, count), name), count),
           guards, owner)
  BY <1>2, DereferenceIsGood
<1> QED
  BY <1>3 DEF Shifted, t

-----------------------------------------------------------------------------
(* Products and quotients *)

LEMMA LaxAllocate ==
  ASSUME NEW s, NEW owner \in VRegs, NEW guards, Good(s, guards, None), ~Strict
  PROVE  Good(Allocate(s, owner), guards, None)
BY AllocateForRegister, LaxIsGood, OwnerFacts

LEMMA MoveAsideIsGood ==
  ASSUME NEW s, NEW owner \in VRegs, NEW registers, NEW guards, Good(s, guards, None), ~Strict
  PROVE  Good(MoveAside(s, owner, registers), guards, None)
<1>1. Good(Prefer(s, Rcx), guards, None)
  BY OtherFieldsAreGood
<1>2. Good(Load(Allocate(Prefer(s, Rcx), owner), Reg(s.reg)), guards, None)
  BY <1>1, LaxAllocate, ResultIsGood
<1>3. Good(Prefer(Load(Allocate(Prefer(s, Rcx), owner), Reg(s.reg)), None), guards, None)
  BY <1>2, OtherFieldsAreGood
<1> QED
  BY <1>3 DEF MoveAside

LEMMA OperandsAreGood ==
  ASSUME NEW s, NEW owner \in VRegs, NEW v \in VRegs, NEW guards, Good(s, guards, None), ~Strict
  PROVE  /\ Good(RightOperand(s, owner, v), guards, None)
         /\ Good(LeftOperand(s, v), guards, None)
<1>1. Good(MaterialiseInteger(s, owner, ImmediateOf(s, v)), guards, None)
  BY LaxAllocate, ResultIsGood DEF MaterialiseInteger
<1>2. Good([NeedsRegister(s, v) EXCEPT !.reg = PhysicalRegisterOf(s, v)], guards, None)
  BY NeedsRegisterIsGood, RegIsGood
<1>3. Good(RightOperand(s, owner, v), guards, None)
  <2>1. CASE HasImmediate(s, v)
    BY <1>1, <2>1 DEF RightOperand
  <2>2. CASE ~HasImmediate(s, v)
    <3>1. RightOperand(s, owner, v) = [NeedsRegister(s, v) EXCEPT !.reg = PhysicalRegisterOf(s, v)]
      BY <2>2 DEF RightOperand
    <3> QED
      BY <1>2, <3>1
  <2> QED
    BY <2>1, <2>2
<1>4. Good(LeftOperand(s, v), guards, None)
  <2> DEFINE r == IF HasImmediate(s, v) THEN Rax ELSE PhysicalRegisterOf(s, v)
  <2>1. Good([SourceReady(s, v) EXCEPT !.reg = r], guards, None)
    BY SourceReadyIsGood, RegIsGood
  <2> QED
    BY <2>1 DEF LeftOperand
<1> QED
  BY <1>3, <1>4

LEMMA MultipliedIsGood ==
  ASSUME NEW s, NEW owner \in VRegs, NEW left \in VRegs, NEW right \in VRegs, NEW code,
         NEW guards, Good(s, guards, None), ~Strict
  PROVE  Good(Multiplied(s, owner, left, right, code), guards, owner)
<1> DEFINE vacated == Vacated(Vacated(s, Rax, owner), Rdx, owner)
           filled == LeftInRax(vacated, left)
           more == filled.code \o code
           coded == [filled EXCEPT !.code = more]
           consumed == LeftConsumed(coded, left)
           t == DereferenceAndMaybeFree(consumed, right)
<1>1. Good(vacated, guards, None)
  <2>1. ASSUME NEW u, Good(u, guards, None), NEW r \in Registers
        PROVE  Good(Vacated(u, r, owner), guards, None)
    BY <2>1, ClearRegisterIsGood DEF Vacated
  <2> QED
    BY <2>1, RegisterAssumption
<1> HIDE DEF vacated
<1>2. Good(filled, guards, None)
  BY <1>1, EmitIsGood DEF LeftInRax
<1> HIDE DEF filled, more
<1>3. Good(coded, guards, None)
  BY <1>2, OtherFieldsAreGood
<1>4. coded = [filled EXCEPT !.code = @ \o code]
  BY DEF more
<1> HIDE DEF coded
<1>5. Good(consumed, guards, None)
  BY <1>3, ConsumeUseIsGood, DereferenceIsGood DEF LeftConsumed
<1> HIDE DEF consumed
<1>6. Good(t, guards, None)
  BY <1>5, DereferenceIsGood
<1>7. Multiplied(s, owner, left, right, code) = [t EXCEPT !.reg = Rax]
  BY <1>4 DEF Multiplied, t, consumed, filled, vacated
<1> HIDE DEF t
<1>8. Good([t EXCEPT !.reg = Rax], guards, None) /\ [t EXCEPT !.reg = Rax].reg = Rax
  BY <1>6, RegIsGood DEF Good, Shape, Fields
<1> QED
  BY <1>7, <1>8, LaxIsGood, RegisterAssumption

\* A virtual register that has been assigned what reg says is no longer pending.
LEMMA AssignedIsGood ==
  ASSUME NEW s, NEW v \in VRegs, NEW guards, Good(s, guards, v)
  PROVE  Good([s EXCEPT !.mat[v] = s.reg], guards, None)
<1> DEFINE t == [s EXCEPT !.mat[v] = s.reg]
<1>1. /\ DOMAIN t = Fields /\ t.err = s.err /\ t.reg = s.reg
      /\ t.occupancy = s.occupancy /\ t.colour = s.colour /\ t.val = s.val
      /\ t.evictable = s.evictable /\ t.uses = s.uses /\ t.sites = s.sites
      /\ t.mat = [s.mat EXCEPT ![v] = s.reg]
  BY DEF Good, Shape, Fields
<1>2. Fine(t) <=> Fine(s)
  BY <1>1, FineStays
<1> HIDE DEF t
<1>3. Shape(t)
  BY <1>1 DEF Good, Shape
<1>4. ASSUME Fine(s) PROVE Facts(t, guards) /\ (Strict => Agree(t, None))
  <2>1. s.mat \in [VRegs -> Registers \cup {None}] /\ s.reg \in Registers \cup {None}
    BY <1>4 DEF Good, Facts
  <2>2. t.mat \in [VRegs -> Registers \cup {None}]
    BY <1>1, <2>1
  <2>3. Facts(t, guards)
    BY <1>1, <1>4, <2>2 DEF Good, Facts, OneOwner, Sited
  <2>4. ASSUME Strict PROVE Agree(t, None)
    BY <1>1, <1>4, <2>1, <2>4, OwnerFacts DEF Good, Agree
  <2> QED
    BY <2>3, <2>4
<1>5. Good(t, guards, None)
  BY <1>2, <1>3, <1>4, OwnerFacts DEF Good
<1> QED
  BY <1>5 DEF t

\* One that gives its register back at once is not, either.
LEMMA DiscardPendingIsGood ==
  ASSUME NEW s, NEW v \in VRegs, NEW guards, Good(s, guards, v)
  PROVE  Good(Discard(s, v), guards, None)
<1> DEFINE u == FreeColour(s, v)
           t == Discard(s, v)
<1>1. ASSUME Fine(s), Strict PROVE s.mat[v] = None
  BY <1>1 DEF Good, Agree
<1>2. Good(u, guards, None)
  BY <1>1, FreeColourIsGood, OwnerFacts
<1>3. /\ u.err = s.err /\ u.val = s.val /\ u.mat = s.mat
      /\ u.evictable = s.evictable /\ u.uses = s.uses /\ u.sites = s.sites
  BY FreeColourFields DEF Good
<1>4. /\ DOMAIN t = Fields /\ t.err = s.err /\ t.val = s.val /\ t.mat = [s.mat EXCEPT ![v] = None]
      /\ t.evictable = s.evictable /\ t.uses = s.uses /\ t.sites = s.sites
      /\ t.colour = u.colour /\ t.occupancy = u.occupancy
  BY DiscardFields, DiscardUnmaps DEF Good
<1> HIDE DEF u, t
<1>5. (Fine(t) <=> Fine(s)) /\ (Fine(u) <=> Fine(s))
  BY <1>3, <1>4, FineStays
<1>6. Shape(t)
  BY <1>4 DEF Good, Shape
<1>7. ASSUME Fine(s) PROVE Facts(t, guards) /\ (Strict => Agree(t, None))
  <2>1. u.mat \in [VRegs -> Registers \cup {None}]
    BY <1>2, <1>5, <1>7 DEF Good, Facts
  <2>2. t.mat \in [VRegs -> Registers \cup {None}]
    BY <1>3, <1>4, <2>1
  <2>3. Facts(t, guards)
    BY <1>2, <1>3, <1>4, <1>5, <1>7, <2>2 DEF Good, Facts, OneOwner, Sited
  <2>4. ASSUME Strict PROVE Agree(t, None)
    BY <1>1, <1>2, <1>3, <1>4, <1>5, <1>7, <2>1, <2>4, OwnerFacts DEF Good, Agree
  <2> QED
    BY <2>3, <2>4
<1>8. Good(t, guards, None)
  BY <1>5, <1>6, <1>7, OwnerFacts DEF Good
<1> QED
  BY <1>8 DEF t

LEMMA ReloadIsGood ==
  ASSUME NEW s, NEW v \in VRegs, NEW guards, Good(s, guards, None)
  PROVE  Good(Reload(s, v), guards, None)
<1> DEFINE t == Allocate(s, v)
           u == [t EXCEPT !.evicted = t.evicted \ {v}]
<1>1. Good(t, guards, v)
  BY AllocateForRegister
<1> HIDE DEF t
<1>2. Good(u, guards, v) /\ u.reg = t.reg /\ u.mat = t.mat
  BY <1>1, OtherFieldsAreGood DEF Good, Shape, Fields
<1>3. Restored(t, v) = [u EXCEPT !.mat[v] = t.reg]
  BY DEF Restored
<1> HIDE DEF u
<1>4. Good([u EXCEPT !.mat[v] = u.reg], guards, None)
  BY <1>2, AssignedIsGood
<1>5. Good(Restored(t, v), guards, None)
  BY <1>2, <1>3, <1>4
<1> QED
  BY <1>5, ResultIsGood DEF Reload, t

LEMMA ThroughRaxIsGood ==
  ASSUME NEW s, NEW owner \in VRegs, NEW left \in VRegs, NEW right \in VRegs, NEW before, NEW name,
         NEW guards, Good(s, guards, None), ~Strict
  PROVE  Good(ThroughRax(s, owner, left, right, before, name), guards, owner)
<1>1. ASSUME NEW u, Good(u, guards, None), NEW v \in VRegs
      PROVE  Good(FromSlot(u, v), guards, None)
  BY <1>1, ReloadIsGood DEF FromSlot
<1> DEFINE loaded == FromSlot(FromSlot(s, left), right)
           t == MoveAside(RightOperand(loaded, owner, right), owner, {Rax, Rdx})
           u == MoveAside(LeftOperand(t, left), owner, {Rdx})
           code == before \o <<Op1(name, Reg(t.reg))>>
<1>2. Good(loaded, guards, None)
  BY <1>1
<1> HIDE DEF loaded
<1>3. Good(t, guards, None)
  BY <1>2, OperandsAreGood, MoveAsideIsGood
<1>4. ThroughRax(s, owner, left, right, before, name) = WithSource(t, owner, left, right, before, name)
  BY DEF ThroughRax, loaded
<1> HIDE DEF t
<1>5. Good(u, guards, None)
  BY <1>3, OperandsAreGood, MoveAsideIsGood
<1>6. WithSource(t, owner, left, right, before, name) = Multiplied(u, owner, left, right, code)
  BY DEF WithSource
<1> HIDE DEF u, code
<1>7. Good(Multiplied(u, owner, left, right, code), guards, owner)
  BY <1>5, MultipliedIsGood
<1> QED
  BY <1>4, <1>6, <1>7

-----------------------------------------------------------------------------
(* Recursion.  The functions the handlers are written with take a state     *)
(* through `top` steps of one kind; n is the number of the step.             *)

StepOf(kind, x, n, a, b, c) ==
    CASE kind = "empty"  -> EmptyForCall(x, Pool[n])
      [] kind = "reload" -> ReloadSource(x, a, b[n])
      [] kind = "ensure" -> EnsureOperand(x, b[n])
      [] kind = "vacate" -> VacateOne(x, Pool[n])
      [] kind = "make"   -> MakeOneRoom(x, a)
      [] kind = "flush"  -> IF n - 1 \in a THEN FlushOne(x, n - 1) ELSE x
      [] kind = "site"   -> x \o SitesAt(a, b + n - 1, c)
      [] kind = "lead"   -> IF IsLeader(a, n) THEN Append(x, n) ELSE x
      [] kind = "look"   -> [k \in DOMAIN a |-> a[k] \cup ((UNION {x[j] : j \in c[k]}) \ b[k])]

Trace(r, kind, start, a, b, c, top) ==
    r = [n \in 0..top |-> IF n = 0 THEN start ELSE StepOf(kind, r[n - 1], n, a, b, c)]

LEMMA TraceExists ==
  ASSUME NEW kind, NEW start, NEW a, NEW b, NEW c
  PROVE  \A top \in Nat : \E r : Trace(r, kind, start, a, b, c, top)
<1> DEFINE A == {top \in Nat : \E r : Trace(r, kind, start, a, b, c, top)}
<1>1. 0 \in A
  <2> DEFINE none == [n \in 0..0 |-> start]
  <2>1. \A n \in 0..0 : n = 0
    OBVIOUS
  <2>2. Trace(none, kind, start, a, b, c, 0)
    BY <2>1 DEF Trace
  <2> QED
    BY <2>2
<1>2. ASSUME NEW top \in Nat, top \in A PROVE top + 1 \in A
  <2>1. PICK r : Trace(r, kind, start, a, b, c, top)
    BY <1>2
  <2> DEFINE more == [n \in 0..top + 1 |-> IF n <= top THEN r[n] ELSE StepOf(kind, r[top], n, a, b, c)]
  <2>2. ASSUME NEW n \in 0..top + 1
        PROVE  more[n] = IF n = 0 THEN start ELSE StepOf(kind, more[n - 1], n, a, b, c)
    <3>1. CASE n <= top
      <4>1. n \in 0..top /\ more[n] = r[n] /\ (n # 0 => more[n - 1] = r[n - 1])
        BY <3>1
      <4>2. r[n] = IF n = 0 THEN start ELSE StepOf(kind, r[n - 1], n, a, b, c)
        BY <2>1, <4>1 DEF Trace
      <4> HIDE DEF more
      <4> QED
        BY <4>1, <4>2
    <3>2. CASE n = top + 1
      <4>1. more[n] = StepOf(kind, r[top], n, a, b, c) /\ more[n - 1] = r[top] /\ n # 0
        BY <3>2
      <4> HIDE DEF more
      <4> QED
        BY <4>1
    <3> QED
      BY <3>1, <3>2
  <2>3. Trace(more, kind, start, a, b, c, top + 1)
    <3>1. more = [n \in 0..top + 1 |-> more[n]]
      OBVIOUS
    <3> HIDE DEF more
    <3> QED
      BY <2>2, <3>1 DEF Trace
  <2> QED
    BY <2>3
<1> HIDE DEF A
<1>3. \A top \in Nat : top \in A
  BY <1>1, <1>2, InductionOverNat
<1> QED
  BY <1>3 DEF A

Stepwise(r, kind, start, a, b, c, top) ==
    /\ r = [n \in 0..top |-> r[n]]
    /\ \A n \in 0..top : r[n] = IF n = 0 THEN start ELSE StepOf(kind, r[n - 1], n, a, b, c)

LEMMA TraceSteps ==
  ASSUME NEW r, NEW kind, NEW start, NEW a, NEW b, NEW c, NEW top, Trace(r, kind, start, a, b, c, top)
  PROVE  Stepwise(r, kind, start, a, b, c, top)
<1>1. r = [n \in 0..top |-> IF n = 0 THEN start ELSE StepOf(kind, r[n - 1], n, a, b, c)]
  BY DEF Trace
<1>2. \A n \in 0..top : r[n] = IF n = 0 THEN start ELSE StepOf(kind, r[n - 1], n, a, b, c)
  BY <1>1
<1>3. r = [n \in 0..top |-> r[n]]
  BY <1>1
<1> QED
  BY <1>2, <1>3 DEF Stepwise

\* What holds at the start and is kept by every step holds at the end.
LEMMA TraceIsGood ==
  ASSUME NEW r, NEW top \in Nat, NEW guards, Good(r[0], guards, None),
         \A n \in 1..top : Good(r[n - 1], guards, None) => Good(r[n], guards, None)
  PROVE  Good(r[top], guards, None)
<1> DEFINE A == {n \in Nat : n <= top => Good(r[n], guards, None)}
<1>1. 0 \in A
  OBVIOUS
<1>2. ASSUME NEW n \in Nat, n \in A PROVE n + 1 \in A
  <2>1. n + 1 <= top => n + 1 \in 1..top /\ (n + 1) - 1 = n /\ n <= top
    OBVIOUS
  <2> QED
    BY <1>2, <2>1
<1> HIDE DEF A
<1>3. top \in A
  BY <1>1, <1>2, InductionOverNat
<1> QED
  BY <1>3 DEF A

-----------------------------------------------------------------------------
(* Calls and parameters *)

LEMMA EmptyForCallIsGood ==
  ASSUME NEW s, NEW r \in Registers, NEW guards, Good(s, guards, None)
  PROVE  Good(EmptyForCall(s, r), guards, None)
<1> DEFINE owner == s.occupancy[r]
<1>1. CASE owner = None \/ r \in CalleeSaved
  BY <1>1 DEF EmptyForCall
<1>2. CASE ~(owner = None \/ r \in CalleeSaved)
  <2>1. Fine(s) => owner \in Owners /\ owner # None
    BY <1>2 DEF Good, Facts
  <2>2. Good(Discard(s, owner), guards, None) /\ Good(Evict(s, owner), guards, None)
    <3> HIDE DEF owner
    <3> QED
      BY <2>1, DiscardIsGood, EvictedIsGood
  <2> QED
    BY <1>2, <2>2 DEF EmptyForCall
<1> QED
  BY <1>1, <1>2

LEMMA PrepareForCallIsGood ==
  ASSUME NEW s, NEW guards, Good(s, guards, None)
  PROVE  Good(PrepareForCall(s), guards, None)
<1> DEFINE P(f) == f = [n \in 0..Len(Pool) |-> IF n = 0 THEN s ELSE EmptyForCall(f[n - 1], Pool[n])]
           r == CHOOSE f : P(f)
<1>0. Len(Pool) \in Nat
  BY PoolFacts
<1>1. PICK t : Trace(t, "empty", s, 0, 0, 0, Len(Pool))
  BY <1>0, TraceExists
<1>2. P(t)
  <2>1. \A x, n : StepOf("empty", x, n, 0, 0, 0) = EmptyForCall(x, Pool[n])
    BY DEF StepOf
  <2>2. Stepwise(t, "empty", s, 0, 0, 0, Len(Pool))
    BY <1>1, TraceSteps
  <2>3. ASSUME NEW n \in 0..Len(Pool)
        PROVE  t[n] = IF n = 0 THEN s ELSE EmptyForCall(t[n - 1], Pool[n])
    BY <2>1, <2>2 DEF Stepwise
  <2> QED
    BY <2>2, <2>3 DEF Stepwise
<1>3. P(r)
  BY <1>2
<1>4. PrepareForCall(s) = r[Len(Pool)]
  BY DEF PrepareForCall
<1> HIDE DEF r
<1>5. r[0] = s /\ \A n \in 1..Len(Pool) : r[n] = EmptyForCall(r[n - 1], Pool[n])
  BY <1>3, PoolFacts
<1>6. \A n \in 1..Len(Pool) : Good(r[n - 1], guards, None) => Good(r[n], guards, None)
  BY <1>5, PoolFacts, EmptyForCallIsGood
<1>7. Good(r[Len(Pool)], guards, None)
  BY <1>0, <1>5, <1>6, TraceIsGood
<1> QED
  BY <1>4, <1>7

LEMMA EmitCallIsGood ==
  ASSUME NEW s, NEW arguments, NEW guards, Good(s, guards, None)
  PROVE  Good(EmitCall(s, arguments), guards, None)
<1> DEFINE t == Emit(PrepareForCall(s), Op1("call", Imm(arguments)))
           locked == t.locked \ {ParamRegisters[i] : i \in DOMAIN ParamRegisters}
<1>1. Good(t, guards, None)
  BY PrepareForCallIsGood, EmitIsGood
<1>2. EmitCall(s, arguments) = [t EXCEPT !.locked = locked]
  BY DEF EmitCall, ReleaseArgumentRegisters
<1> HIDE DEF t, locked
<1>3. Good([t EXCEPT !.locked = locked], guards, None)
  BY <1>1, OtherFieldsAreGood
<1> QED
  BY <1>2, <1>3

LEMMA FromRegisterIsGood ==
  ASSUME NEW s, NEW owner \in VRegs, NEW r, NEW guards, Good(s, guards, None)
  PROVE  Good(FromRegister(s, owner, r), guards, owner)
<1> DEFINE t == Prefer(Allocate(Prefer(s, r), owner), None)
<1>1. Good(t, guards, owner)
  BY OtherFieldsAreGood, AllocateForRegister
<1> HIDE DEF t
<1>2. Good(Load(t, Reg(r)), guards, owner)
  BY <1>1, ResultIsGood
<1> QED
  BY <1>1, <1>2 DEF FromRegister, t

LEMMA MaterialiseIsGood ==
  ASSUME NEW s, NEW v \in VRegs, NEW guards, Good(s, guards, None), s.val[v].kind # "unknown"
  PROVE  Good(Materialise(s, v), guards, v)
<1> DEFINE value == s.val[v]
           left == value.srcs[1]
           right == value.srcs[2]
<1>1. IsValue(value)
  BY DEF Good, Shape
<1>2. value.kind \in UnaryOps \cup BinaryOps => left \in VRegs
  BY <1>1 DEF IsValue
<1>3. value.kind \in BinaryOps => left \in VRegs /\ right \in VRegs
  BY <1>1 DEF IsValue
<1>4. value.kind \in {"mul", "div"} => ~Strict
  BY <1>1 DEF IsValue
<1> HIDE DEF value, left, right
<1>5. CASE value.kind \in {"int", "string"}
  BY <1>5, ResultForIsGood DEF Materialise, MaterialiseInteger, MaterialiseString, value
<1>6. CASE value.kind \in {"param", "call"}
  BY <1>6, FromRegisterIsGood, EmitCallIsGood DEF Materialise, MaterialiseParameter, MaterialiseCall, value
<1>7. CASE value.kind \in UnaryOps
  <2>1. left \in VRegs
    BY <1>2, <1>7
  <2>2. CASE value.kind \in {"copy", "AddressOf"}
    BY <2>1, <2>2, CopyIsGood DEF Materialise, value, left
  <2>3. CASE value.kind \in {"movsx", "movzx"}
    BY <2>1, <2>3, ExtensionIsGood DEF Materialise, value, left
  <2>4. CASE value.kind \in {"neg", "not"}
    <3>1. Good(MaterialiseNeg(s, v, left), guards, v) /\ Good(MaterialiseNot(s, v, left), guards, v)
      BY <2>1, AccumulateIsGood, ResultIsGood DEF MaterialiseNeg, MaterialiseNot
    <3> QED
      BY <2>4, <3>1 DEF Materialise, value, left
  <2> QED
    BY <1>7, <2>2, <2>3, <2>4 DEF UnaryOps
<1>8. CASE value.kind \in BinaryOps
  <2>1. left \in VRegs /\ right \in VRegs
    BY <1>3, <1>8
  <2>2. CASE value.kind \in {"add", "and", "or", "xor"}
    BY <2>1, <2>2, CombineIsGood
       DEF Materialise, MaterialiseAdd, MaterialiseAnd, MaterialiseOr, MaterialiseXor, value, left, right
  <2>3. CASE value.kind = "sub"
    BY <2>1, <2>3, SubIsGood DEF Materialise, value, left, right
  <2>4. CASE value.kind \in {"shl", "shr"}
    BY <2>1, <2>4, ShiftedIsGood
       DEF Materialise, MaterialiseLeftShift, MaterialiseRightShift, value, left, right
  <2>5. CASE value.kind \in {"mul", "div"}
    <3>1. /\ Good(MaterialiseMul(s, v, left, right), guards, v)
          /\ Good(MaterialiseDiv(s, v, left, right), guards, v)
      BY <1>4, <2>1, <2>5, ThroughRaxIsGood DEF MaterialiseMul, MaterialiseDiv
    <3> QED
      BY <2>5, <3>1 DEF Materialise, value, left, right
  <2> QED
    BY <1>8, <2>2, <2>3, <2>4, <2>5 DEF BinaryOps
<1>9. value.kind \in UnaryOps \cup BinaryOps \cup {"int", "string", "param", "call"}
  BY <1>1 DEF IsValue, Kinds, value
<1> QED
  BY <1>5, <1>6, <1>7, <1>8, <1>9

LEMMA ReloadSourcesIsGood ==
  ASSUME NEW s, NEW v \in VRegs, NEW guards, Good(s, guards, None)
  PROVE  Good(ReloadSources(s, v), guards, None)
<1> DEFINE sources == s.val[v].srcs
           kind == s.val[v].kind
           P(f) == f = [n \in 0..Len(sources) |->
                           IF n = 0 THEN s ELSE ReloadSource(f[n - 1], kind, sources[n])]
           r == CHOOSE f : P(f)
<1>1. Len(sources) \in Nat /\ \A n \in 1..Len(sources) : sources[n] \in VRegs
  BY DEF Good, Shape, IsValue
<1>2. PICK t : Trace(t, "reload", s, kind, sources, 0, Len(sources))
  BY <1>1, TraceExists
<1>3. P(t)
  <2>1. \A x, n : StepOf("reload", x, n, kind, sources, 0) = ReloadSource(x, kind, sources[n])
    BY DEF StepOf
  <2> HIDE DEF sources, kind
  <2>2. Stepwise(t, "reload", s, kind, sources, 0, Len(sources))
    BY <1>2, TraceSteps
  <2>3. ASSUME NEW n \in 0..Len(sources)
        PROVE  t[n] = IF n = 0 THEN s ELSE ReloadSource(t[n - 1], kind, sources[n])
    BY <2>1, <2>2 DEF Stepwise
  <2> QED
    BY <2>2, <2>3 DEF Stepwise
<1>4. P(r)
  BY <1>3
<1>5. ReloadSources(s, v) = r[Len(sources)]
  BY DEF ReloadSources, SourcesOf
<1> HIDE DEF r
<1>6. r[0] = s /\ \A n \in 1..Len(sources) : r[n] = ReloadSource(r[n - 1], kind, sources[n])
  <2> HIDE DEF sources, kind
  <2> QED
    BY <1>1, <1>4
<1> HIDE DEF sources, kind
<1>7. \A n \in 1..Len(sources) : Good(r[n - 1], guards, None) => Good(r[n], guards, None)
  BY <1>1, <1>6, ReloadIsGood DEF ReloadSource
<1> QED
  BY <1>1, <1>5, <1>6, <1>7, TraceIsGood

\* EnsureMaterialisation leaves nothing pending.
LEMMA EnsureIsGood ==
  ASSUME NEW s, NEW v \in VRegs, NEW guards, Good(s, guards, None)
  PROVE  Good(EnsureMaterialisation(s, v), guards, None)
<1> DEFINE t == ReloadSources(s, v)
           u == Produce(t, v)
           stored == Emit(u, Mov(Slot(v), Reg(u.reg)))
           discarded == Discard(stored, v)
           settled == [discarded EXCEPT !.evicted = discarded.evicted \cup {v}]
<1>1. Good(t, guards, None)
  BY ReloadSourcesIsGood
<1> HIDE DEF t
<1>2. Good(u, guards, v)
  BY <1>1, AllocateForRegister, MaterialiseIsGood DEF Produce
<1> HIDE DEF u
<1>3. Good(discarded, guards, None)
  BY <1>2, EmitIsGood, DiscardPendingIsGood
<1>4. Settle(u, v) = IF IsSpilled(u, v) THEN settled ELSE [u EXCEPT !.mat[v] = u.reg]
  BY DEF Settle
<1> HIDE DEF discarded
<1>5. Good(settled, guards, None) /\ Good([u EXCEPT !.mat[v] = u.reg], guards, None)
  BY <1>2, <1>3, OtherFieldsAreGood, AssignedIsGood
<1>6. Good(Settle(u, v), guards, None)
  BY <1>4, <1>5
<1> QED
  BY <1>6, ReloadIsGood DEF EnsureMaterialisation, t, u

-----------------------------------------------------------------------------
(* The handlers of arithmetic, copies, calls and jumps *)

LEMMA EnsureOperandIsGood ==
  ASSUME NEW s, NEW v \in VRegs, NEW guards, Good(s, guards, None)
  PROVE  Good(EnsureOperand(s, v), guards, None)
BY EnsureIsGood DEF EnsureOperand

LEMMA InstructionFacts ==
  ASSUME NEW i \in Instructions
  PROVE  /\ i.op \in Operations \cap Lowered /\ i.srcs \in Seq(VRegs)
         /\ i.op \in Defining => i.dst \in VRegs
         /\ i.op \in Operations1 => i.srcs[1] \in VRegs /\ Len(i.srcs) = 1
         /\ i.op \in Operations2 => i.srcs[1] \in VRegs /\ i.srcs[2] \in VRegs /\ Len(i.srcs) = 2
         /\ i.op \in {"mul", "div", "IndirectStore"} => ~Strict
<1>1. /\ i.op \in Operations \cap Lowered /\ i.srcs \in Seq(VRegs)
      /\ i.op \in Defining => i.dst \in VRegs
      /\ i.op \in Operations1 => Len(i.srcs) = 1
      /\ i.op \in Operations2 => Len(i.srcs) = 2
  BY DEF Instructions
<1> QED
  BY <1>1 DEF Strict

LEMMA LazilyIsGood ==
  ASSUME NEW s, NEW i \in Instructions, NEW guards, Good(s, guards, None),
         i.op \in BinaryOps \cup UnaryOps \cup {"int", "string"}
  PROVE  Good(Lazily(s, i), guards, None)
<1> DEFINE value == Value(i.op, i.n, i.srcs)
<1>1. i.dst \in VRegs
  BY InstructionFacts DEF Defining
<1>2. value.kind = i.op /\ value.srcs = i.srcs
  BY DEF Value
<1> HIDE DEF value
<1>3. IsValue(value)
  BY <1>2, InstructionFacts DEF IsValue, Kinds, Operations1, Operations2
<1>4. Good(Redefine(s, i.dst, value), guards, None)
  BY <1>1, <1>3, RedefineIsGood
<1> QED
  BY <1>1, <1>4, EnsureIsGood DEF Lazily, Eagerly, value

LEMMA UnspilledIsGood ==
  ASSUME NEW s, NEW vs, NEW guards, Good(s, guards, None)
  PROVE  Good(Unspilled(s, vs), guards, None)
<1>1. "Operands must not be spilled" # ""
  BY Zenon
<1> QED
  BY Zenon, <1>1, CheckIsGood DEF Unspilled

LEMMA EnsureOperandsIsGood ==
  ASSUME NEW s, NEW operands \in Seq(VRegs), NEW guards, Good(s, guards, None)
  PROVE  Good(EnsureOperands(s, operands), guards, None)
<1> DEFINE P(f) == f = [n \in 0..Len(operands) |->
                           IF n = 0 THEN s ELSE EnsureOperand(f[n - 1], operands[n])]
           r == CHOOSE f : P(f)
<1>0. Len(operands) \in Nat
  OBVIOUS
<1>1. \A n \in 1..Len(operands) : operands[n] \in VRegs
  OBVIOUS
<1>2. PICK t : Trace(t, "ensure", s, 0, operands, 0, Len(operands))
  BY <1>0, TraceExists
<1>3. P(t)
  <2>1. \A x, n : StepOf("ensure", x, n, 0, operands, 0) = EnsureOperand(x, operands[n])
    BY DEF StepOf
  <2>2. Stepwise(t, "ensure", s, 0, operands, 0, Len(operands))
    BY <1>2, TraceSteps
  <2>3. ASSUME NEW n \in 0..Len(operands)
        PROVE  t[n] = IF n = 0 THEN s ELSE EnsureOperand(t[n - 1], operands[n])
    BY <2>1, <2>2 DEF Stepwise
  <2> QED
    BY <2>2, <2>3 DEF Stepwise
<1>4. P(r)
  BY <1>3
<1>5. EnsureOperands(s, operands) = r[Len(operands)]
  BY DEF EnsureOperands
<1> HIDE DEF r
<1>6. r[0] = s /\ \A n \in 1..Len(operands) : r[n] = EnsureOperand(r[n - 1], operands[n])
  BY <1>0, <1>4
<1>7. \A n \in 1..Len(operands) : Good(r[n - 1], guards, None) => Good(r[n], guards, None)
  BY <1>1, <1>6, EnsureOperandIsGood
<1> QED
  BY <1>0, <1>5, <1>6, <1>7, TraceIsGood

LEMMA ArithmeticIsGood ==
  ASSUME NEW s, NEW i \in Instructions, NEW guards, Good(s, guards, None),
         i.op \in {"add", "sub", "mul", "div", "and", "or", "xor", "neg", "not"}
  PROVE  Good(Handle(s, i), guards, None)
<1>1. ASSUME NEW u, Good(u, guards, None), NEW operands \in Seq(VRegs)
      PROVE  Good(EncodeArithmetic(u, i, operands), guards, None)
  BY <1>1, EnsureOperandsIsGood, LazilyIsGood DEF EncodeArithmetic, BinaryOps, UnaryOps
<1>2. Good(EncodeArithmetic(OperandsUnspilled(s, i), i, i.srcs), guards, None)
  BY <1>1, UnspilledIsGood, InstructionFacts DEF OperandsUnspilled
<1>3. Good(EncodeArithmetic(s, i, i.srcs), guards, None)
  BY <1>1, InstructionFacts
<1>4. CASE i.op = "sub"
  <2>1. i.srcs[1] \in VRegs
    BY <1>4, InstructionFacts DEF Operations2, BinaryOps
  <2>2. (IF i.srcs[1] = i.srcs[2] THEN <<i.srcs[1]>> ELSE i.srcs) \in Seq(VRegs)
    BY <2>1, InstructionFacts
  <2>3. Good(EncodeSub(s, i), guards, None)
    BY <1>1, <2>2 DEF EncodeSub
  <2> QED
    BY <1>4, <2>3 DEF Handle
<1>5. Good(EncodeArithmetic(s, i, Reverse(i.srcs)), guards, None)
  <2>1. i.srcs \in Seq(VRegs)
    BY InstructionFacts
  <2>2. Reverse(i.srcs) \in Seq(VRegs)
    BY <2>1 DEF Reverse
  <2> QED
    BY <1>1, <2>2
<1> QED
  BY <1>2, <1>3, <1>4, <1>5
     DEF Handle, EncodeAdd, EncodeBinaryAnd, EncodeBinaryOr, EncodeBinaryXor, EncodeBitwiseNot,
         EncodeArithmeticNegate, EncodeMultiplication, EncodeDivision

LEMMA ShiftIsGood ==
  ASSUME NEW s, NEW i \in Instructions, NEW guards, Good(s, guards, None), i.op \in {"shl", "shr"}
  PROVE  Good(Handle(s, i), guards, None)
<1>1. i.srcs[1] \in VRegs /\ i.srcs[2] \in VRegs
  BY InstructionFacts DEF Operations2, BinaryOps
<1>2. ASSUME NEW u, Good(u, guards, None) PROVE Good(Count(u, i), guards, None)
  <2>1. Good(Prefer(u, Rcx), guards, None)
    BY <1>2, OtherFieldsAreGood
  <2>2. Good(EnsureMaterialisation(Prefer(u, Rcx), i.srcs[2]), guards, None)
    BY <1>1, <2>1, EnsureIsGood
  <2>3. Good(Prefer(EnsureMaterialisation(Prefer(u, Rcx), i.srcs[2]), None), guards, None)
    BY <2>2, OtherFieldsAreGood
  <2> QED
    BY <1>2, <2>3 DEF Count
<1>3. Good(OperandsUnspilled(s, i), guards, None)
  BY UnspilledIsGood DEF OperandsUnspilled
<1>4. Good(Count(EnsureOperand(Count(OperandsUnspilled(s, i), i), i.srcs[1]), i), guards, None)
  BY <1>1, <1>2, <1>3, EnsureOperandIsGood
<1>5. Good(EncodeShift(s, i), guards, None)
  BY <1>4, LazilyIsGood DEF EncodeShift, BinaryOps
<1> QED
  BY <1>5 DEF Handle, EncodeLeftShift, EncodeRightShift

\* A result computed on the way to a slot never stays in its register.
LEMMA FreePendingIsGood ==
  ASSUME NEW s, NEW v \in VRegs, NEW guards, Good(s, guards, v)
  PROVE  Good(FreeColour(s, v), guards, None)
<1>1. ASSUME Fine(s), Strict PROVE s.mat[v] = None
  BY <1>1 DEF Good, Agree
<1> QED
  BY <1>1, FreeColourIsGood, OwnerFacts

LEMMA ThroughScratchIsGood ==
  ASSUME NEW s, NEW i, i.dst \in VRegs, NEW operand, NEW guards, Good(s, guards, None)
  PROVE  Good(ThroughScratch(s, i, operand), guards, None)
<1> DEFINE t == OnResult(Allocate(s, i.dst), i.op, operand)
<1>1. Good(t, guards, i.dst)
  BY ResultForIsGood
<1> HIDE DEF t
<1>2. Good(Emit(t, Mov(Slot(i.dst), Reg(t.reg))), guards, i.dst)
  BY <1>1, EmitIsGood
<1>3. Good(FreeColour(Emit(t, Mov(Slot(i.dst), Reg(t.reg))), i.dst), guards, None)
  BY <1>2, FreePendingIsGood
<1> QED
  BY <1>3 DEF ThroughScratch, t

LEMMA EncodeExtensionIsGood ==
  ASSUME NEW s, NEW i \in Instructions, NEW guards, Good(s, guards, None), i.op \in {"movsx", "movzx"}
  PROVE  Good(Handle(s, i), guards, None)
<1> DEFINE source == i.srcs[1]
<1>1. source \in VRegs /\ i.dst \in VRegs
  BY InstructionFacts DEF Operations1, UnaryOps, Defining
<1> HIDE DEF source
<1>2. ASSUME NEW operand PROVE Good(ThroughScratch(s, i, operand), guards, None)
  BY <1>1, ThroughScratchIsGood
<1>3. Good(FromOperand(EnsureMaterialisation(s, source), i, source), guards, None)
  BY <1>1, EnsureIsGood, NeedsRegisterIsGood, ThroughScratchIsGood DEF FromOperand
<1>4. Good(ExtendToSlot(s, i, source), guards, None)
  BY <1>1, <1>2, <1>3, EmitIsGood, DereferenceIsGood DEF ExtendToSlot
<1>5. Good(Lazily(IF IsSpilled(s, source) THEN s ELSE EnsureOperand(s, source), i), guards, None)
  BY <1>1, EnsureOperandIsGood, LazilyIsGood DEF UnaryOps
<1>6. Good(EncodeExtension(s, i), guards, None)
  BY <1>4, <1>5 DEF EncodeExtension, source
<1> QED
  BY <1>6 DEF Handle, EncodeSignExtend, EncodeZeroExtend

LEMMA LoadIsGood ==
  ASSUME NEW s, NEW i \in Instructions, NEW guards, Good(s, guards, None),
         i.op \in {"int", "string", "AddressOf"}
  PROVE  Good(Handle(s, i), guards, None)
<1>1. i.dst \in VRegs
  BY InstructionFacts DEF Defining, UnaryOps
<1>2. CASE i.op = "int"
  <2> DEFINE t == Emit(s, Mov(Slot(i.dst), Imm(i.n)))
             evicted == t.evicted \cup {i.dst}
  <2>1. Good(t, guards, None)
    BY EmitIsGood
  <2>2. EncodeCopyInteger(s, i) = IF IsSpilled(s, i.dst) THEN [t EXCEPT !.evicted = evicted]
                                  ELSE Lazily(s, i)
    BY DEF EncodeCopyInteger
  <2> HIDE DEF t, evicted
  <2>3. Good([t EXCEPT !.evicted = evicted], guards, None)
    BY <2>1, OtherFieldsAreGood
  <2>4. Good(EncodeCopyInteger(s, i), guards, None)
    BY <1>2, <2>2, <2>3, LazilyIsGood
  <2> QED
    BY <1>2, <2>4 DEF Handle
<1>3. CASE i.op = "string"
  <2>1. Good(EncodeLoadStringAddress(s, i), guards, None)
    BY <1>3, UnspilledIsGood, LazilyIsGood DEF EncodeLoadStringAddress
  <2> QED
    BY <1>3, <2>1 DEF Handle
<1>4. CASE i.op = "AddressOf"
  <2> DEFINE value == Value("AddressOf", 0, i.srcs)
  <2>1. value.kind = "AddressOf" /\ value.srcs = i.srcs
    BY DEF Value
  <2> HIDE DEF value
  <2>2. IsValue(value)
    BY <1>4, <2>1, InstructionFacts DEF IsValue, Kinds, UnaryOps, BinaryOps, Operations1
  <2>3. Good(Redefine(Unspilled(s, {i.dst}), i.dst, value), guards, None)
    BY <1>1, <2>2, UnspilledIsGood, RedefineIsGood
  <2>4. Good(EncodeAddressOf(s, i), guards, None)
    BY <1>1, <2>3, EnsureIsGood DEF EncodeAddressOf, Eagerly, value
  <2> QED
    BY <1>4, <2>4 DEF Handle
<1> QED
  BY <1>2, <1>3, <1>4

LEMMA EncodeCopyIsGood ==
  ASSUME NEW s, NEW i \in Instructions, NEW guards, Good(s, guards, None), i.op = "copy"
  PROVE  Good(Handle(s, i), guards, None)
<1> DEFINE source == i.srcs[1]
           asMov == [i EXCEPT !.op = "mov"]
           value == Value("int", ImmediateOf(s, source), <<>>)
<1>1. source \in VRegs /\ i.dst \in VRegs
  BY InstructionFacts DEF Operations1, UnaryOps, Defining
<1>2. asMov.dst = i.dst
  BY DEF Instructions
<1>3. IsValue(value)
  BY DEF IsValue, Value, Kinds, UnaryOps, BinaryOps
<1> HIDE DEF source, asMov, value
<1>4. Good(ThroughScratch(s, asMov, Slot(source)), guards, None)
  BY <1>1, <1>2, ThroughScratchIsGood
<1>5. Good(StoreRegister(EnsureMaterialisation(s, source), i.dst, source), guards, None)
  BY <1>1, EnsureIsGood, NeedsRegisterIsGood, EmitIsGood DEF StoreRegister
<1>6. Good(CopyToSlot(s, i, source), guards, None)
  BY <1>1, <1>4, <1>5, EmitIsGood, DereferenceIsGood DEF CopyToSlot, asMov
<1>7. Good(CopyToRegister(s, i, source), guards, None)
  <2>1. Good(DereferenceAndMaybeFree(Redefine(s, i.dst, value), source), guards, None)
    BY <1>1, <1>3, RedefineIsGood, DereferenceIsGood
  <2>2. Good(Lazily(IF IsSpilled(s, source) THEN s ELSE EnsureMaterialisation(s, source), i), guards, None)
    BY <1>1, EnsureIsGood, LazilyIsGood DEF UnaryOps
  <2> QED
    BY <1>1, <2>1, <2>2, EnsureIsGood DEF CopyToRegister, Eagerly, value
<1> QED
  BY <1>6, <1>7 DEF Handle, EncodeCopy, source

LEMMA CopyParameterIsGood ==
  ASSUME NEW s, NEW i \in Instructions, NEW guards, Good(s, guards, None), i.op = "CopyParameter"
  PROVE  Good(Handle(s, i), guards, None)
<1> DEFINE abi == ParamRegisters[i.n]
           value == Value("param", i.n, <<>>)
           t == Emit(s, Mov(Slot(i.dst), Reg(abi)))
           u == Redefine(s, i.dst, value)
           unlocked == t.locked \ {abi}
           opened == u.locked \ {abi}
<1>1. i.dst \in VRegs
  BY InstructionFacts DEF Defining
<1>2. IsValue(value)
  BY DEF IsValue, Value, Kinds, UnaryOps, BinaryOps
<1> HIDE DEF value
<1>3. Good(t, guards, None) /\ Good(u, guards, None)
  BY <1>1, <1>2, EmitIsGood, RedefineIsGood
<1>4. EncodeCopyParameter(s, i) =
          IF IsSpilled(s, i.dst) THEN [t EXCEPT !.locked = unlocked]
          ELSE EnsureMaterialisation([u EXCEPT !.locked = opened], i.dst)
  BY DEF EncodeCopyParameter, value
<1> HIDE DEF t, u, unlocked, opened
<1>5. Good([t EXCEPT !.locked = unlocked], guards, None) /\ Good([u EXCEPT !.locked = opened], guards, None)
  BY <1>3, OtherFieldsAreGood
<1>6. Good(EnsureMaterialisation([u EXCEPT !.locked = opened], i.dst), guards, None)
  BY <1>1, <1>5, EnsureIsGood
<1>7. Good(EncodeCopyParameter(s, i), guards, None)
  BY <1>4, <1>5, <1>6
<1> QED
  BY <1>7 DEF Handle

LEMMA PassOnStackIsGood ==
  ASSUME NEW s, NEW source \in VRegs, NEW index, NEW guards, Good(s, guards, None)
  PROVE  Good(PassOnStack(s, source, index), guards, None)
<1>1. Good(PassScratch(s, source, index), guards, None)
  <2> DEFINE t == Load(Allocate(s, source), Slot(source))
             u == Emit(t, Mov(OutSlot(index), Reg(t.reg)))
  <2>1. Good(t, guards, source)
    BY ResultForIsGood
  <2> HIDE DEF t
  <2>2. Good(u, guards, source)
    BY <2>1, EmitIsGood
  <2> HIDE DEF u
  <2>3. Good(ConsumeUse(FreeColour(u, source), source), guards, None)
    BY <2>2, FreePendingIsGood, ConsumeUseIsGood
  <2> QED
    BY <2>3 DEF PassScratch, t, u
<1>2. Good(PassFromRegister(EnsureMaterialisation(s, source), source, index), guards, None)
  BY EnsureIsGood, NeedsRegisterIsGood, EmitIsGood, DereferenceIsGood DEF PassFromRegister
<1>3. ASSUME NEW operand PROVE Good(ConsumeUse(Emit(s, operand), source), guards, None)
  BY EmitIsGood, ConsumeUseIsGood
<1> QED
  BY <1>1, <1>2, <1>3 DEF PassOnStack

LEMMA PassInRegisterIsGood ==
  ASSUME NEW s, NEW source \in VRegs, NEW abi \in Registers, NEW guards, Good(s, guards, None)
  PROVE  Good(PassInRegister(s, source, abi), guards, None)
<1>1. ASSUME NEW operand PROVE Good(PassOperand(s, source, abi, operand), guards, None)
  BY ClearRegisterIsGood, EmitIsGood, ConsumeUseIsGood DEF PassOperand
<1> DEFINE t == ConsumeUse(NeedsRegister(EnsureMaterialisation(s, source), source), source)
<1>2. Good(t, guards, None)
  BY EnsureIsGood, ConsumedIsGood
<1> HIDE DEF t
<1>3. Good(MoveArgument(t, source, abi), guards, None)
  BY <1>2, ClearRegisterIsGood, ReleaseIfUnusedIsGood, EmitIsGood DEF MoveArgument
<1> QED
  BY <1>1, <1>3 DEF PassInRegister, t

LEMMA PassArgumentIsGood ==
  ASSUME NEW s, NEW i \in Instructions, NEW guards, Good(s, guards, None), i.op = "PassArgument"
  PROVE  Good(Handle(s, i), guards, None)
<1>1. i.srcs[1] \in VRegs
  BY InstructionFacts DEF Operations1
<1>2. CASE i.n \notin DOMAIN ParamRegisters
  <2>1. Good(EncodePassArgument(s, i), guards, None)
    BY <1>1, <1>2, PassOnStackIsGood DEF EncodePassArgument
  <2> QED
    BY <2>1 DEF Handle
<1>3. CASE i.n \in DOMAIN ParamRegisters
  <2> DEFINE abi == ParamRegisters[i.n]
             locked == s.locked \cup {abi}
             t == [s EXCEPT !.locked = locked]
  <2>1. abi \in Registers
    BY <1>3, PoolAssumption
  <2>2. EncodePassArgument(s, i) = PassInRegister(t, i.srcs[1], abi)
    BY <1>3 DEF EncodePassArgument
  <2> HIDE DEF abi, locked
  <2>3. Good(t, guards, None)
    BY OtherFieldsAreGood
  <2> HIDE DEF t
  <2>4. Good(EncodePassArgument(s, i), guards, None)
    BY <1>1, <2>1, <2>2, <2>3, PassInRegisterIsGood
  <2> QED
    BY <2>4 DEF Handle
<1> QED
  BY <1>2, <1>3

LEMMA CallIsGood ==
  ASSUME NEW s, NEW i \in Instructions, NEW guards, Good(s, guards, None),
         i.op \in {"Call", "CallWithResult"}
  PROVE  Good(Handle(s, i), guards, None)
<1>1. CASE i.op = "Call"
  <2>1. Good(EncodeCall(s, i), guards, None)
    BY EmitCallIsGood DEF EncodeCall
  <2> QED
    BY <1>1, <2>1 DEF Handle
<1>2. CASE i.op = "CallWithResult"
  <2> DEFINE value == Value("call", i.n, <<>>)
             t == Redefine(s, i.dst, value)
  <2>1. i.dst \in VRegs
    BY <1>2, InstructionFacts DEF Defining
  <2>2. IsValue(value)
    BY DEF IsValue, Value, Kinds, UnaryOps, BinaryOps
  <2> HIDE DEF value
  <2>3. Good(t, guards, None)
    BY <2>1, <2>2, RedefineIsGood
  <2> HIDE DEF t
  <2>4. Good(Emit(EmitCall(t, i.n), Mov(Slot(i.dst), Reg(Rax))), guards, None)
    BY <2>3, EmitCallIsGood, EmitIsGood
  <2>5. Good(EnsureMaterialisation(t, i.dst), guards, None)
    BY <2>1, <2>3, EnsureIsGood
  <2>6. Good(EncodeCallWithResult(s, i), guards, None)
    BY <2>4, <2>5 DEF EncodeCallWithResult, t, value
  <2> QED
    BY <1>2, <2>6 DEF Handle
<1> QED
  BY <1>1, <1>2

LEMMA ReturnIsGood ==
  ASSUME NEW s, NEW i \in Instructions, NEW guards, Good(s, guards, None), i.op = "Return"
  PROVE  Good(Handle(s, i), guards, None)
<1>1. ASSUME NEW v \in VRegs PROVE Good(ReturnValue(s, v), guards, None)
  <2> DEFINE t == Prefer(EnsureMaterialisation(Prefer(s, Rax), v), None)
  <2>1. Good(Prefer(s, Rax), guards, None)
    BY OtherFieldsAreGood
  <2>2. Good(t, guards, None)
    BY <2>1, EnsureIsGood, OtherFieldsAreGood
  <2> HIDE DEF t
  <2>3. Good(MoveToRax(t, v), guards, None)
    BY <2>2, NeedsRegisterIsGood, EmitIsGood DEF MoveToRax
  <2> QED
    BY <2>3, EmitIsGood, DereferenceIsGood DEF ReturnValue, t
<1>2. i.srcs # <<>> => i.srcs[1] \in VRegs
  BY InstructionFacts
<1>3. Good(EncodeReturn(s, i), guards, None)
  BY <1>1, <1>2, EmitIsGood DEF EncodeReturn
<1> QED
  BY <1>3 DEF Handle

LEMMA CompareAndJumpIsGood ==
  ASSUME NEW s, NEW i \in Instructions, NEW guards, Good(s, guards, None), i.op = "CompareAndJump"
  PROVE  Good(Handle(s, i), guards, None)
<1> DEFINE left == i.srcs[1]
           right == i.srcs[2]
           t == EnsureOperand(EnsureMaterialisation(s, left), right)
           u == NeedsRegister(SourceReady(t, right), left)
           cmp == Op2("cmp", Reg(PhysicalRegisterOf(t, left)), SourceOperand(t, right))
<1>1. left \in VRegs /\ right \in VRegs
  BY InstructionFacts DEF Operations2
<1>2. EncodeCompareAndJump(s, i) = Compare(t, left, right)
  BY DEF EncodeCompareAndJump
<1> HIDE DEF left, right
<1>3. Good(t, guards, None)
  BY <1>1, EnsureIsGood, EnsureOperandIsGood
<1> HIDE DEF t
<1>4. Good(u, guards, None)
  BY <1>3, SourceReadyIsGood, NeedsRegisterIsGood
<1>5. Compare(t, left, right) =
          DereferenceAndMaybeFree(DereferenceAndMaybeFree(Emit(u, cmp), left), right)
  BY DEF Compare
<1> HIDE DEF u, cmp
<1>6. Good(Compare(t, left, right), guards, None)
  BY <1>1, <1>4, <1>5, EmitIsGood, DereferenceIsGood
<1> QED
  BY <1>2, <1>6 DEF Handle

-----------------------------------------------------------------------------
(* Blocks of memory and pointers *)

LEMMA CursorIsGood ==
  ASSUME NEW s, NEW location, NEW disposable, Good(s, Guards, None)
  PROVE  Good(Cursor(s, location, disposable), Guards, None)
<1>1. Good([s EXCEPT !.reg = location.of], Guards, None)
  BY RegIsGood
<1>2. Good(OnResult(NewScratch(s), "lea", location), Guards, None)
  BY NewScratchIsGood, ResultIsGood
<1> QED
  BY <1>1, <1>2 DEF Cursor

LEMMA EmitMemoryBlockIsGood ==
  ASSUME NEW s, NEW to, NEW toDisposable, NEW from, NEW fromDisposable, NEW temporary, NEW size,
         Good(s, Guards, None)
  PROVE  Good(EmitMemoryBlock(s, to, toDisposable, from, fromDisposable, temporary, size), Guards, None)
<1>1. CASE Unrolls(size)
  <2> DEFINE code == s.code \o MoveAll(to, from, temporary, PlanTail(0, size))
  <2>1. EmitMemoryBlock(s, to, toDisposable, from, fromDisposable, temporary, size) =
            [s EXCEPT !.code = code]
    BY <1>1 DEF EmitMemoryBlock
  <2> HIDE DEF code
  <2>2. Good([s EXCEPT !.code = code], Guards, None)
    BY OtherFieldsAreGood
  <2> QED
    BY <2>1, <2>2
<1>2. CASE ~Unrolls(size)
  <2>1. ASSUME NEW t, NEW cursor, Good(t, Guards, None)
        PROVE  Good(WithCounter(t, cursor, temporary, size), Guards, None)
    <3> DEFINE u == NewScratch(t)
               code == u.code \o LoopCode(cursor, t.reg, temporary, u.reg, size)
    <3>1. WithCounter(t, cursor, temporary, size) = [u EXCEPT !.code = code]
      BY DEF WithCounter, LoopedThrough
    <3>2. Good(u, Guards, None)
      BY <2>1, NewScratchIsGood
    <3> HIDE DEF u, code
    <3>3. Good([u EXCEPT !.code = code], Guards, None)
      BY <3>2, OtherFieldsAreGood
    <3> QED
      BY <3>1, <3>3
  <2>2. Good(FromCursor(Cursor(s, to, toDisposable), from, fromDisposable, temporary, size), Guards, None)
    BY <2>1, CursorIsGood DEF FromCursor
  <2> QED
    BY <1>2, <2>2 DEF EmitMemoryBlock
<1> QED
  BY <1>1, <1>2

LEMMA EmitMemoryCopyIsGood ==
  ASSUME NEW s, NEW to, NEW toDisposable, NEW from, NEW fromDisposable, NEW size,
         Good(s, Guards, None)
  PROVE  Good(EmitMemoryCopy(s, to, toDisposable, from, fromDisposable, size), Guards, None)
BY NewScratchIsGood, EmitMemoryBlockIsGood DEF EmitMemoryCopy, ThroughTemporary

LEMMA BlockOfMemoryIsGood ==
  ASSUME NEW s, NEW i \in Instructions, Good(s, {}, None), i.op \in {"ZeroMemory", "CopyFromData"}
  PROVE  Good(Handle(s, i), {}, None)
<1>1. Good(s, Guards, None)
  BY MoreGuards
<1>2. Good(DestroyGuards(EmitMemoryZero(s, Slot(i.dst), i.n)), {}, None)
  BY <1>1, EmitMemoryBlockIsGood, DestroyGuardsIsGood DEF EmitMemoryZero
<1>3. Good(OnResult(NewScratch(s), "lea", Data), Guards, None)
  BY <1>1, NewScratchIsGood, ResultIsGood
<1>4. Good(DestroyGuards(CopyThrough(OnResult(NewScratch(s), "lea", Data), i)), {}, None)
  BY <1>3, EmitMemoryCopyIsGood, DestroyGuardsIsGood DEF CopyThrough
<1>5. Good(EncodeZeroMemory(s, i), {}, None) /\ Good(EncodeCopyFromData(s, i), {}, None)
  BY <1>2, <1>4 DEF EncodeZeroMemory, EncodeCopyFromData
<1> QED
  BY <1>5 DEF Handle

\* A scratch register holds the address or the value.
Scratch(s) == Good(s, Guards, None) /\ (Fine(s) => s.reg \in Registers /\ s.occupancy[s.reg] \in Guards)

LEMMA LoadedIsScratch ==
  ASSUME NEW s, NEW operand, Scratch(s)
  PROVE  Scratch(Load(s, operand))
<1> DEFINE t == Load(s, operand)
<1>1. t.err = s.err /\ t.reg = s.reg /\ t.occupancy = s.occupancy
  BY DEF Load, OnResult, Emit, Scratch, Good, Shape, Fields
<1>2. Good(t, Guards, None)
  BY ResultIsGood DEF Scratch
<1> HIDE DEF t
<1>3. Fine(t) <=> Fine(s)
  BY <1>1, FineStays
<1>4. Scratch(t)
  BY <1>1, <1>2, <1>3 DEF Scratch
<1> QED
  BY <1>4 DEF t

LEMMA NewScratchIsScratch ==
  ASSUME NEW s, Good(s, Guards, None)
  PROVE  Scratch(NewScratch(s))
BY NewScratchIsGood DEF Scratch

LEMMA AcquirePointerIsGood ==
  ASSUME NEW s, NEW source \in VRegs, NEW disposable, Good(s, Guards, None)
  PROVE  LET t == AcquirePointer(s, source, disposable)
         IN  Good(t, Guards, None) /\ (Fine(t) => t.reg \in Registers)
<1>1. ASSUME NEW operand
      PROVE  /\ Good(Load(NewScratch(s), operand), Guards, None)
             /\ Fine(Load(NewScratch(s), operand)) => Load(NewScratch(s), operand).reg \in Registers
  BY NewScratchIsScratch, LoadedIsScratch DEF Scratch
<1> DEFINE u == EnsureMaterialisation(s, source)
           c == NeedsRegister(u, source)
           t == [c EXCEPT !.reg = c.mat[source]]
<1>2. Good(u, Guards, None)
  BY EnsureIsGood
<1> HIDE DEF u
<1>3. Good(c, Guards, None) /\ (Fine(c) => IsMaterialised(c, source))
  BY <1>2, NeedsRegisterIsGood
<1> HIDE DEF c
<1>4. Good(TakePointer(c, source), Guards, None) /\
      (Fine(TakePointer(c, source)) => TakePointer(c, source).reg \in Registers)
  BY <1>3, TakePointerIsGood
<1>5. Good(t, Guards, None) /\ t.err = c.err /\ t.reg = c.mat[source]
  BY <1>3, RegIsGood DEF Good, Shape, Fields
<1>6. Fine(t) => t.reg \in Registers
  BY <1>3, <1>5, FineStays DEF Good, Facts, IsMaterialised
<1>7. PointerInRegister(c, source, disposable) = IF disposable THEN TakePointer(c, source) ELSE t
  BY DEF PointerInRegister, PhysicalRegisterOf
<1> HIDE DEF t
<1>8. /\ Good(PointerInRegister(c, source, disposable), Guards, None)
      /\ Fine(PointerInRegister(c, source, disposable)) =>
            PointerInRegister(c, source, disposable).reg \in Registers
  BY <1>4, <1>5, <1>6, <1>7
<1> QED
  BY <1>1, <1>8 DEF AcquirePointer, u, c

LEMMA RedefineFields ==
  ASSUME NEW s, NEW v, NEW value, Shape(s)
  PROVE  LET t == Redefine(s, v, value)
         IN  /\ DOMAIN t = Fields /\ t.err = s.err /\ t.reg = s.reg
             /\ t.colour = IF IsMaterialised(s, v) THEN FreeColour(s, v).colour ELSE s.colour
<1> DEFINE d == Discard(s, v)
           u == ReleaseRegister(s, v)
<1>1. DOMAIN d = Fields /\ d.err = s.err /\ d.reg = s.reg /\ d.colour = FreeColour(s, v).colour
  BY DiscardFields
<1>2. u = IF IsMaterialised(s, v) THEN [d EXCEPT !.evicted = @ \ {v}] ELSE [s EXCEPT !.evicted = @ \ {v}]
  BY DEF ReleaseRegister
<1> HIDE DEF d
<1>3. /\ DOMAIN u = Fields /\ u.err = s.err /\ u.reg = s.reg
      /\ u.colour = IF IsMaterialised(s, v) THEN FreeColour(s, v).colour ELSE s.colour
  BY <1>1, <1>2 DEF Shape, Fields
<1> HIDE DEF u
<1> QED
  BY <1>3 DEF Redefine, Fields, u

\* The scratch register is committed to the destination.
LEMMA CommitToIsGood ==
  ASSUME NEW s, NEW v \in VRegs, Scratch(s)
  PROVE  Good(CommitTo(s, v), Guards, None)
<1> DEFINE g == s.occupancy[s.reg]
           c == Redefine(s, v, Unknown)
           u == Reassign(c, g, v)
           t == [u EXCEPT !.mat[v] = s.reg]
<1>1. CommitTo(s, v) = t
  BY DEF CommitTo
<1>2. IsValue(Unknown)
  BY DEF IsValue, Unknown, Kinds, UnaryOps, BinaryOps
<1>3. /\ Good(c, Guards, None) /\ c.err = s.err
      /\ c.colour = IF IsMaterialised(s, v) THEN FreeColour(s, v).colour ELSE s.colour
  BY <1>2, RedefineIsGood, RedefineFields DEF Scratch, Good
<1>4. ASSUME Fine(s) PROVE g \in Guards /\ g \in Owners /\ s.colour[g] = s.reg /\ s.reg \in Registers
  BY <1>4, OwnerFacts DEF Scratch, Good, Facts, OneOwner
<1>5. ASSUME Fine(s) PROVE c.colour[g] = s.reg
  <2>1. FreeColour(s, v).colour = [s.colour EXCEPT ![v] = None]
    BY <1>5, FreeColourMaps, OwnerFacts DEF Scratch, Good
  <2>2. s.colour \in [Owners -> Registers \cup {None}] /\ g # v
    BY <1>4, <1>5, OwnerFacts DEF Scratch, Good, Facts
  <2> HIDE DEF g, c
  <2> QED
    BY <1>3, <1>4, <1>5, <2>1, <2>2
<1> HIDE DEF g, c
<1>6. Reassigned(u, c, g, v)
  BY <1>3, ReassignFields DEF Good
<1>7. ASSUME Fine(u) PROVE Facts(u, Guards) /\ Fine(c) /\ Fine(s)
  <2>1. Fine(c) /\ Fine(s)
    BY <1>3, <1>6, <1>7, FineStays DEF Reassigned
  <2>2. Shape(c) /\ Facts(c, Guards)
    BY <1>3, <2>1 DEF Good
  <2> QED
    BY <1>4, <1>7, <2>1, <2>2, ReassignMaps, OwnerFacts
<1> HIDE DEF u
<1>8. /\ DOMAIN t = Fields /\ t.err = u.err /\ t.val = u.val /\ t.mat = [u.mat EXCEPT ![v] = s.reg]
      /\ t.evictable = u.evictable /\ t.uses = u.uses /\ t.sites = u.sites
      /\ t.occupancy = u.occupancy /\ t.colour = u.colour
  BY <1>6 DEF Reassigned, Fields
<1>9. Fine(t) <=> Fine(u)
  BY <1>8, FineStays
<1> HIDE DEF t
<1>10. Shape(t)
  BY <1>3, <1>6, <1>8 DEF Good, Shape, Reassigned
<1>11. ASSUME Fine(u) PROVE Facts(t, Guards) /\ (Strict => Agree(t, None))
  <2>1. s.reg \in Registers /\ u.mat \in [VRegs -> Registers \cup {None}]
    BY <1>4, <1>7, <1>11 DEF Facts
  <2>2. t.mat \in [VRegs -> Registers \cup {None}]
    BY <1>8, <2>1
  <2>3. Facts(t, Guards)
    BY <1>7, <1>8, <1>11, <2>2 DEF Facts, OneOwner, Sited
  <2>4. ASSUME Strict PROVE Agree(t, None)
    <3>1. /\ c.colour \in [Owners -> Registers \cup {None}] /\ c.colour[g] = s.reg
          /\ \A w \in VRegs : c.mat[w] = c.colour[w]
      BY <1>3, <1>5, <1>7, <1>11, <2>4, OwnerFacts DEF Good, Facts, Agree
    <3>2. u.mat = c.mat /\ u.colour = [[c.colour EXCEPT ![v] = c.colour[g]] EXCEPT ![g] = None]
      BY <1>6, <1>11 DEF Reassigned
    <3>3. g \in Owners /\ v \in Owners /\ g \notin VRegs
      BY <1>4, <1>7, <1>11, OwnerFacts
    <3> QED
      BY <1>8, <2>1, <3>1, <3>2, <3>3, OwnerFacts DEF Agree
  <2> QED
    BY <2>3, <2>4
<1>12. Good(t, Guards, None)
  BY <1>9, <1>10, <1>11, OwnerFacts DEF Good
<1> QED
  BY <1>1, <1>12

LEMMA IndirectionIsGood ==
  ASSUME NEW s, NEW i \in Instructions, Good(s, {}, None), i.op = "Indirection"
  PROVE  Good(Handle(s, i), {}, None)
<1> DEFINE source == i.srcs[1]
           disposable == source # i.dst /\ ~IsMutable(source) /\ s.uses[source] = 1
           t == AcquirePointer(s, source, disposable)
<1>1. source \in VRegs /\ i.dst \in VRegs /\ Good(s, Guards, None)
  BY InstructionFacts, MoreGuards DEF Operations1, Defining
<1>2. EncodeIndirection(s, i) = DestroyGuards(DereferenceAndMaybeFree(ThroughPointer(t, i.dst), source))
  BY DEF EncodeIndirection, IndirectFrom
<1> HIDE DEF source, disposable
<1>3. Good(t, Guards, None) /\ (Fine(t) => t.reg \in Registers)
  BY <1>1, AcquirePointerIsGood
<1> HIDE DEF t
<1>4. IsValue(Unknown)
  BY DEF IsValue, Unknown, Kinds, UnaryOps, BinaryOps
<1>5. Good(CopyObject(t, i.dst), Guards, None)
  BY <1>1, <1>3, <1>4, EmitMemoryCopyIsGood, RedefineIsGood DEF CopyObject
<1>6. Scratch(ValueThrough(t, t.reg))
  <2>1. CASE IsGuarded(t, t.reg)
    <3>1. Scratch(t)
      BY <1>3, <2>1 DEF Scratch, IsGuarded
    <3> QED
      BY <2>1, <3>1, LoadedIsScratch DEF ValueThrough
  <2>2. CASE ~IsGuarded(t, t.reg)
    <3>1. Scratch(NewScratch(t))
      BY <1>3, NewScratchIsScratch
    <3> QED
      BY <2>2, <3>1, LoadedIsScratch DEF ValueThrough
  <2> QED
    BY <2>1, <2>2
<1> DEFINE u == ValueThrough(t, t.reg)
           r == Redefine(Emit(u, Mov(Slot(i.dst), Reg(u.reg))), i.dst, Unknown)
           evicted == r.evicted \cup {i.dst}
<1> HIDE DEF u
<1>7. Good(StoreTo(u, i.dst), Guards, None)
  <2>1. Good(r, Guards, None)
    BY <1>1, <1>4, <1>6, EmitIsGood, RedefineIsGood DEF Scratch, u
  <2>2. StoreTo(u, i.dst) = [r EXCEPT !.evicted = evicted]
    BY DEF StoreTo
  <2> HIDE DEF r, evicted
  <2>3. Good([r EXCEPT !.evicted = evicted], Guards, None)
    BY <2>1, OtherFieldsAreGood
  <2> QED
    BY <2>2, <2>3
<1>8. Good(CommitTo(u, i.dst), Guards, None)
  BY <1>1, <1>6, CommitToIsGood DEF u
<1>9. Good(ThroughPointer(t, i.dst), Guards, None)
  BY <1>5, <1>7, <1>8 DEF ThroughPointer, Indirect, u
<1>10. Good(EncodeIndirection(s, i), {}, None)
  BY <1>1, <1>2, <1>9, DereferenceIsGood, DestroyGuardsIsGood
<1> QED
  BY <1>10 DEF Handle

LEMMA IndirectStoreIsGood ==
  ASSUME NEW s, NEW i \in Instructions, Good(s, {}, None), i.op = "IndirectStore"
  PROVE  Good(Handle(s, i), {}, None)
<1> DEFINE pointer == i.srcs[1]
           source == i.srcs[2]
           t == Take(EnsureMaterialisation(s, pointer), pointer)
<1>1. pointer \in VRegs /\ source \in VRegs /\ ~Strict /\ Good(s, Guards, None)
  BY InstructionFacts, MoreGuards DEF Operations2
<1>2. EncodeIndirectStore(s, i) =
          DestroyGuards(DereferenceAndMaybeFree(DereferenceAndMaybeFree(
              StoreFrom(t, source), pointer), source))
  BY DEF EncodeIndirectStore
<1> HIDE DEF pointer, source
<1>3. Good(t, Guards, None)
  BY <1>1, EnsureIsGood, TakeIsGood
<1> HIDE DEF t
<1>4. Good(StoreObject(t, t.reg, source), Guards, None)
  BY <1>3, EmitMemoryCopyIsGood DEF StoreObject
<1>5. Good(StoreValue(t, t.reg, source), Guards, None)
  <2>1. Good(Take(EnsureMaterialisation(t, source), source), Guards, None)
    BY <1>1, <1>3, EnsureIsGood, TakeIsGood
  <2> QED
    BY <2>1, EmitIsGood DEF StoreValue, StoreThrough
<1>6. Good(StoreFrom(t, source), Guards, None)
  BY <1>4, <1>5 DEF StoreFrom
<1>7. Good(EncodeIndirectStore(s, i), {}, None)
  BY <1>1, <1>2, <1>6, DereferenceIsGood, DestroyGuardsIsGood
<1> QED
  BY <1>7 DEF Handle

\* Every handler.
LEMMA HandleIsGood ==
  ASSUME NEW s, NEW i \in Instructions, Good(s, {}, None)
  PROVE  Good(Handle(s, i), {}, None)
<1>1. i.op \in Operations
  BY InstructionFacts
<1>2. CASE i.op \in BinaryOps
  BY <1>2, ArithmeticIsGood, ShiftIsGood DEF BinaryOps
<1>3. CASE i.op \in UnaryOps
  BY <1>3, ArithmeticIsGood, EncodeCopyIsGood, EncodeExtensionIsGood, LoadIsGood DEF UnaryOps
<1>4. CASE i.op \in {"CompareAndJump", "IndirectStore", "Indirection", "PassArgument"}
  BY <1>4, CompareAndJumpIsGood, IndirectStoreIsGood, IndirectionIsGood, PassArgumentIsGood
<1>5. CASE i.op \in {"int", "string", "ZeroMemory", "CopyFromData"}
  BY <1>5, LoadIsGood, BlockOfMemoryIsGood
<1>6. CASE i.op \in {"CopyParameter", "CallWithResult", "Call", "Return"}
  BY <1>6, CopyParameterIsGood, CallIsGood, ReturnIsGood
<1>7. CASE i.op \in {"Label", "UnconditionalJump"}
  BY <1>7 DEF Handle
<1> QED
  BY <1>1, <1>2, <1>3, <1>4, <1>5, <1>6, <1>7 DEF Operations, Operations1, Operations2, Defining

-----------------------------------------------------------------------------
(* EncodeSingle and FlushLiveOut *)

\* Between instructions no guard holds a register, so the owners are virtual registers.
LEMMA OwnersBetween ==
  ASSUME NEW s, Good(s, {}, None), Fine(s), NEW r \in Registers, s.occupancy[r] # None
  PROVE  s.occupancy[r] \in VRegs
<1>1. s.occupancy[r] \in Owners /\ s.colour[s.occupancy[r]] = r
  BY DEF Good, Facts, OneOwner
<1>2. s.occupancy[r] \notin Guards
  BY <1>1, OwnerFacts DEF Good, Facts
<1> QED
  BY <1>1, <1>2 DEF Owners

LEMMA BeginIsGood ==
  ASSUME NEW s, NEW required, NEW kept, Good(s, {}, None)
  PROVE  Good(Begin(s, required, kept), {}, None)
<1> DEFINE t == Begin(s, required, kept)
<1>1. /\ DOMAIN t = Fields /\ t.err = s.err
      /\ t.occupancy = s.occupancy /\ t.colour = s.colour /\ t.mat = s.mat /\ t.val = s.val
      /\ t.evictable = (Owned(s) \ required) \ kept /\ t.uses = s.uses /\ t.sites = s.sites
      /\ t.reg = s.reg
  BY DEF Begin, Good, Shape, Fields
<1>2. Fine(t) <=> Fine(s)
  BY <1>1, FineStays
<1>3. ASSUME Fine(s) PROVE Owned(s) \subseteq VRegs
  BY <1>3, OwnersBetween DEF Owned
<1> HIDE DEF t
<1>4. Good(t, {}, None)
  BY <1>1, <1>2, <1>3 DEF Good, Shape, Facts, OneOwner, Sited, Agree
<1> QED
  BY <1>4 DEF t

LEMMA MakeRoomIsGood ==
  ASSUME NEW s, NEW needed, NEW guards, Good(s, guards, None)
  PROVE  Good(MakeRoom(s, needed), guards, None)
<1> DEFINE P(f) == f = [n \in 0..Len(Pool) |-> IF n = 0 THEN s ELSE MakeOneRoom(f[n - 1], needed)]
           r == CHOOSE f : P(f)
<1>0. Len(Pool) \in Nat
  BY PoolFacts
<1>1. PICK t : Trace(t, "make", s, needed, 0, 0, Len(Pool))
  BY <1>0, TraceExists
<1>2. P(t)
  <2>1. \A x, n : StepOf("make", x, n, needed, 0, 0) = MakeOneRoom(x, needed)
    BY DEF StepOf
  <2>2. Stepwise(t, "make", s, needed, 0, 0, Len(Pool))
    BY <1>1, TraceSteps
  <2>3. ASSUME NEW n \in 0..Len(Pool)
        PROVE  t[n] = IF n = 0 THEN s ELSE MakeOneRoom(t[n - 1], needed)
    BY <2>1, <2>2 DEF Stepwise
  <2> QED
    BY <2>2, <2>3 DEF Stepwise
<1>3. P(r)
  BY <1>2
<1>4. MakeRoom(s, needed) = r[Len(Pool)]
  BY DEF MakeRoom
<1> HIDE DEF r
<1>5. r[0] = s /\ \A n \in 1..Len(Pool) : r[n] = MakeOneRoom(r[n - 1], needed)
  BY <1>0, <1>3
<1>6. \A n \in 1..Len(Pool) : Good(r[n - 1], guards, None) => Good(r[n], guards, None)
  BY <1>5, EvictOneIsGood DEF MakeOneRoom
<1>7. Good(r[Len(Pool)], guards, None)
  BY <1>0, <1>5, <1>6, TraceIsGood
<1> QED
  BY <1>4, <1>7

LEMMA SpillsFirstIsGood ==
  ASSUME NEW s, NEW guards, Good(s, guards, None)
  PROVE  Good(SpillsFirst(s), guards, None)
<1>1. Untouched(SpillsFirst(s), s)
  BY DEF SpillsFirst, Good, Shape, Fields, Untouched
<1> QED
  BY <1>1, UntouchedIsGood

LEMMA EncodedIsGood ==
  ASSUME NEW s, NEW i \in Instructions, Good(s, {}, None)
  PROVE  Good(Encoded(s, i), {}, None)
<1> DEFINE required == Required(s, ToSet(SourceRegistersOf(i)))
           t == Handle(MakeRoom(Begin(s, required, Kept(i)), Needed(s, required)), i)
           u == ReleaseRegister(t, i.dst)
           evicted == u.evicted \cup {i.dst}
<1>1. Good(t, {}, None)
  BY BeginIsGood, MakeRoomIsGood, HandleIsGood
<1>2. Encoded(s, i) = SpillsFirst(SettleInSlot(t, i))
  BY DEF Encoded
<1> HIDE DEF t
<1>3. SettleInSlot(t, i) = IF i.op \in {"copy", "int"} /\ IsSpilled(t, i.dst)
                           THEN [u EXCEPT !.evicted = evicted] ELSE t
  BY DEF SettleInSlot
<1>4. ASSUME i.op \in {"copy", "int"} PROVE Good(u, {}, None)
  BY <1>1, <1>4, InstructionFacts, ReleaseRegisterIsGood DEF Defining, UnaryOps
<1> HIDE DEF u, evicted
<1>5. ASSUME i.op \in {"copy", "int"} PROVE Good([u EXCEPT !.evicted = evicted], {}, None)
  BY <1>4, <1>5, OtherFieldsAreGood
<1>6. Good(SettleInSlot(t, i), {}, None)
  BY <1>1, <1>3, <1>5
<1> QED
  BY <1>2, <1>6, SpillsFirstIsGood

LEMMA FlushOneIsGood ==
  ASSUME NEW s, NEW v \in VRegs, Good(s, {}, None)
  PROVE  Good(FlushOne(s, v), {}, None)
<1> DEFINE t == SpillsFirst(EnsureMaterialisation(Begin(s, Required(s, {v}), {}), v))
           u == StoreLive(t, v)
           code == s.code \o u.code
<1>1. Good(t, {}, None)
  BY BeginIsGood, EnsureIsGood, SpillsFirstIsGood
<1>2. FlushOne(s, v) = IF IsRematerialisable(s, v) \/ v \in s.evicted THEN s ELSE [u EXCEPT !.code = code]
  BY DEF FlushOne
<1> HIDE DEF t
<1>3. Good(u, {}, None)
  BY <1>1, EmitIsGood DEF StoreLive
<1> HIDE DEF u, code
<1>4. Good([u EXCEPT !.code = code], {}, None)
  BY <1>3, OtherFieldsAreGood
<1> QED
  BY <1>2, <1>4

\* A finite set of numbers has a largest.
LEMMA MaxIsNatural ==
  ASSUME NEW S \in SUBSET Nat, IsFiniteSet(S), S # {}
  PROVE  Max(S) \in S
<1>1. PICK n \in Nat : ExistsBijection(1..n, S)
  BY FS_NatBijection
<1>2. PICK f : f \in [1..n -> S] /\ \A x \in S : \E i \in 1..n : f[i] = x
  BY <1>1 DEF ExistsBijection, Bijection, Surjection, Injection
<1>3. (1..n) \in SUBSET (1..n) /\ (1..n) # {} /\ \A i \in 1..n : f[i] \in Nat
  BY <1>2
<1>4. \E i \in 1..n : \A j \in 1..n : f[j] <= f[i] /\ (j < i => f[j] < f[i])
  BY <1>3, FurthestExists
<1>5. \E x \in S : \A y \in S : x >= y
  BY <1>2, <1>4
<1> QED
  BY <1>5 DEF Max

LEMMA FlushedIsGood ==
  ASSUME NEW s, NEW live \in SUBSET VRegs, Good(s, {}, None)
  PROVE  Good(Flushed(s, live), {}, None)
<1> DEFINE last == Max(live \cup {0})
           start == [s EXCEPT !.code = <<>>]
           P(f) == f = [n \in 0..(last + 1) |->
                           IF n = 0 THEN start
                           ELSE IF n - 1 \in live THEN FlushOne(f[n - 1], n - 1) ELSE f[n - 1]]
           r == CHOOSE f : P(f)
<1>0. last + 1 \in Nat
  <2>1. IsFiniteSet(live \cup {0})
    BY OwnerAssumption, FS_Subset, FS_AddElement
  <2>2. live \cup {0} \in SUBSET Nat
    BY ClassAssumption
  <2>3. Max(live \cup {0}) \in live \cup {0}
    BY <2>1, <2>2, MaxIsNatural
  <2> QED
    BY <2>2, <2>3
<1>1. Flushed(s, live) = r[last + 1]
  BY DEF Flushed
<1> HIDE DEF last, start
<1>2. Good(start, {}, None)
  BY OtherFieldsAreGood DEF start
<1>3. PICK t : Trace(t, "flush", start, live, 0, 0, last + 1)
  BY <1>0, TraceExists
<1>4. P(t)
  <2>1. \A x, n : StepOf("flush", x, n, live, 0, 0) = IF n - 1 \in live THEN FlushOne(x, n - 1) ELSE x
    BY DEF StepOf
  <2>2. Stepwise(t, "flush", start, live, 0, 0, last + 1)
    BY <1>3, TraceSteps
  <2>3. ASSUME NEW n \in 0..(last + 1)
        PROVE  t[n] = IF n = 0 THEN start
                      ELSE IF n - 1 \in live THEN FlushOne(t[n - 1], n - 1) ELSE t[n - 1]
    BY <2>1, <2>2 DEF Stepwise
  <2> QED
    BY <2>2, <2>3 DEF Stepwise
<1>5. P(r)
  BY <1>4
<1> HIDE DEF r
<1>6. /\ r[0] = start
      /\ \A n \in 1..(last + 1) : r[n] = IF n - 1 \in live THEN FlushOne(r[n - 1], n - 1) ELSE r[n - 1]
  BY <1>0, <1>5
<1>7. \A n \in 1..(last + 1) : Good(r[n - 1], {}, None) => Good(r[n], {}, None)
  BY <1>6, FlushOneIsGood
<1>8. Good(r[last + 1], {}, None)
  BY <1>0, <1>2, <1>6, <1>7, TraceIsGood
<1> QED
  BY <1>1, <1>8

-----------------------------------------------------------------------------
(* BeginBlock *)

\* What the encoder relies on a block for.
IsBlock(b, f) == b.first \in 1..Len(f) /\ b.last \in b.first..Len(f) /\ b.liveOut \subseteq VRegs

\* As TraceIsGood, for what belongs to a set.
LEMMA TraceIsIn ==
  ASSUME NEW r, NEW top \in Nat, NEW S, r[0] \in S, \A n \in 1..top : r[n - 1] \in S => r[n] \in S
  PROVE  \A n \in 0..top : r[n] \in S
<1> DEFINE A == {n \in Nat : n <= top => r[n] \in S}
<1>1. 0 \in A
  OBVIOUS
<1>2. ASSUME NEW n \in Nat, n \in A PROVE n + 1 \in A
  <2>1. n + 1 <= top => n + 1 \in 1..top /\ (n + 1) - 1 = n /\ n <= top
    OBVIOUS
  <2> QED
    BY <1>2, <2>1
<1> HIDE DEF A
<1>3. \A n \in Nat : n \in A
  BY <1>1, <1>2, InductionOverNat
<1> QED
  BY <1>3 DEF A

LEMMA SitesAtAreNumbers ==
  ASSUME NEW f \in Seq(Instructions), NEW i \in 1..Len(f), NEW v
  PROVE  SitesAt(f, i, v) \in Seq(Nat)
<1> DEFINE S == {k \in DOMAIN f[i].srcs : f[i].srcs[k] = v}
<1>1. f[i] \in Instructions /\ i \in Nat
  OBVIOUS
<1>2. f[i].srcs \in Seq(VRegs)
  BY <1>1, InstructionFacts
<1>3. DOMAIN f[i].srcs = 1..Len(f[i].srcs) /\ Len(f[i].srcs) \in Nat
  BY <1>2
<1>4. IsFiniteSet(S)
  <2> DEFINE n == Len(f[i].srcs)
             T == 1..n
  <2>1. S \in SUBSET T /\ n \in Nat
    BY <1>3
  <2> HIDE DEF S, n
  <2>2. IsFiniteSet(T)
    BY <2>1, FS_Interval
  <2> HIDE DEF T
  <2> QED
    BY <2>1, <2>2, FS_Subset
<1>5. Cardinality(S) \in Nat
  BY <1>4, FS_CardinalityType
<1>6. SitesAt(f, i, v) = [k \in 1..Cardinality(S) |-> i]
  BY DEF SitesAt
<1> HIDE DEF S
<1> QED
  BY <1>1, <1>5, <1>6

LEMMA SitesInAreNumbers ==
  ASSUME NEW f \in Seq(Instructions), NEW b, IsBlock(b, f), NEW v
  PROVE  SitesIn(f, b, v) \in Seq(Nat)
<1> DEFINE top == b.last - b.first + 1
           P(g) == g = [n \in 0..top |-> IF n = 0 THEN <<>> ELSE g[n - 1] \o SitesAt(f, b.first + n - 1, v)]
           r == CHOOSE g : P(g)
<1>0. top \in Nat /\ b.first \in Nat /\ b.last \in Nat /\ b.last <= Len(f) /\ b.first >= 1 /\ Len(f) \in Nat
  BY DEF IsBlock
<1>1. SitesIn(f, b, v) = IF v \in b.liveOut THEN Append(r[top], b.last + 1) ELSE r[top]
  BY DEF SitesIn
<1>2. ASSUME NEW n \in 1..top PROVE b.first + n - 1 \in 1..Len(f)
  BY <1>0
<1>3. ASSUME NEW n \in 1..top PROVE SitesAt(f, b.first + n - 1, v) \in Seq(Nat)
  BY <1>2, SitesAtAreNumbers
<1>4. top \in Nat
  BY <1>0
<1> HIDE DEF top
<1>5. PICK t : Trace(t, "site", <<>>, f, b.first, v, top)
  BY <1>4, TraceExists
<1>6. P(t)
  <2>1. \A x, n : StepOf("site", x, n, f, b.first, v) = x \o SitesAt(f, b.first + n - 1, v)
    BY DEF StepOf
  <2>2. Stepwise(t, "site", <<>>, f, b.first, v, top)
    BY <1>5, TraceSteps
  <2>3. ASSUME NEW n \in 0..top
        PROVE  t[n] = IF n = 0 THEN <<>> ELSE t[n - 1] \o SitesAt(f, b.first + n - 1, v)
    BY <2>1, <2>2 DEF Stepwise
  <2> QED
    BY <2>2, <2>3 DEF Stepwise
<1>7. P(r)
  BY <1>6
<1> HIDE DEF r
<1>8. r[0] = <<>> /\ \A n \in 1..top : r[n] = r[n - 1] \o SitesAt(f, b.first + n - 1, v)
  BY <1>4, <1>7
<1>9. r[0] \in Seq(Nat)
  BY <1>8
<1>10. ASSUME NEW n \in 1..top, r[n - 1] \in Seq(Nat) PROVE r[n] \in Seq(Nat)
  <2> DEFINE before == r[n - 1]
             here == SitesAt(f, b.first + n - 1, v)
  <2>1. before \in Seq(Nat) /\ here \in Seq(Nat) /\ r[n] = before \o here
    BY <1>3, <1>8, <1>10
  <2> HIDE DEF before, here
  <2> QED
    BY <2>1
<1>11. \A n \in 0..top : r[n] \in Seq(Nat)
  BY <1>4, <1>9, <1>10, TraceIsIn
<1>12. r[top] \in Seq(Nat) /\ b.last + 1 \in Nat
  BY <1>0, <1>4, <1>11
<1> QED
  BY <1>1, <1>12

LEMMA VacateIsGood ==
  ASSUME NEW s, Good(s, {}, None)
  PROVE  Good(Vacate(s), {}, None)
<1> DEFINE P(f) == f = [n \in 0..Len(Pool) |-> IF n = 0 THEN s ELSE VacateOne(f[n - 1], Pool[n])]
           r == CHOOSE f : P(f)
<1>0. Len(Pool) \in Nat
  BY PoolFacts
<1>1. PICK t : Trace(t, "vacate", s, 0, 0, 0, Len(Pool))
  BY <1>0, TraceExists
<1>2. P(t)
  <2>1. \A x, n : StepOf("vacate", x, n, 0, 0, 0) = VacateOne(x, Pool[n])
    BY DEF StepOf
  <2>2. Stepwise(t, "vacate", s, 0, 0, 0, Len(Pool))
    BY <1>1, TraceSteps
  <2>3. ASSUME NEW n \in 0..Len(Pool)
        PROVE  t[n] = IF n = 0 THEN s ELSE VacateOne(t[n - 1], Pool[n])
    BY <2>1, <2>2 DEF Stepwise
  <2> QED
    BY <2>2, <2>3 DEF Stepwise
<1>3. P(r)
  BY <1>2
<1>4. Vacate(s) = r[Len(Pool)]
  BY DEF Vacate
<1> HIDE DEF r
<1>5. r[0] = s /\ \A n \in 1..Len(Pool) : r[n] = VacateOne(r[n - 1], Pool[n])
  BY <1>0, <1>3
<1>6. ASSUME NEW n \in 1..Len(Pool), Good(r[n - 1], {}, None) PROVE Good(r[n], {}, None)
  <2> DEFINE x == r[n - 1]
             owner == x.occupancy[Pool[n]]
  <2>1. r[n] = IF owner = None THEN x ELSE ReleaseRegister(x, owner)
    BY <1>5 DEF VacateOne
  <2>2. Pool[n] \in Registers
    BY PoolFacts
  <2>3. owner # None /\ Fine(x) => owner \in VRegs
    BY <1>6, <2>2, OwnersBetween
  <2> HIDE DEF owner
  <2> QED
    BY <1>6, <2>1, <2>3, ReleaseRegisterIsGood
<1>7. Good(r[Len(Pool)], {}, None)
  BY <1>0, <1>5, <1>6, TraceIsGood
<1> QED
  BY <1>4, <1>7

LEMMA EnterBlockIsGood ==
  ASSUME NEW s, NEW f \in Seq(Instructions), NEW b, IsBlock(b, f), Good(s, {}, None)
  PROVE  Good(EnterBlock(s, f, b), {}, None)
<1> DEFINE u == Vacate(s)
           sites == [v \in VRegs |-> SitesIn(f, b, v)]
           uses == [v \in VRegs |-> Len(sites[v])]
           t == [u EXCEPT !.evictable = {}, !.sites = sites, !.uses = uses]
           evicted == {v \in t.evicted : v \notin b.liveIn} \cup
                      {v \in b.liveIn : ~IsRematerialisable(t, v)}
<1>1. Good(u, {}, None)
  BY VacateIsGood
<1>2. EnterBlock(s, f, b) = IF b.first = 1 THEN t ELSE [t EXCEPT !.evicted = evicted]
  BY DEF EnterBlock
<1> HIDE DEF u
<1>3. sites \in [VRegs -> Seq(Nat)] /\ uses \in [VRegs -> Nat] /\ \A v \in VRegs : uses[v] = Len(sites[v])
  <2>1. sites \in [VRegs -> Seq(Nat)]
    BY SitesInAreNumbers
  <2> HIDE DEF sites
  <2>2. \A v \in VRegs : Len(sites[v]) \in Nat
    BY <2>1
  <2> QED
    BY <2>1, <2>2
<1> HIDE DEF sites, uses
<1>4. /\ DOMAIN t = Fields /\ t.err = u.err
      /\ t.occupancy = u.occupancy /\ t.colour = u.colour /\ t.mat = u.mat /\ t.val = u.val
      /\ t.evictable = {} /\ t.uses = uses /\ t.sites = sites /\ t.reg = u.reg
  BY <1>1 DEF Good, Shape, Fields
<1>5. Fine(t) <=> Fine(u)
  BY <1>4, FineStays
<1> HIDE DEF t
<1>6. Sited(t)
  BY <1>3, <1>4 DEF Sited
<1>7. Good(t, {}, None)
  BY <1>1, <1>4, <1>5, <1>6 DEF Good, Shape, Facts, OneOwner, Agree
<1> HIDE DEF evicted
<1>8. Good([t EXCEPT !.evicted = evicted], {}, None)
  BY <1>7, OtherFieldsAreGood
<1> QED
  BY <1>2, <1>7, <1>8

-----------------------------------------------------------------------------
(* Encode: the blocks and what is live at their ends *)

LEMMA StartIsGood ==
  ASSUME NEW f, NEW spillage
  PROVE  Good(EncoderStart(f, spillage), {}, None)
<1> DEFINE t == EncoderStart(f, spillage)
<1>1. /\ DOMAIN t = Fields
      /\ t.occupancy = [r \in Registers |-> None] /\ t.colour = [v \in Owners |-> None]
      /\ t.mat = [v \in VRegs |-> None] /\ t.val = [v \in VRegs |-> Unknown] /\ t.evictable = {}
      /\ t.uses = [v \in VRegs |-> 0] /\ t.sites = [v \in VRegs |-> <<>>] /\ t.reg = None
  BY DEF EncoderStart, NoColour, NoRegister, Fields
<1> HIDE DEF t
<1>2. IsValue(Unknown)
  BY DEF IsValue, Unknown, Kinds, UnaryOps, BinaryOps
<1>3. Shape(t)
  BY <1>1, <1>2 DEF Shape
<1>4. Sited(t)
  <2>1. <<>> \in Seq(Nat) /\ Len(<<>>) = 0
    OBVIOUS
  <2> QED
    BY <1>1, <2>1 DEF Sited
<1>5. Facts(t, {}) /\ Agree(t, None)
  BY <1>1, <1>4, OwnerFacts DEF Facts, OneOwner, Agree
<1>6. Good(t, {}, None)
  BY <1>3, <1>5, OwnerFacts DEF Good
<1> QED
  BY <1>6 DEF t

\* Every leader up to n begins a block.
Leading(q, n, f) ==
    /\ q \in Seq(1..Len(f))
    /\ \A k \in 1..n : IsLeader(f, k) => \E j \in 1..Len(q) : q[j] = k

LEMMA OneMoreLeads ==
  ASSUME NEW f, Len(f) \in Nat, NEW q, NEW n \in Nat, n + 1 \in 1..Len(f), Leading(q, n, f)
  PROVE  Leading(IF IsLeader(f, n + 1) THEN Append(q, n + 1) ELSE q, n + 1, f)
<1>1. q \in Seq(1..Len(f)) /\ \A k \in 1..n : IsLeader(f, k) => \E j \in 1..Len(q) : q[j] = k
  BY DEF Leading
<1>2. \A k \in 1..(n + 1) : k \in 1..n \/ k = n + 1
  OBVIOUS
<1>3. CASE ~IsLeader(f, n + 1)
  BY <1>1, <1>2, <1>3 DEF Leading
<1>4. CASE IsLeader(f, n + 1)
  <2> DEFINE more == Append(q, n + 1)
  <2>1. /\ more \in Seq(1..Len(f)) /\ Len(q) \in Nat /\ Len(more) = Len(q) + 1
        /\ more[Len(q) + 1] = n + 1
        /\ \A j \in 1..Len(q) : more[j] = q[j]
    BY <1>1
  <2> HIDE DEF more
  <2>2. ASSUME NEW k \in 1..(n + 1), IsLeader(f, k) PROVE \E j \in 1..Len(more) : more[j] = k
    <3>1. CASE k = n + 1
      BY <2>1, <3>1
    <3>2. CASE k \in 1..n
      <4>1. PICK j \in 1..Len(q) : q[j] = k
        BY <1>1, <2>2, <3>2
      <4>2. j \in 1..Len(more) /\ more[j] = k
        BY <2>1, <4>1
      <4> QED
        BY <4>2
    <3> QED
      BY <1>2, <3>1, <3>2
  <2>3. Leading(more, n + 1, f)
    BY <2>1, <2>2 DEF Leading
  <2> QED
    BY <1>4, <2>3 DEF more
<1> QED
  BY <1>3, <1>4

\* The last instruction of a block exists.
LEMMA BlockAtFacts ==
  ASSUME NEW f, Len(f) \in Nat, NEW first \in 1..Len(f)
  PROVE  BlockAt(f, first).first = first /\ BlockAt(f, first).last \in first..Len(f)
<1> DEFINE S == {l \in first..Len(f) : l = Len(f) \/ IsLeader(f, l + 1)}
           Ends(l) == /\ l = Len(f) \/ IsLeader(f, l + 1)
                      /\ \A i \in (first + 1)..l : ~IsLeader(f, i)
           last == CHOOSE l \in first..Len(f) : Ends(l)
<1>1. S \in SUBSET Nat /\ S # {}
  <2>1. Len(f) \in S
    OBVIOUS
  <2> QED
    BY <2>1
<1>2. \E l \in S : \A i \in S : l <= i
  <2> HIDE DEF S
  <2> QED
    BY <1>1, LeastExists
<1>3. PICK l \in S : \A i \in S : l <= i
  BY <1>2
<1>4. ASSUME NEW i \in (first + 1)..l, IsLeader(f, i) PROVE FALSE
  <2>1. l \in first..Len(f) /\ i \in Nat /\ i - 1 \in first..Len(f) /\ (i - 1) + 1 = i
    BY <1>3, <1>4
  <2>2. i - 1 \in S
    BY <1>4, <2>1
  <2>3. l <= i - 1
    BY <1>3, <2>2
  <2> QED
    BY <2>1, <2>3
<1>5. l \in first..Len(f) /\ Ends(l)
  BY <1>3, <1>4
<1>6. last \in first..Len(f)
  BY <1>5
<1>7. BlockAt(f, first) = [first |-> first, last |-> last]
  BY DEF BlockAt
<1> HIDE DEF last
<1> QED
  BY <1>6, <1>7

AreBlocks(bs, f) ==
    /\ Len(bs) \in Nat /\ DOMAIN bs = 1..Len(bs)
    /\ \A b \in DOMAIN bs : bs[b].first \in 1..Len(f) /\ bs[b].last \in bs[b].first..Len(f)
    /\ \A k \in 1..Len(f) : f[k].op = "Label" => \E b \in DOMAIN bs : bs[b].first = k

LEMMA MappedSequence ==
  ASSUME NEW n \in Nat, NEW g, g = [b \in 1..n |-> g[b]]
  PROVE  Len(g) = n /\ DOMAIN g = 1..n
<1> DEFINE S == {g[b] : b \in 1..n}
<1>1. g \in [1..n -> S]
  OBVIOUS
<1> HIDE DEF S
<1>2. g \in Seq(S) /\ Len(g) = n
  BY <1>1
<1> QED
  BY <1>1, <1>2

LEMMA BlocksOfFacts ==
  ASSUME NEW f \in Seq(Instructions)
  PROVE  AreBlocks(BlocksOf(f), f)
<1> DEFINE P(g) == g = [i \in 0..Len(f) |->
                           IF i = 0 THEN <<>>
                           ELSE IF IsLeader(f, i) THEN Append(g[i - 1], i) ELSE g[i - 1]]
           r == CHOOSE g : P(g)
           firsts == r[Len(f)]
           A == {n \in Nat : n <= Len(f) => Leading(r[n], n, f)}
<1>1. Len(f) \in Nat
  OBVIOUS
<1>2. PICK t : Trace(t, "lead", <<>>, f, 0, 0, Len(f))
  BY <1>1, TraceExists
<1>3. P(t)
  <2>1. \A x, n : StepOf("lead", x, n, f, 0, 0) = IF IsLeader(f, n) THEN Append(x, n) ELSE x
    BY DEF StepOf
  <2>2. Stepwise(t, "lead", <<>>, f, 0, 0, Len(f))
    BY <1>2, TraceSteps
  <2>3. ASSUME NEW n \in 0..Len(f)
        PROVE  t[n] = IF n = 0 THEN <<>>
                      ELSE IF IsLeader(f, n) THEN Append(t[n - 1], n) ELSE t[n - 1]
    BY <2>1, <2>2 DEF Stepwise
  <2> QED
    BY <2>2, <2>3 DEF Stepwise
<1>4. P(r)
  BY <1>3
<1>5. BlocksOf(f) = [b \in DOMAIN firsts |-> BlockAt(f, firsts[b])]
  BY DEF BlocksOf
<1> HIDE DEF r
<1>6. /\ r[0] = <<>>
      /\ \A n \in 1..Len(f) : r[n] = IF IsLeader(f, n) THEN Append(r[n - 1], n) ELSE r[n - 1]
  <2> DEFINE top == Len(f)
  <2>1. top \in Nat
    BY <1>1
  <2>2. r = [i \in 0..top |-> IF i = 0 THEN <<>>
                            ELSE IF IsLeader(f, i) THEN Append(r[i - 1], i) ELSE r[i - 1]]
    BY <1>4
  <2> HIDE DEF top
  <2>3. r[0] = <<>>
    BY <2>1, <2>2
  <2>4. ASSUME NEW n \in 1..top
        PROVE  r[n] = IF IsLeader(f, n) THEN Append(r[n - 1], n) ELSE r[n - 1]
    <3>1. n \in 0..top /\ n # 0
      BY <2>1
    <3>2. r[n] = IF n = 0 THEN <<>>
                 ELSE IF IsLeader(f, n) THEN Append(r[n - 1], n) ELSE r[n - 1]
      BY <2>2, <3>1
    <3> QED
      BY <3>1, <3>2
  <2> QED
    BY <2>3, <2>4 DEF top
<1>7. 0 \in A
  <2>1. <<>> \in Seq(1..Len(f)) /\ \A k \in 1..0 : FALSE
    OBVIOUS
  <2>2. Leading(<<>>, 0, f)
    BY <2>1 DEF Leading
  <2>3. Leading(r[0], 0, f)
    BY <1>6, <2>2
  <2> QED
    BY <2>3
<1>8. ASSUME NEW n \in Nat, n \in A PROVE n + 1 \in A
  <2> SUFFICES ASSUME n + 1 <= Len(f) PROVE Leading(r[n + 1], n + 1, f)
    OBVIOUS
  <2>1. n + 1 \in 1..Len(f) /\ (n + 1) - 1 = n /\ n <= Len(f)
    BY <1>1
  <2>2. Leading(r[n], n, f)
    BY <1>8, <2>1
  <2>3. r[n + 1] = IF IsLeader(f, n + 1) THEN Append(r[n], n + 1) ELSE r[n]
    BY <1>6, <2>1
  <2> QED
    BY <1>1, <2>1, <2>2, <2>3, OneMoreLeads
<1> HIDE DEF A
<1>9. \A n \in Nat : n \in A
  BY <1>7, <1>8, InductionOverNat
<1>10. Leading(firsts, Len(f), f)
  BY <1>1, <1>9 DEF A
<1> HIDE DEF firsts
<1>11. /\ firsts \in Seq(1..Len(f)) /\ Len(firsts) \in Nat /\ DOMAIN firsts = 1..Len(firsts)
       /\ \A k \in 1..Len(f) : IsLeader(f, k) => \E j \in 1..Len(firsts) : firsts[j] = k
       /\ \A j \in 1..Len(firsts) : firsts[j] \in 1..Len(f)
  BY <1>10 DEF Leading
<1> DEFINE bs == BlocksOf(f)
<1>12. bs = [b \in 1..Len(firsts) |-> BlockAt(f, firsts[b])]
  BY <1>5, <1>11
<1> HIDE DEF bs
<1>13. Len(bs) = Len(firsts) /\ DOMAIN bs = 1..Len(firsts)
  BY <1>11, <1>12, MappedSequence
<1>14. ASSUME NEW b \in 1..Len(firsts)
       PROVE  bs[b].first = firsts[b] /\ bs[b].last \in firsts[b]..Len(f)
  <2>1. bs[b] = BlockAt(f, firsts[b]) /\ firsts[b] \in 1..Len(f)
    BY <1>11, <1>12
  <2> QED
    BY <1>1, <2>1, BlockAtFacts
<1>15. ASSUME NEW k \in 1..Len(f), f[k].op = "Label" PROVE \E b \in DOMAIN bs : bs[b].first = k
  <2>1. IsLeader(f, k)
    BY <1>15 DEF IsLeader
  <2> QED
    BY <1>11, <1>13, <1>14, <2>1
<1>16. AreBlocks(bs, f)
  BY <1>11, <1>13, <1>14, <1>15 DEF AreBlocks
<1> QED
  BY <1>16 DEF bs

\* Whoever leaves a block goes to a block.
LEMMA SuccessorsAreBlocks ==
  ASSUME NEW f \in Seq(Instructions), JumpsLand(f), NEW bs, AreBlocks(bs, f), NEW b \in DOMAIN bs
  PROVE  Successors(f, bs, b) \subseteq DOMAIN bs
<1> DEFINE last == f[bs[b].last]
           target == BlockOfLabel(f, bs, last.n)
<1>1. bs[b].last \in DOMAIN f /\ DOMAIN f = 1..Len(f)
  <2>1. bs[b].first \in 1..Len(f) /\ bs[b].last \in bs[b].first..Len(f) /\ Len(f) \in Nat
    BY DEF AreBlocks
  <2> QED
    BY <2>1
<1>2. ASSUME last.op \in {"UnconditionalJump", "CompareAndJump"} PROVE target \in DOMAIN bs
  <2>1. PICK j \in DOMAIN f : f[j].op = "Label" /\ f[j].n = last.n
    BY <1>1, <1>2 DEF JumpsLand
  <2>2. PICK c \in DOMAIN bs : bs[c].first = j
    BY <1>1, <2>1 DEF AreBlocks
  <2>3. \E k \in DOMAIN bs : f[bs[k].first].op = "Label" /\ f[bs[k].first].n = last.n
    BY <2>1, <2>2
  <2> HIDE DEF last
  <2> QED
    BY <2>3 DEF BlockOfLabel
<1>3. Following(bs, b) \subseteq DOMAIN bs
  BY DEF Following
<1> HIDE DEF target
<1>4. CASE last.op = "Return"
  BY <1>4 DEF Successors
<1>5. CASE last.op = "UnconditionalJump"
  BY <1>2, <1>5 DEF Successors, target
<1>6. CASE last.op = "CompareAndJump"
  BY <1>2, <1>3, <1>6 DEF Successors, target
<1>7. CASE last.op \notin {"Return", "UnconditionalJump", "CompareAndJump"}
  BY <1>3, <1>7 DEF Successors
<1> QED
  BY <1>4, <1>5, <1>6, <1>7

LEMMA UsesAreRegisters ==
  ASSUME NEW f \in Seq(Instructions), NEW bs, AreBlocks(bs, f), NEW b \in DOMAIN bs
  PROVE  Use(f, bs[b]) \subseteq VRegs
<1>1. bs[b].first \in 1..Len(f) /\ bs[b].last \in bs[b].first..Len(f) /\ Len(f) \in Nat
  BY DEF AreBlocks
<1>2. ASSUME NEW i \in bs[b].first..bs[b].last PROVE ToSet(SourceRegistersOf(f[i])) \subseteq VRegs
  <2>1. i \in 1..Len(f)
    BY <1>1
  <2>2. f[i] \in Instructions
    BY <2>1
  <2>3. f[i].srcs \in Seq(VRegs)
    BY <2>2, InstructionFacts
  <2> QED
    BY <2>3 DEF ToSet, SourceRegistersOf
<1> QED
  BY <1>2 DEF Use

LEMMA EntryIsRegisters ==
  ASSUME NEW n \in Nat, NEW use, NEW def, NEW successors, DOMAIN use = 1..n,
         \A b \in 1..n : use[b] \subseteq VRegs /\ successors[b] \subseteq 1..n
  PROVE  \A b \in 1..n : LiveOnEntry(n, use, def, successors)[b] \subseteq VRegs
<1> DEFINE Ahead(x) == [b \in 1..n |-> use[b] \cup ((UNION {x[c] : c \in successors[b]}) \ def[b])]
           start == [b \in 1..n |-> use[b] \cup {}]
           P(g) == g = [k \in 0..n |->
                           [b \in 1..n |-> use[b] \cup IF k = 0 THEN {}
                               ELSE (UNION {g[k - 1][c] : c \in successors[b]}) \ def[b]]]
           r == CHOOSE g : P(g)
           S == [1..n -> SUBSET VRegs]
<1>1. LiveOnEntry(n, use, def, successors) = r[n]
  BY DEF LiveOnEntry
<1>2. PICK t : Trace(t, "look", start, use, def, successors, n)
  BY TraceExists
<1>3. \A x, k : StepOf("look", x, k, use, def, successors) = Ahead(x)
  BY DEF StepOf
<1>4. Stepwise(t, "look", start, use, def, successors, n)
  BY <1>2, TraceSteps
<1>5. ASSUME NEW k \in 0..n
      PROVE  t[k] = [b \in 1..n |-> use[b] \cup IF k = 0 THEN {}
                                     ELSE (UNION {t[k - 1][c] : c \in successors[b]}) \ def[b]]
  <2>1. t[k] = IF k = 0 THEN start ELSE Ahead(t[k - 1])
    <3> HIDE DEF start, Ahead
    <3> QED
      BY <1>3, <1>4 DEF Stepwise
  <2>2. CASE k = 0
    BY <2>1, <2>2
  <2>3. CASE k # 0
    BY <2>1, <2>3
  <2> QED
    BY <2>2, <2>3
<1>6. P(t)
  BY <1>4, <1>5 DEF Stepwise
<1>7. P(r)
  BY <1>6
<1> HIDE DEF r
<1>8. r[0] = start
  BY <1>7
<1>9. ASSUME NEW k \in 1..n PROVE r[k] = Ahead(r[k - 1])
  <2>1. k \in 0..n /\ k # 0
    OBVIOUS
  <2>2. r[k] = [b \in 1..n |-> use[b] \cup IF k = 0 THEN {}
                               ELSE (UNION {r[k - 1][c] : c \in successors[b]}) \ def[b]]
    BY <1>7, <2>1
  <2> QED
    BY <2>1, <2>2
<1>10. start \in [1..n -> SUBSET VRegs]
  OBVIOUS
<1>11. ASSUME NEW x \in [1..n -> SUBSET VRegs] PROVE Ahead(x) \in [1..n -> SUBSET VRegs]
  OBVIOUS
<1>12. start \in S /\ \A x \in S : Ahead(x) \in S
  BY <1>10, <1>11
<1> HIDE DEF start, Ahead, S
<1>13. r[0] \in S
  BY <1>8, <1>12
<1>14. \A k \in 1..n : r[k - 1] \in S => r[k] \in S
  BY <1>9, <1>12
<1>15. \A k \in 0..n : r[k] \in S
  BY <1>13, <1>14, TraceIsIn
<1>16. r[n] \in S
  BY <1>15
<1> QED
  BY <1>1, <1>16 DEF S

-----------------------------------------------------------------------------
(* Encode *)

AreTyped(bs, f) ==
    /\ Len(bs) \in Nat /\ DOMAIN bs = 1..Len(bs)
    /\ \A b \in DOMAIN bs : IsBlock(bs[b], f)

\* Encode's blocks.
Blocks(f) ==
    LET bs == BlocksOf(f)
        liveIn == LiveInOf(f, bs)
        liveOut == LiveOutOf(f, bs, liveIn)
    IN  [b \in DOMAIN bs |-> [first |-> bs[b].first, last |-> bs[b].last,
                              liveIn |-> liveIn[b], liveOut |-> liveOut[b]]]

\* Only virtual registers are live at the end of a block.
LEMMA LiveOutIsRegisters ==
  ASSUME NEW f \in Seq(Instructions), JumpsLand(f), NEW bs, AreBlocks(bs, f), NEW b \in DOMAIN bs
  PROVE  LiveOutOf(f, bs, LiveInOf(f, bs))[b] \subseteq VRegs
<1> DEFINE n == Len(bs)
           use == [c \in DOMAIN bs |-> Use(f, bs[c])]
           def == [c \in DOMAIN bs |-> Def(f, bs[c])]
           successors == [c \in DOMAIN bs |-> Successors(f, bs, c)]
           entry == LiveOnEntry(n, use, def, successors)
           exit == LiveOnExit(n, entry, successors)
<1>1. n \in Nat /\ DOMAIN bs = 1..n
  BY DEF AreBlocks
<1>2. \A c \in 1..n : use[c] \subseteq VRegs
  BY <1>1, UsesAreRegisters
<1>3. \A c \in 1..n : successors[c] \subseteq 1..n
  BY <1>1, SuccessorsAreBlocks
<1>4. DOMAIN use = 1..n
  BY <1>1
<1>5. LiveOutOf(f, bs, LiveInOf(f, bs)) = exit
  BY DEF LiveOutOf, LiveInOf
<1>6. exit = [c \in 1..n |-> UNION {entry[d] : d \in successors[c]}]
  BY DEF LiveOnExit
<1> HIDE DEF n, use, def, successors, entry, exit
<1>7. \A c \in 1..n : entry[c] \subseteq VRegs
  BY <1>1, <1>2, <1>3, <1>4, EntryIsRegisters DEF entry
<1>8. b \in 1..n /\ successors[b] \subseteq 1..n
  BY <1>1, <1>3
<1>9. exit[b] = UNION {entry[d] : d \in successors[b]}
  BY <1>6, <1>8
<1>10. exit[b] \subseteq VRegs
  BY <1>7, <1>8, <1>9
<1> QED
  BY <1>5, <1>10

LEMMA BlocksAreTyped ==
  ASSUME NEW f \in Seq(Instructions), JumpsLand(f)
  PROVE  AreTyped(Blocks(f), f)
<1> DEFINE bs == BlocksOf(f)
           n == Len(bs)
           liveIn == LiveInOf(f, bs)
           liveOut == LiveOutOf(f, bs, liveIn)
           typed == Blocks(f)
<1>1. AreBlocks(bs, f)
  BY BlocksOfFacts
<1>2. \A b \in DOMAIN bs : liveOut[b] \subseteq VRegs
  <2> HIDE DEF bs
  <2> QED
    BY <1>1, LiveOutIsRegisters
<1>3. typed = [b \in DOMAIN bs |-> [first |-> bs[b].first, last |-> bs[b].last,
                                    liveIn |-> liveIn[b], liveOut |-> liveOut[b]]]
  BY DEF Blocks
<1> HIDE DEF bs, liveIn, liveOut, typed
<1>4. n \in Nat /\ DOMAIN bs = 1..n
  BY <1>1 DEF AreBlocks
<1> HIDE DEF n
<1>5. typed = [b \in 1..n |-> typed[b]]
  BY <1>3, <1>4
<1>6. Len(typed) = n /\ DOMAIN typed = 1..n
  BY <1>4, <1>5, MappedSequence
<1>7. ASSUME NEW b \in 1..n PROVE IsBlock(typed[b], f)
  <2>1. /\ typed[b].first = bs[b].first /\ typed[b].last = bs[b].last
        /\ typed[b].liveOut = liveOut[b]
    BY <1>3, <1>4
  <2>2. bs[b].first \in 1..Len(f) /\ bs[b].last \in bs[b].first..Len(f)
    BY <1>1, <1>4 DEF AreBlocks
  <2>3. liveOut[b] \subseteq VRegs
    BY <1>2, <1>4
  <2> QED
    BY <2>1, <2>2, <2>3 DEF IsBlock
<1>8. AreTyped(typed, f)
  BY <1>4, <1>6, <1>7 DEF AreTyped
<1> QED
  BY <1>8 DEF typed

-----------------------------------------------------------------------------
(* The invariant *)

Consistent ==
    /\ input \in Functions
    /\ AreTyped(blocks, input)
    /\ block \in Nat /\ pc \in Nat \ {0}
    /\ Good(e, {}, None)

LEMMA NoBlocks == ASSUME NEW f PROVE AreTyped(<<>>, f)
<1>1. Len(<<>>) = 0 /\ DOMAIN <<>> = 1..0 /\ 1..0 = {}
  OBVIOUS
<1> QED
  BY <1>1 DEF AreTyped

LEMMA ConsistentInit == ASSUME LowersFunctions, Init PROVE Consistent
<1>1. input = <<>> /\ blocks = <<>> /\ block = 0 /\ pc = 1 /\ e = EncoderStart(input, "None")
  BY DEF Init
<1>2. Good(e, {}, None)
  BY <1>1, StartIsGood
<1>3. AreTyped(blocks, input)
  BY <1>1, NoBlocks
<1>4. input \in Functions
  BY <1>1 DEF LowersFunctions
<1> QED
  BY <1>1, <1>2, <1>3, <1>4 DEF Consistent

LEMMA ConsistentStep == ASSUME LowersFunctions, Consistent, [Next]_vars PROVE Consistent'
<1>1. /\ input \in Functions /\ input \in Seq(Instructions) /\ Len(input) \in Nat
      /\ AreTyped(blocks, input)
      /\ block \in Nat /\ pc \in Nat \ {0} /\ Good(e, {}, None)
  BY DEF Consistent, LowersFunctions
<1>2. CASE Lower
  <2>1. blocks = <<>> /\ blocks' = blocks /\ block' = block /\ pc' = pc /\ e' = e
    BY <1>2 DEF Lower
  <2>2. input' \in Functions
    BY <1>1, <1>2 DEF Lower, LowersFunctions
  <2>3. AreTyped(blocks', input')
    BY <2>1, NoBlocks
  <2> QED
    BY <1>1, <2>1, <2>2, <2>3 DEF Consistent
<1>3. CASE Encode
  <2>1. /\ input' = input /\ block' = block /\ pc' = pc /\ MayFollow(input) = {}
        /\ \E spillage \in Spillages(input) : e' = EncoderStart(input, spillage)
    BY <1>3 DEF Encode
  <2>2. blocks' = Blocks(input)
    BY <1>3 DEF Encode, Blocks
  <2>3. AreTyped(blocks', input')
    BY <1>1, <2>1, <2>2, BlocksAreTyped DEF LowersFunctions
  <2>4. Good(e', {}, None)
    BY <2>1, StartIsGood
  <2> QED
    BY <1>1, <2>1, <2>3, <2>4 DEF Consistent
<1>4. CASE BeginBlock
  <2>1. /\ input' = input /\ blocks' = blocks /\ block' = block + 1 /\ pc' = pc
        /\ e' = EnterBlock(e, input, blocks[block + 1]) /\ block < Len(blocks)
    BY <1>4 DEF BeginBlock
  <2>2. IsBlock(blocks[block + 1], input)
    <3>1. Len(blocks) \in Nat /\ DOMAIN blocks = 1..Len(blocks)
      BY <1>1 DEF AreTyped
    <3>2. block + 1 \in DOMAIN blocks
      BY <1>1, <2>1, <3>1
    <3> QED
      BY <1>1, <3>2 DEF AreTyped
  <2>3. Good(e', {}, None)
    BY <1>1, <2>1, <2>2, EnterBlockIsGood
  <2>4. block' \in Nat
    BY <1>1, <2>1
  <2> QED
    BY <1>1, <2>1, <2>3, <2>4 DEF Consistent
<1>5. ASSUME InBlock
      PROVE  /\ blocks[block].last \in 1..Len(input)
             /\ blocks[block].liveOut \subseteq VRegs
  <2>1. IsBlock(blocks[block], input)
    BY <1>1, <1>5 DEF InBlock, AreTyped
  <2> QED
    BY <1>1, <2>1 DEF IsBlock
<1>6. CASE EncodeSingle
  <2>1. /\ input' = input /\ blocks' = blocks /\ block' = block /\ pc' = pc + 1
        /\ e' = Encoded(e, input[pc]) /\ InBlock /\ pc <= blocks[block].last
    BY <1>6 DEF EncodeSingle
  <2>2. pc \in 1..Len(input)
    BY <1>1, <1>5, <2>1
  <2>3. input[pc] \in Instructions
    BY <1>1, <2>2
  <2>4. Good(e', {}, None)
    BY <1>1, <2>1, <2>3, EncodedIsGood
  <2>5. pc' \in Nat \ {0}
    BY <1>1, <2>1
  <2> QED
    BY <1>1, <2>1, <2>4, <2>5 DEF Consistent
<1>7. CASE FlushLiveOut
  <2>1. /\ input' = input /\ blocks' = blocks /\ block' = block /\ pc' = pc
        /\ e' = Flushed(e, blocks[block].liveOut) /\ InBlock
    BY <1>7 DEF FlushLiveOut
  <2>2. Good(e', {}, None)
    BY <1>1, <1>5, <2>1, FlushedIsGood
  <2> QED
    BY <1>1, <2>1, <2>2 DEF Consistent
<1>8. CASE Finish
  <2>1. input' = input /\ blocks' = blocks /\ block' = block + 1 /\ pc' = pc
    BY <1>8 DEF Finish
  <2>2. Good(e', {}, None)
    BY <1>1, <1>8, CheckIsGood DEF Finish
  <2>3. block' \in Nat
    BY <1>1, <2>1
  <2> QED
    BY <1>1, <2>1, <2>2, <2>3 DEF Consistent
<1>9. CASE UNCHANGED vars
  BY <1>1, <1>9 DEF vars, Consistent
<1> QED
  BY <1>2, <1>3, <1>4, <1>6, <1>7, <1>8, <1>9 DEF Next

\* Whatever the functions, the pool and the registers: the encoder is consistent
\* between any two steps.
THEOREM EncoderIsConsistent == ASSUME LowersFunctions PROVE Spec => []Consistent
<1>1. Init => Consistent
  BY ConsistentInit
<1>2. Consistent /\ [Next]_vars => Consistent'
  BY ConsistentStep
<1> QED
  BY <1>1, <1>2, PTL DEF Spec

\* No physical register is ever lost or owned twice: whatever functions are
\* encoded, with whatever pool, the allocator's two maps are inverse to each other
\* between instructions and no scratch register is held.
THEOREM MapsStayInverse == ASSUME LowersFunctions PROVE Spec => []MapsInverse
<1>1. ASSUME Consistent PROVE MapsInverse
  <2>1. e.err = "" => Fine(e)
    BY DEF Fine
  <2>2. Fine(e) => Facts(e, {})
    BY <1>1 DEF Consistent, Good
  <2>3. Facts(e, {}) => /\ \A r \in Registers, v \in Owners : e.occupancy[r] = v <=> e.colour[v] = r
                        /\ \A g \in Guards : e.colour[g] = None
    BY DEF Facts, OneOwner
  <2> HIDE DEF Fine
  <2> QED
    BY <2>1, <2>2, <2>3 DEF MapsInverse
<1> QED
  BY <1>1, EncoderIsConsistent, PTL

\* Without products, quotients and indirect stores the virtual register map says
\* of every register what the allocator says: nothing reads a physical register
\* that has been given to somebody else.
THEOREM AllocatorAgreesAlways ==
  ASSUME LowersFunctions, Strict PROVE Spec => []AllocatorAgrees
<1>1. ASSUME Consistent PROVE e.err = "" => \A v \in VRegs : e.mat[v] = e.colour[v]
  <2>1. e.err = "" => Fine(e)
    BY DEF Fine
  <2>2. Fine(e) => Agree(e, None)
    BY <1>1 DEF Consistent, Good
  <2>3. None \notin VRegs
    BY NoneAssumption, OwnerAssumption DEF Owners
  <2>4. Agree(e, None) => \A v \in VRegs : e.mat[v] = e.colour[v]
    BY <2>3 DEF Agree
  <2> HIDE DEF Fine
  <2> QED
    BY <2>1, <2>2, <2>4
<1>2. Consistent /\ MapsInverse => AllocatorAgrees
  BY <1>1 DEF AllocatorAgrees
<1> QED
  BY <1>2, EncoderIsConsistent, MapsStayInverse, PTL
===============================================================================
