--------------------------- MODULE SsaLowering_proofs ---------------------------
(***************************************************************************)
(* For every set of registers and every body of nodes the front end may    *)
(* hand over: the walk keeps its types and its two maps inverse, no use    *)
(* count goes below zero, no register is missing that nothing was          *)
(* reported about, and the widths the handlers assert are the nodes'.      *)
(*                                                                         *)
(* The argument is that a count never falls below the number of counted    *)
(* reads still to come (CountsCover): the register that leaves the map is  *)
(* one that no later node reads (ReleasedIsUnread).                        *)
(***************************************************************************)
EXTENDS SsaLowering, FiniteSetTheorems, TLAPS

\* The references that have not been given up: those of the nodes to come, and those of the
\* comparison that is waiting for its branch.
Outstanding ==
    {ref \in References(body) : ref[1] >= pos \/ (pendingCompare # NoCompare /\ ref[1] = pendingCompare)}

CountsCover == \A r \in Registers : useCount[r] >= Cardinality(OfRegister(Outstanding, r))

PendingIsLast ==
    pendingCompare # NoCompare =>
        pendingCompare = pos - 1 /\ pendingCompare \in DOMAIN body /\ body[pendingCompare].kind = "Compare"

\* A register that can be found is that of a node the walk has passed, and no comparison's.
WindowDefined == \A r \in Registers : window[r] # InvalidIndex =>
    \E i \in 1 .. pos - 1 : body[i].result = r /\ body[i].kind # "Compare"

\* If operators are as wide as their operands, a virtual register has the width of the node
\* whose result it holds.
WidthsKept == OperandWidths(body) =>
    \A r \in Registers : window[r] # InvalidIndex =>
        \A i \in 1 .. pos - 1 : body[i].result = r => WidthOf(window[r]) = body[i].width

\* Of the kinds of nodes that allocate their result.
ReleasedIsUnread ==
    diagnostics = <<>> =>
        \A i \in 1 .. pos - 1 :
            body[i].result \in Registers /\ body[i].kind \notin {"Compare", "Modulo"}
                /\ window[body[i].result] = InvalidIndex =>
            \A j \in pos .. Len(body) : \A k \in DOMAIN body[j].operands : body[j].operands[k] # body[i].result

ComparesConsumed ==
    diagnostics = <<>> =>
        \A i \in 1 .. pos - 1 :
            /\ body[i].kind # "Modulo"
            /\ body[i].kind = "Compare" => pendingCompare = i \/ (i + 1 < pos /\ body[i + 1].kind = "Branch")

IInv ==
    /\ TypeOK
    /\ IsBody(body)
    /\ AllocationMapAgrees
    /\ CountsCover
    /\ PendingIsLast
    /\ WindowDefined
    /\ WidthsKept
    /\ ReleasedIsUnread
    /\ ComparesConsumed
-----------------------------------------------------------------------------
(* Sets of references are finite. *)

LEMMA PairsFinite ==
  ASSUME NEW i, NEW C, IsFiniteSet(C)
  PROVE  IsFiniteSet({<<i, k>> : k \in C})
<1> DEFINE T == {<<i, k>> : k \in C}
           pair == [k \in C |-> <<i, k>>]
<1>1. pair \in Surjection(C, T)
  BY DEF Surjection
<1> QED
  BY <1>1, FS_Surjection

LEMMA CountedFinite ==
  ASSUME NEW b, IsBody(b), NEW i \in DOMAIN b
  PROVE  IsFiniteSet(Counted(b[i]))
<1>1. b[i].operands \in Seq(Registers)
  BY DEF IsBody, IsNode
<1>2. DOMAIN b[i].operands = 1 .. Len(b[i].operands) /\ Len(b[i].operands) \in Nat
  BY <1>1
<1>3. IsFiniteSet(DOMAIN b[i].operands) /\ IsFiniteSet({0}) /\ IsFiniteSet({})
  <2>1. IsFiniteSet(1 .. Len(b[i].operands))
    BY <1>2, FS_Interval
  <2>2. IsFiniteSet({0})
    BY FS_Singleton
  <2>3. IsFiniteSet({})
    BY FS_EmptySet
  <2> QED
    BY <1>2, <2>1, <2>2, <2>3
<1>4. IsFiniteSet(DOMAIN b[i].operands \cup {0}) /\ IsFiniteSet(DOMAIN b[i].operands \cup {})
  BY <1>3, FS_Union
<1> QED
  BY <1>3, <1>4 DEF Counted

LEMMA ReferencesFinite ==
  ASSUME NEW b, IsBody(b)
  PROVE  IsFiniteSet(References(b))
<1> DEFINE Of(i) == {<<i, k>> : k \in Counted(b[i])}
           T == {Of(i) : i \in DOMAIN b}
           of == [i \in DOMAIN b |-> Of(i)]
<1>1. IsFiniteSet(DOMAIN b)
  BY FS_Interval DEF IsBody
<1>2. of \in Surjection(DOMAIN b, T)
  BY DEF Surjection
<1>3. IsFiniteSet(T)
  BY <1>1, <1>2, FS_Surjection
<1>4. \A i \in DOMAIN b : IsFiniteSet(Of(i))
  BY CountedFinite, PairsFinite
<1>5. IsFiniteSet(UNION T)
  BY <1>3, <1>4, FS_UNION
<1> QED
  BY <1>5 DEF References

LEMMA ReferenceMembers ==
  ASSUME NEW b, NEW i \in DOMAIN b, NEW k \in Counted(b[i])
  PROVE  <<i, k>> \in References(b)
BY DEF References
-----------------------------------------------------------------------------
(* Counting. *)

\* Two parts of a finite set that have nothing in common are no larger than the set.
LEMMA DisjointParts ==
  ASSUME NEW A, IsFiniteSet(A), NEW B, NEW C, B \subseteq A, C \subseteq A, B \cap C = {}
  PROVE  /\ Cardinality(A) \in Nat /\ Cardinality(B) \in Nat /\ Cardinality(C) \in Nat
         /\ Cardinality(B) + Cardinality(C) <= Cardinality(A)
<1>1. IsFiniteSet(B) /\ IsFiniteSet(C) /\ B \cup C \in SUBSET A
  BY FS_Subset
<1>2. IsFiniteSet(B \cup C) /\ Cardinality(B \cup C) = Cardinality(B) + Cardinality(C) - Cardinality({})
  BY <1>1, FS_Union
<1>3. Cardinality(B \cup C) <= Cardinality(A)
  BY <1>1, FS_Subset
<1> QED
  BY <1>1, <1>2, <1>3, FS_EmptySet, FS_CardinalityType

\* Giving up some outstanding references keeps the counts above those that are left, and
\* a register whose count reaches zero has none left.
LEMMA CountsStep ==
  ASSUME IsBody(body), CountsCover, useCount \in [Registers -> Int], body' = body,
         NEW refs, refs \subseteq Outstanding, Dereference(refs), Outstanding' \subseteq Outstanding \ refs
  PROVE  /\ useCount' \in [Registers -> Int]
         /\ CountsCover'
         /\ \A r \in Dropped(refs) : OfRegister(refs, r) # {} /\ OfRegister(Outstanding', r) = {}
<1>1. IsFiniteSet(Outstanding)
  BY ReferencesFinite, FS_Subset DEF Outstanding
<1>2. ASSUME NEW r \in Registers
      PROVE  LET a == Cardinality(OfRegister(Outstanding, r))
                 b == Cardinality(OfRegister(refs, r))
                 c == Cardinality(OfRegister(Outstanding', r))
             IN a \in Nat /\ b \in Nat /\ c \in Nat /\ b + c <= a
  <2>1. OfRegister(Outstanding, r) \in SUBSET Outstanding
    BY DEF OfRegister
  <2>2. IsFiniteSet(OfRegister(Outstanding, r))
    BY <1>1, <2>1, FS_Subset
  <2>3. /\ OfRegister(refs, r) \subseteq OfRegister(Outstanding, r)
        /\ OfRegister(Outstanding', r) \subseteq OfRegister(Outstanding, r)
        /\ OfRegister(refs, r) \cap OfRegister(Outstanding', r) = {}
    BY DEF OfRegister
  <2> QED
    BY <2>2, <2>3, DisjointParts
<1>3. \A r \in Registers : useCount'[r] = useCount[r] - Cardinality(OfRegister(refs, r))
  BY DEF Dereference
<1>4. useCount' \in [Registers -> Int]
  BY <1>2 DEF Dereference
<1>5. CountsCover'
  <2> SUFFICES ASSUME NEW r \in Registers
               PROVE  useCount'[r] >= Cardinality(OfRegister(Outstanding', r))
    BY DEF CountsCover, OfRegister
  <2> QED
    BY <1>2, <1>3 DEF CountsCover
<1>6. ASSUME NEW r \in Dropped(refs)
      PROVE  OfRegister(refs, r) # {} /\ OfRegister(Outstanding', r) = {}
  <2>1. r \in Registers /\ useCount[r] \in 1 .. Cardinality(OfRegister(refs, r))
    BY DEF Dropped
  <2>2. Cardinality(OfRegister(refs, r)) # 0 /\ Cardinality(OfRegister(Outstanding', r)) = 0
    BY <1>2, <2>1 DEF CountsCover
  <2>3. OfRegister(Outstanding', r) \in SUBSET Outstanding
    BY DEF OfRegister
  <2>4. IsFiniteSet(OfRegister(Outstanding', r))
    BY <1>1, <2>3, FS_Subset
  <2> QED
    BY <2>2, <2>4, FS_EmptySet
<1> QED
  BY <1>4, <1>5, <1>6
-----------------------------------------------------------------------------
(* The two maps. *)

Ssa == Registers \cup {NoRegister}

MapsInverse(w, s) ==
    /\ \A r \in Registers : w[r] # InvalidIndex => w[r] \in DOMAIN s /\ s[w[r]] = r
    /\ \A v \in DOMAIN s : s[v] # NoRegister => w[s[v]] = v

\* Whatever is taken out of the maps, they stay inverse.
LEMMA ReleasedMaps ==
  ASSUME TypeOK, AllocationMapAgrees, NEW refs
  PROVE  /\ WindowAfter(refs) \in [Registers -> Nat]
         /\ ReleasedSsa(refs) \in Seq(Ssa)
         /\ Len(ReleasedSsa(refs)) = Len(ssaByVirtual)
         /\ Len(ssaByVirtual) \in Nat
         /\ DOMAIN ReleasedSsa(refs) = 1 .. Len(ssaByVirtual)
         /\ MapsInverse(WindowAfter(refs), ReleasedSsa(refs))
<1>1. /\ Len(ssaByVirtual) \in Nat
      /\ DOMAIN ssaByVirtual = 1 .. Len(ssaByVirtual)
      /\ \A v \in DOMAIN ssaByVirtual : ssaByVirtual[v] \in Ssa
  BY DEF TypeOK, Ssa
<1>2. WindowAfter(refs) \in [Registers -> Nat]
  BY DEF WindowAfter, TypeOK, InvalidIndex
<1>3. ReleasedSsa(refs) \in [1 .. Len(ssaByVirtual) -> Ssa]
  BY <1>1 DEF ReleasedSsa, Ssa
<1>4. ReleasedSsa(refs) \in Seq(Ssa) /\ Len(ReleasedSsa(refs)) = Len(ssaByVirtual)
  BY <1>1, <1>3
<1>5. ASSUME NEW r \in Registers, WindowAfter(refs)[r] # InvalidIndex
      PROVE  /\ WindowAfter(refs)[r] \in DOMAIN ReleasedSsa(refs)
             /\ ReleasedSsa(refs)[WindowAfter(refs)[r]] = r
  <2>1. r \notin Dropped(refs) /\ WindowAfter(refs)[r] = window[r]
    BY <1>5 DEF WindowAfter
  <2>2. window[r] \in DOMAIN ssaByVirtual /\ ssaByVirtual[window[r]] = r
    BY <1>5, <2>1 DEF AllocationMapAgrees
  <2>3. ~\E q \in Dropped(refs) : window[q] = window[r]
    BY <1>5, <2>1, <2>2 DEF AllocationMapAgrees, Dropped
  <2> QED
    BY <2>1, <2>2, <2>3 DEF ReleasedSsa
<1>6. ASSUME NEW v \in DOMAIN ReleasedSsa(refs), ReleasedSsa(refs)[v] # NoRegister
      PROVE  WindowAfter(refs)[ReleasedSsa(refs)[v]] = v
  <2>1. /\ v \in DOMAIN ssaByVirtual
        /\ ~\E q \in Dropped(refs) : window[q] = v
        /\ ReleasedSsa(refs)[v] = ssaByVirtual[v]
    BY <1>6 DEF ReleasedSsa
  <2>2. ssaByVirtual[v] \in Registers /\ window[ssaByVirtual[v]] = v
    BY <1>1, <1>6, <2>1 DEF AllocationMapAgrees, Ssa
  <2> QED
    BY <2>1, <2>2 DEF WindowAfter
<1> QED
  BY <1>1, <1>2, <1>3, <1>4, <1>5, <1>6 DEF MapsInverse

LEMMA ReleaseKeepsMaps ==
  ASSUME TypeOK, AllocationMapAgrees, NEW refs, Release(refs)
  PROVE  /\ window' \in [Registers -> Nat]
         /\ ssaByVirtual' \in Seq(Ssa)
         /\ descriptors' = descriptors
         /\ AllocationMapAgrees'
<1>1. window' = WindowAfter(refs) /\ ssaByVirtual' = ReleasedSsa(refs) /\ descriptors' = descriptors
  BY DEF Release
<1>2. DOMAIN descriptors = 1 .. Len(ssaByVirtual)
  BY DEF AllocationMapAgrees, TypeOK
<1> QED
  BY <1>1, <1>2, ReleasedMaps DEF AllocationMapAgrees, MapsInverse

LEMMA EmplaceKeepsMaps ==
  ASSUME TypeOK, AllocationMapAgrees, NEW refs, NEW width \in Nat, NEW class \in {"Allocation", "Temporary"},
         Current.result \in Registers, window[Current.result] = InvalidIndex,
         EmplaceAllocate(refs, width, class)
  PROVE  /\ window' \in [Registers -> Nat]
         /\ window'[Current.result] # InvalidIndex
         /\ descriptors'[window'[Current.result]].width = width
         /\ \A v \in DOMAIN descriptors : descriptors'[v] = descriptors[v]
         /\ \A r \in Registers \ {Current.result} : window'[r] = WindowAfter(refs)[r]
         /\ ssaByVirtual' \in Seq(Ssa)
         /\ descriptors' \in Seq([width : Nat, class : {"Allocation", "Temporary"}])
         /\ AllocationMapAgrees'
<1> DEFINE n == Len(ssaByVirtual)
           W == WindowAfter(refs)
           S == ReleasedSsa(refs)
           R == Current.result
<1>1. /\ window' = [W EXCEPT ![R] = n + 1]
      /\ ssaByVirtual' = Append(S, R)
      /\ descriptors' = Append(descriptors, [width |-> width, class |-> class])
  BY DEF EmplaceAllocate, Allocated, NextVirtual
<1>2. /\ W \in [Registers -> Nat] /\ S \in Seq(Ssa) /\ Len(S) = n /\ n \in Nat /\ DOMAIN S = 1 .. n
      /\ MapsInverse(W, S)
  BY ReleasedMaps
<1>3. W[R] = InvalidIndex
  BY DEF WindowAfter
<1> HIDE DEF W, S, n, R
<1>4. window' \in [Registers -> Nat] /\ window'[R] = n + 1 /\ \A r \in Registers \ {R} : window'[r] = W[r]
  BY <1>1, <1>2 DEF R
<1>5. /\ ssaByVirtual' \in Seq(Ssa)
      /\ DOMAIN ssaByVirtual' = 1 .. n + 1
      /\ ssaByVirtual'[n + 1] = R
      /\ \A v \in 1 .. n : ssaByVirtual'[v] = S[v]
  BY <1>1, <1>2 DEF Ssa, R
<1>6. /\ descriptors' \in Seq([width : Nat, class : {"Allocation", "Temporary"}])
      /\ DOMAIN descriptors' = 1 .. n + 1
      /\ descriptors'[n + 1].width = width
      /\ \A v \in DOMAIN descriptors : descriptors'[v] = descriptors[v]
  <2>1. descriptors \in Seq([width : Nat, class : {"Allocation", "Temporary"}]) /\ DOMAIN descriptors = 1 .. n
    BY DEF AllocationMapAgrees, TypeOK, n
  <2>2. [width |-> width, class |-> class] \in [width : Nat, class : {"Allocation", "Temporary"}]
    OBVIOUS
  <2>3. Len(descriptors) = n
    BY <2>1, <1>2
  <2> QED
    BY <1>1, <2>1, <2>2, <2>3
<1>7. R \in Registers /\ n + 1 # InvalidIndex
  BY <1>2 DEF R, InvalidIndex
<1>8. MapsInverse(window', ssaByVirtual')
  <2>1. ASSUME NEW r \in Registers, window'[r] # InvalidIndex
        PROVE  window'[r] \in 1 .. n + 1 /\ ssaByVirtual'[window'[r]] = r
    <3>1. CASE r = R
      BY <3>1, <1>2, <1>4, <1>5
    <3>2. CASE r # R
      <4>1. window'[r] = W[r] /\ W[r] \in 1 .. n /\ S[W[r]] = r
        BY <2>1, <3>2, <1>2, <1>4 DEF MapsInverse
      <4> QED
        BY <4>1, <1>2, <1>5
    <3> QED
      BY <3>1, <3>2
  <2>2. ASSUME NEW v \in 1 .. n + 1, ssaByVirtual'[v] # NoRegister
        PROVE  window'[ssaByVirtual'[v]] = v
    <3>1. CASE v = n + 1
      BY <3>1, <1>4, <1>5
    <3>2. CASE v \in 1 .. n
      <4>1. ssaByVirtual'[v] = S[v] /\ W[S[v]] = v /\ S[v] \in Registers
        BY <2>2, <3>2, <1>2, <1>5 DEF MapsInverse, Ssa
      <4>2. S[v] # R
        BY <4>1, <3>2, <1>2, <1>3 DEF InvalidIndex
      <4> QED
        BY <4>1, <4>2, <1>4
    <3> QED
      BY <3>1, <3>2, <1>2
  <2> QED
    BY <2>1, <2>2, <1>5 DEF MapsInverse
<1> QED
  BY <1>4, <1>5, <1>6, <1>7, <1>8 DEF AllocationMapAgrees, MapsInverse, R, W
-----------------------------------------------------------------------------
(* The handlers, all in one shape. *)

LEMMA SequenceElement ==
  ASSUME NEW S, NEW s \in Seq(S), NEW i \in DOMAIN s
  PROVE  s[i] \in S
OBVIOUS

LEMMA AppendTyped ==
  ASSUME NEW S, NEW s \in Seq(S), NEW e \in S
  PROVE  Append(s, e) \in Seq(S) /\ Append(s, e) # <<>>
<1>1. Append(s, e) \in Seq(S)
  OBVIOUS
<1>2. Len(Append(s, e)) = Len(s) + 1 /\ Len(s) \in Nat
  OBVIOUS
<1>3. Append(s, e) # <<>>
  BY <1>2
<1> QED
  BY <1>1, <1>3

LEMMA KeepIsRelease ==
  ASSUME TypeOK, KeepMaps
  PROVE  Release({})
<1>1. \A r \in Registers : OfRegister({}, r) = {}
  BY DEF OfRegister
<1>2. Cardinality({}) = 0
  BY FS_EmptySet
<1>3. \A r \in Registers : Cardinality(OfRegister({}, r)) = 0 /\ useCount[r] \in Int
  BY <1>1, <1>2 DEF TypeOK
<1>4. useCount = [r \in Registers |-> useCount[r] - Cardinality(OfRegister({}, r))]
  <2>1. \A r \in Registers : useCount[r] - Cardinality(OfRegister({}, r)) = useCount[r]
    BY <1>3
  <2>2. useCount = [r \in Registers |-> useCount[r]]
    BY DEF TypeOK
  <2> QED
    BY <2>1, <2>2
<1>5. Dropped({}) = {}
  BY <1>3 DEF Dropped
<1>6. window = WindowAfter({})
  BY <1>5 DEF WindowAfter, TypeOK
<1>7. ssaByVirtual = ReleasedSsa({})
  BY <1>5 DEF ReleasedSsa, TypeOK
<1> QED
  BY <1>4, <1>6, <1>7 DEF KeepMaps, Release, Dereference

\* A handler that stores no result leaves a node that defines none, or reports.
Silently == Current.result \notin Registers \/ Current.kind = "Compare" \/ diagnostics' # <<>>

Effect(refs) ==
    \/ Release(refs) /\ Silently
    \/ /\ Current.result \in Registers
       /\ Current.kind # "Compare"
       /\ \E width \in Nat, class \in {"Allocation", "Temporary"} :
              /\ EmplaceAllocate(refs, width, class)
              /\ OperandWidths(body) => width = Current.width

Reads == IF pendingCompare = NoCompare THEN {{}, ReadsOf(pos)} ELSE {{}, ReadsOf(pos), ReadsOf(pendingCompare)}

Shape ==
    /\ diagnostics' \in Seq(Messages)
    /\ \E refs \in Reads :
           /\ refs \subseteq References(body)
           /\ Effect(refs)
           /\ pendingCompare' # NoCompare => pendingCompare' = pos /\ Current.kind = "Compare" /\ refs = {}
    /\ diagnostics' = <<>> =>
           Reported = <<>> /\ Current.kind # "Modulo" /\ (Current.kind = "Compare" => pendingCompare' = pos)

\* An operand that is found has a register as wide as the node that defined it.
LEMMA OperandsHaveTheirWidths ==
  ASSUME WindowDefined, WidthsKept, OperandWidths(body), Found,
         NEW k \in DOMAIN Current.operands, Current.operands[k] \in Registers
  PROVE  \E j \in 1 .. pos - 1 :
             /\ body[j].result = Current.operands[k] /\ body[j].kind # "Compare"
             /\ WidthOf(Source(k)) = body[j].width
<1>1. Source(k) = window[Current.operands[k]] /\ window[Current.operands[k]] # InvalidIndex
  BY DEF Found, Source
<1>2. PICK j \in 1 .. pos - 1 : body[j].result = Current.operands[k] /\ body[j].kind # "Compare"
  BY <1>1 DEF WindowDefined
<1> QED
  BY <1>1, <1>2 DEF WidthsKept

\* What is known at every node before its handler runs.
LEMMA AtNode ==
  ASSUME IInv, pos \in DOMAIN body
  PROVE  /\ IsNode(Current)
         /\ DOMAIN body = 1 .. Len(body) /\ Len(body) \in Nat /\ pos \in 1 .. Len(body)
         /\ Current.kind # "IncomingParameter" => ReadsOf(pos) \subseteq References(body)
         /\ pendingCompare # NoCompare => ReadsOf(pendingCompare) \subseteq References(body)
         /\ Reported \in Seq(Messages)
         /\ \A message \in Messages : Append(Reported, message) \in Seq(Messages) /\ Append(Reported, message) # <<>>
         /\ Reported = <<>> => diagnostics = <<>> /\ (pendingCompare = NoCompare \/ Current.kind = "Branch")
         /\ Current.kind \in Binary \cup Unary /\ Found =>
                /\ WidthOf(Source(1)) \in Nat
                /\ OperandWidths(body) => WidthOf(Source(1)) = Current.width
<1>1. IsNode(Current) /\ DOMAIN body = 1 .. Len(body) /\ Len(body) \in Nat /\ pos \in 1 .. Len(body)
  BY DEF IInv, IsBody, Current
<1>2. Current.kind # "IncomingParameter" => ReadsOf(pos) \subseteq References(body)
  BY DEF ReadsOf, References, Counted, Current
<1>3. pendingCompare # NoCompare => ReadsOf(pendingCompare) \subseteq References(body)
  <2>1. pendingCompare # NoCompare => pendingCompare \in DOMAIN body /\ body[pendingCompare].kind = "Compare"
    BY DEF IInv, PendingIsLast
  <2> QED
    BY <2>1 DEF ReadsOf, References, Counted
<1>4. /\ Reported \in Seq(Messages)
      /\ Reported = <<>> => diagnostics = <<>> /\ (pendingCompare = NoCompare \/ Current.kind = "Branch")
  <2>1. diagnostics \in Seq(Messages)
    BY DEF IInv, TypeOK
  <2>2. "Materialising a comparison result" \in Messages
    BY DEF Messages
  <2>3. /\ Append(diagnostics, "Materialising a comparison result") \in Seq(Messages)
        /\ Append(diagnostics, "Materialising a comparison result") # <<>>
    BY <2>1, <2>2, AppendTyped
  <2> QED
    BY <2>1, <2>3 DEF Reported
<1>5. \A message \in Messages : Append(Reported, message) \in Seq(Messages) /\ Append(Reported, message) # <<>>
  BY <1>4, AppendTyped
<1>6. ASSUME Current.kind \in Binary \cup Unary, Found
      PROVE  WidthOf(Source(1)) \in Nat /\ (OperandWidths(body) => WidthOf(Source(1)) = Current.width)
  <2>1. 1 \in DOMAIN Current.operands /\ Current.operands[1] \in Registers
    <3>1. Current.operands \in Seq(Registers) /\ Current.operands # <<>>
      BY <1>1, <1>6 DEF IsNode
    <3> QED
      BY <3>1
  <2>2. Source(1) \in DOMAIN descriptors
    <3>1. Source(1) = window[Current.operands[1]] /\ Source(1) # InvalidIndex
      BY <1>6, <2>1 DEF Found, Source
    <3> QED
      BY <2>1, <3>1 DEF IInv, AllocationMapAgrees
  <2>3. \A v \in DOMAIN descriptors : WidthOf(v) \in Nat
    <3>1. \A v \in DOMAIN descriptors : descriptors[v] \in [width : Nat, class : {"Allocation", "Temporary"}]
      BY SequenceElement DEF IInv, TypeOK
    <3> QED
      BY <3>1 DEF WidthOf
  <2>4. ASSUME OperandWidths(body)
        PROVE  WidthOf(Source(1)) = Current.width
    <3>1. PICK j \in 1 .. pos - 1 :
              /\ body[j].result = Current.operands[1] /\ body[j].kind # "Compare"
              /\ WidthOf(Source(1)) = body[j].width
      BY <1>6, <2>1, <2>4, OperandsHaveTheirWidths DEF IInv
    <3>2. j \in WithRegister(body, pos, 1)
      BY <3>1 DEF WithRegister, Current
    <3> QED
      BY <1>6, <2>1, <2>4, <3>1, <3>2 DEF OperandWidths, Current
  <2> QED
    BY <2>2, <2>3, <2>4
<1> QED
  BY <1>1, <1>2, <1>3, <1>4, <1>5, <1>6

\* The operator nodes share one computation, whichever the operator.
LEMMA OperatorNodesCompute ==
  ASSUME ParseOperatorNode
  PROVE  Current.kind \in Binary \cup Unary /\ Compute(Current.kind)
<1>1. \A kind : Compute(kind) => Current.kind = kind
  BY DEF Compute
<1>2. \E kind \in Binary \cup Unary : Compute(kind)
  BY DEF ParseOperatorNode, Binary, Unary, ParseAddNode, ParseSubNode, ParseLeftShiftNode, ParseRightShiftNode,
         ParseBinOrNode, ParseBinAndNode, ParseBinXorNode, ParseBitwiseNotNode, ParseMultiplicationNode,
         ParseDivisionNode, ParseArithmeticNegationNode
<1> QED
  BY <1>1, <1>2

\* Every handler gives up the reads of its node, of the comparison it waited for, or none.
LEMMA HandlersHaveShape ==
  ASSUME IInv, ParseNode
  PROVE  Shape
<1> DEFINE Kept == Release({}) /\ {} \in Reads /\ {} \subseteq References(body)
           Read == ReadsOf(pos) \in Reads /\ (Current.kind # "IncomingParameter" => ReadsOf(pos) \subseteq References(body))
<1>1. pos \in DOMAIN body
  BY DEF ParseNode
<1>2. /\ IsNode(Current)
      /\ Reported \in Seq(Messages)
      /\ \A message \in Messages : Append(Reported, message) \in Seq(Messages) /\ Append(Reported, message) # <<>>
      /\ Current.kind \in Binary \cup Unary /\ Found =>
             WidthOf(Source(1)) \in Nat /\ (OperandWidths(body) => WidthOf(Source(1)) = Current.width)
      /\ pendingCompare # NoCompare => ReadsOf(pendingCompare) \subseteq References(body)
      /\ pos # NoCompare
  BY <1>1, AtNode DEF NoCompare
<1>3. Read
  BY <1>1, AtNode DEF Reads
<1>4. KeepMaps => Kept
  BY KeepIsRelease DEF IInv, Reads
<1>5. Current.kind \notin Defining \cup {"Call"} => Current.result \notin Registers
  BY <1>2, RegistersAssumption DEF IsNode
<1>6. Current.kind \in Defining => Current.result \in Registers
  BY <1>2 DEF IsNode
<1>7. Current.width \in Nat
  BY <1>2 DEF IsNode
<1>8. CASE ParseOperatorNode
  <2>1. Current.kind \in Binary \cup Unary /\ Compute(Current.kind)
    BY <1>8, OperatorNodesCompute
  <2> QED
    BY <2>1, <1>2, <1>3, <1>6 DEF Compute, Shape, Effect, Emit, Settled, Defining, Binary, Unary
<1>9. CASE ParseResizingNode
  BY <1>9, <1>2, <1>3, <1>6, <1>7 DEF ParseResizingNode, Shape, Effect, Emit, Settled, Defining, Resizing
<1>10. CASE ParseAllocateNode
  BY <1>10, <1>2, <1>6, <1>7 DEF ParseAllocateNode, Shape, Effect, Settled, Defining, Leaf, Reads
<1>11. CASE ParseIntNode
  BY <1>11, <1>2, <1>6, <1>7 DEF ParseIntNode, Shape, Effect, Emit, Settled, Defining, Leaf, Reads
<1>12. CASE ParseStoreNode
  BY <1>12, <1>2, <1>3, <1>5 DEF ParseStoreNode, Shape, Effect, Silently, Emit, Settled, Defining, Binary, Unary, Resizing, Leaf, ThroughPointer
<1>13. CASE ParseIndirectStoreNode
  BY <1>13, <1>2, <1>3, <1>5 DEF ParseIndirectStoreNode, Shape, Effect, Silently, Emit, Settled, Defining, Binary, Unary, Resizing, Leaf, ThroughPointer
<1>14. CASE ParseFillingNode
  BY <1>14, <1>2, <1>4, <1>5 DEF ParseFillingNode, Filling, Shape, Effect, Silently, Emit, Settled, Defining, Binary, Unary, Resizing, Leaf, ThroughPointer
<1>15. CASE ParseUnstorableArray
  BY <1>15, <1>2, <1>4, <1>5 DEF ParseUnstorableArray, Messages, Shape, Effect, Silently, Report, Settled, Defining, Binary, Unary, Resizing, Leaf, ThroughPointer
<1>16. CASE ParseReturnNode
  BY <1>16, <1>2, <1>3, <1>5 DEF ParseReturnNode, Shape, Effect, Silently, Emit, Settled, Defining, Binary, Unary, Resizing, Leaf, ThroughPointer
<1>17. CASE ParseThroughPointerNode
  BY <1>17, <1>2, <1>6, <1>7 DEF ParseThroughPointerNode, Messages, ThroughPointer, Shape, Effect, Emit, Report, Settled, Defining, Reads
<1>18. CASE ParseCallNode
  <2>1. Current.kind = "Call" /\ pendingCompare' = NoCompare /\ diagnostics' = Reported
    BY <1>18 DEF ParseCallNode, Settled
  <2>2. CASE Current.result = NoRegister
    BY <2>1, <2>2, <1>2, <1>4, <1>18, RegistersAssumption DEF ParseCallNode, Shape, Effect, Silently
  <2>3. CASE Current.result # NoRegister
    <3>1. Current.result \in Registers
      BY <2>1, <2>3, <1>2 DEF IsNode, Defining, Binary, Unary, Resizing, Leaf, ThroughPointer
    <3> QED
      BY <2>1, <2>3, <3>1, <1>2, <1>7, <1>18 DEF ParseCallNode, Shape, Effect, Reads
  <2> QED
    BY <2>2, <2>3
<1>19. CASE ParseCallMissingArgument
  BY <1>19, <1>2, <1>4 DEF ParseCallMissingArgument, Messages, Shape, Effect, Silently, Settled
<1>20. CASE ParseCompareNode
  BY <1>20, <1>2, <1>4 DEF ParseCompareNode, Shape, Effect, Silently
<1>21. CASE ParseBranchNode
  <2>1. ReadsOf(pendingCompare) \in Reads /\ ReadsOf(pendingCompare) \subseteq References(body)
    BY <1>2, <1>21 DEF ParseBranchNode, Consumes, Reads
  <2> QED
    BY <2>1, <1>2, <1>5, <1>21 DEF ParseBranchNode, Shape, Effect, Silently, Settled, Defining, Binary, Unary, Resizing, Leaf, ThroughPointer
<1>22. CASE ParseBranchAlone
  BY <1>22, <1>2, <1>4 DEF ParseBranchAlone, Messages, Shape, Effect, Silently, Report, Settled
<1>23. CASE ParseLabelNode
  BY <1>23, <1>2, <1>4, <1>5 DEF ParseLabelNode, Messages, Shape, Effect, Silently, Report, Emit, Settled, Defining, Binary, Unary, Resizing, Leaf, ThroughPointer
<1>24. CASE ParseGotoNode
  BY <1>24, <1>2, <1>4, <1>5 DEF ParseGotoNode, Shape, Effect, Silently, Emit, Settled, Defining, Binary, Unary, Resizing, Leaf, ThroughPointer
<1>25. CASE ParseUnsupportedNode
  BY <1>25, <1>2, <1>4 DEF ParseUnsupportedNode, Messages, Shape, Effect, Silently, Report, Settled
<1>26. CASE CatchVirtualNotFound
  BY <1>26, <1>2, <1>4 DEF CatchVirtualNotFound, Messages, Shape, Effect, Silently, Report, Settled
<1> QED
  BY <1>8, <1>9, <1>10, <1>11, <1>12, <1>13, <1>14, <1>15, <1>16, <1>17, <1>18, <1>19, <1>20, <1>21, <1>22,
     <1>23, <1>24, <1>25, <1>26 DEF ParseNode
-----------------------------------------------------------------------------
(* The invariant. *)

\* What the maps are after a node: a register is lost only when its count reached zero.
LEMMA EffectOnMaps ==
  ASSUME IInv, pos \in DOMAIN body, NEW refs, Effect(refs)
  PROVE  /\ Dereference(refs)
         /\ window' \in [Registers -> Nat]
         /\ ssaByVirtual' \in Seq(Ssa)
         /\ descriptors' \in Seq([width : Nat, class : {"Allocation", "Temporary"}])
         /\ AllocationMapAgrees'
         /\ \A r \in Registers : window'[r] # InvalidIndex =>
                \/ window[r] # InvalidIndex /\ r # Current.result /\ descriptors'[window'[r]].width = WidthOf(window[r])
                \/ /\ r = Current.result /\ Current.kind # "Compare"
                   /\ OperandWidths(body) => descriptors'[window'[r]].width = Current.width
         /\ \A r \in Registers : window'[r] = InvalidIndex => window[r] = InvalidIndex \/ r \in Dropped(refs)
         /\ Current.result \in Registers => window'[Current.result] # InvalidIndex \/ Silently
<1>1. TypeOK /\ AllocationMapAgrees
  BY DEF IInv
<1>2. Current.result \in Registers => window[Current.result] = InvalidIndex
  <2>1. SUFFICES ASSUME Current.result \in Registers, window[Current.result] # InvalidIndex PROVE FALSE
    OBVIOUS
  <2>2. PICK i \in 1 .. pos - 1 : body[i].result = Current.result
    BY <2>1 DEF IInv, WindowDefined
  <2>3. i \in DOMAIN body /\ i # pos
    BY <1>1 DEF IInv, IsBody, TypeOK
  <2> QED
    BY <2>1, <2>2, <2>3, RegistersAssumption DEF IInv, IsBody, SingleAssignment, Current
<1>3. DOMAIN descriptors = DOMAIN ssaByVirtual /\ \A r \in Registers : window[r] # InvalidIndex => window[r] \in DOMAIN descriptors
  BY <1>1 DEF AllocationMapAgrees
<1>4. CASE Release(refs) /\ Silently
  <2>1. /\ \A r \in Registers : window'[r] = IF r \in Dropped(refs) THEN InvalidIndex ELSE window[r]
        /\ descriptors' = descriptors
    BY <1>4 DEF Release, WindowAfter
  <2>2. descriptors \in Seq([width : Nat, class : {"Allocation", "Temporary"}])
    BY <1>1 DEF TypeOK
  <2>3. /\ window' \in [Registers -> Nat]
        /\ ssaByVirtual' \in Seq(Ssa)
        /\ AllocationMapAgrees'
        /\ Dereference(refs)
    BY <1>1, <1>4, ReleaseKeepsMaps DEF Release
  <2>4. \A r \in Registers : window'[r] # InvalidIndex =>
            window[r] # InvalidIndex /\ r # Current.result /\ descriptors'[window'[r]].width = WidthOf(window[r])
    BY <1>2, <2>1 DEF WidthOf
  <2> QED
    BY <1>4, <2>1, <2>2, <2>3, <2>4
<1>5. CASE /\ Current.result \in Registers
           /\ Current.kind # "Compare"
           /\ \E width \in Nat, class \in {"Allocation", "Temporary"} :
                  EmplaceAllocate(refs, width, class) /\ (OperandWidths(body) => width = Current.width)
  <2>1. PICK width \in Nat, class \in {"Allocation", "Temporary"} :
            EmplaceAllocate(refs, width, class) /\ (OperandWidths(body) => width = Current.width)
    BY <1>5
  <2>2. /\ window' \in [Registers -> Nat]
        /\ window'[Current.result] # InvalidIndex
        /\ descriptors'[window'[Current.result]].width = width
        /\ \A v \in DOMAIN descriptors : descriptors'[v] = descriptors[v]
        /\ \A r \in Registers \ {Current.result} : window'[r] = WindowAfter(refs)[r]
        /\ ssaByVirtual' \in Seq(Ssa)
        /\ descriptors' \in Seq([width : Nat, class : {"Allocation", "Temporary"}])
        /\ AllocationMapAgrees'
    BY <1>1, <1>2, <1>5, <2>1, EmplaceKeepsMaps
  <2>3. \A r \in Registers \ {Current.result} :
            window'[r] = IF r \in Dropped(refs) THEN InvalidIndex ELSE window[r]
    BY <2>2 DEF WindowAfter
  <2>4. \A r \in Registers \ {Current.result} : window'[r] # InvalidIndex =>
            window[r] # InvalidIndex /\ descriptors'[window'[r]].width = WidthOf(window[r])
    BY <1>3, <2>2, <2>3 DEF WidthOf
  <2>5. OperandWidths(body) => descriptors'[window'[Current.result]].width = Current.width
    BY <2>1, <2>2
  <2>6. Dereference(refs)
    BY <2>1 DEF EmplaceAllocate
  <2> QED
    BY <1>5, <2>2, <2>3, <2>4, <2>5, <2>6
<1> QED
  BY <1>4, <1>5 DEF Effect

\* The references a node gives up are outstanding before it and not after it.
LEMMA GivenUp ==
  ASSUME IInv, pos \in DOMAIN body, Advance, NEW refs \in Reads, refs \subseteq References(body),
         pendingCompare' # NoCompare => pendingCompare' = pos /\ refs = {}
  PROVE  /\ refs \subseteq Outstanding
         /\ Outstanding' \subseteq Outstanding \ refs
         /\ \A ref \in refs : /\ ref[1] \in 1 .. pos /\ ref[1] \in DOMAIN body
                              /\ ref[2] \in DOMAIN body[ref[1]].operands
                              /\ RegisterAt(body, ref) = body[ref[1]].operands[ref[2]]
         /\ \A j \in DOMAIN body : \A k \in Counted(body[j]) : j > pos => <<j, k>> \in Outstanding'
<1>1. pos \in Nat /\ pos >= 1 /\ DOMAIN body = 1 .. Len(body) /\ Len(body) \in Nat
  BY DEF IInv, IsBody, TypeOK
<1>2. \A ref \in References(body) : ref[1] \in DOMAIN body /\ ref[1] \in Nat
  BY <1>1 DEF References
<1>3. pendingCompare # NoCompare => pendingCompare = pos - 1 /\ pendingCompare \in DOMAIN body
  BY DEF IInv, PendingIsLast
<1>4. pos' = pos + 1 /\ body' = body
  BY DEF Advance
<1>5. \A ref \in refs : /\ ref[1] = pos \/ (pendingCompare # NoCompare /\ ref[1] = pendingCompare)
                        /\ ref[1] \in DOMAIN body
                        /\ ref[2] \in DOMAIN body[ref[1]].operands
  BY <1>3 DEF Reads, ReadsOf
<1>6. refs \subseteq Outstanding
  BY <1>1, <1>5 DEF Outstanding
<1>7. Outstanding' \subseteq Outstanding \ refs
  <2> SUFFICES ASSUME NEW ref \in Outstanding' PROVE ref \in Outstanding /\ ref \notin refs
    OBVIOUS
  <2>1. /\ ref \in References(body)
        /\ ref[1] >= pos + 1 \/ (pendingCompare' # NoCompare /\ ref[1] = pendingCompare')
    BY <1>4 DEF Outstanding
  <2>2. CASE ref[1] >= pos + 1
    BY <1>1, <1>2, <1>3, <1>5, <2>1, <2>2 DEF Outstanding
  <2>3. CASE pendingCompare' # NoCompare /\ ref[1] = pendingCompare'
    BY <1>1, <1>2, <2>1, <2>3 DEF Outstanding
  <2> QED
    BY <2>1, <2>2, <2>3
<1>8. \A ref \in refs : ref[1] \in 1 .. pos /\ RegisterAt(body, ref) = body[ref[1]].operands[ref[2]]
  <2> SUFFICES ASSUME NEW ref \in refs
               PROVE  ref[1] \in 1 .. pos /\ RegisterAt(body, ref) = body[ref[1]].operands[ref[2]]
    OBVIOUS
  <2>1. body[ref[1]].operands \in Seq(Registers)
    BY <1>5 DEF IInv, IsBody, IsNode
  <2>2. ref[2] # 0
    BY <1>5, <2>1
  <2> QED
    BY <1>1, <1>3, <1>5, <2>2 DEF RegisterAt
<1>9. \A j \in DOMAIN body : \A k \in Counted(body[j]) : j > pos => <<j, k>> \in Outstanding'
  BY <1>1, <1>4, ReferenceMembers DEF Outstanding
<1> QED
  BY <1>5, <1>6, <1>7, <1>8, <1>9

\* A register that a node releases is read by no node after it.
LEMMA ReleasedStaysUnread ==
  ASSUME IInv, ParseNode, Shape
  PROVE  ReleasedIsUnread'
<1>1. pos \in DOMAIN body /\ Advance /\ pos' = pos + 1 /\ body' = body
  BY DEF ParseNode, Advance
<1>2. /\ pos \in Nat /\ pos >= 1 /\ DOMAIN body = 1 .. Len(body) /\ Len(body) \in Nat
      /\ \A i \in DOMAIN body : IsNode(body[i])
  BY DEF IInv, IsBody, TypeOK
<1>3. PICK refs \in Reads : /\ refs \subseteq References(body)
                            /\ Effect(refs)
                            /\ pendingCompare' # NoCompare => pendingCompare' = pos /\ Current.kind = "Compare" /\ refs = {}
  BY DEF Shape
<1>4. /\ refs \subseteq Outstanding /\ Outstanding' \subseteq Outstanding \ refs
      /\ \A ref \in refs : /\ ref[1] \in 1 .. pos /\ ref[1] \in DOMAIN body
                           /\ ref[2] \in DOMAIN body[ref[1]].operands
                           /\ RegisterAt(body, ref) = body[ref[1]].operands[ref[2]]
      /\ \A j \in DOMAIN body : \A k \in Counted(body[j]) : j > pos => <<j, k>> \in Outstanding'
  BY <1>1, <1>3, GivenUp
<1>5. /\ Dereference(refs)
      /\ \A r \in Registers : window'[r] = InvalidIndex => window[r] = InvalidIndex \/ r \in Dropped(refs)
      /\ Current.result \in Registers => window'[Current.result] # InvalidIndex \/ Silently
  BY <1>1, <1>3, EffectOnMaps
<1>6. \A r \in Dropped(refs) : OfRegister(refs, r) # {} /\ OfRegister(Outstanding', r) = {}
  BY <1>1, <1>4, <1>5, CountsStep DEF IInv, TypeOK
<1> SUFFICES ASSUME diagnostics' = <<>>,
                    NEW i \in 1 .. pos, body[i].result \in Registers, body[i].kind \notin {"Compare", "Modulo"},
                    window'[body[i].result] = InvalidIndex,
                    NEW j \in pos + 1 .. Len(body), NEW k \in DOMAIN body[j].operands,
                    body[j].operands[k] = body[i].result
             PROVE  FALSE
  BY <1>1, <1>2 DEF ReleasedIsUnread
<1> DEFINE r == body[i].result
<1>7. diagnostics = <<>>
  BY <1>1, AtNode DEF Shape
<1>8. i # pos
  BY <1>5 DEF Silently, Current
<1>9. window[r] # InvalidIndex
  BY <1>2, <1>7, <1>8 DEF IInv, ReleasedIsUnread
<1>10. r \in Dropped(refs)
  BY <1>5, <1>9
<1>11. j \in DOMAIN body /\ j > pos /\ body[j].operands \in Seq(Registers) /\ k # 0
  BY <1>2 DEF IsNode
<1>12. CASE body[j].kind # "IncomingParameter"
  <2>1. <<j, k>> \in Outstanding' /\ RegisterAt(body, <<j, k>>) = r
    BY <1>4, <1>11, <1>12 DEF Counted, RegisterAt
  <2> QED
    BY <1>6, <1>10, <2>1 DEF OfRegister
<1>13. CASE body[j].kind = "IncomingParameter"
  <2>1. k = 1
    BY <1>2, <1>11, <1>13 DEF IsNode, Filling
  <2>2. PICK ref \in refs : RegisterAt(body, ref) = r
    BY <1>6, <1>10 DEF OfRegister
  <2>3. ref[1] \in 1 .. j - 1 /\ ref[2] \in DOMAIN body[ref[1]].operands /\ body[ref[1]].operands[ref[2]] = r
    BY <1>2, <1>4, <2>2
  <2> QED
    BY <1>11, <1>13, <2>1, <2>3 DEF IInv, IsBody, ParameterFirst
<1> QED
  BY <1>12, <1>13

LEMMA InitialInvariant == Init => IInv
<1> SUFFICES ASSUME NEW b \in Bodies, Start(b) PROVE IInv
  BY DEF Init
<1>1. /\ body = b /\ pos = 1 /\ useCount = CreateReferenceMap(b) /\ window = [r \in Registers |-> InvalidIndex]
      /\ ssaByVirtual = <<>> /\ descriptors = <<>> /\ pendingCompare = NoCompare /\ diagnostics = <<>>
  BY DEF Start
<1>2. IsBody(body) /\ Len(body) \in Nat
  BY <1>1, BodiesAssumption DEF IsBody
<1>3. IsFiniteSet(References(body))
  BY <1>2, ReferencesFinite
<1>4. \A r \in Registers :
          /\ Cardinality(OfRegister(References(body), r)) \in Nat
          /\ Cardinality(OfRegister(Outstanding, r)) <= Cardinality(OfRegister(References(body), r))
          /\ useCount[r] = Cardinality(OfRegister(References(body), r))
  <2> SUFFICES ASSUME NEW r \in Registers
               PROVE  /\ Cardinality(OfRegister(References(body), r)) \in Nat
                      /\ Cardinality(OfRegister(Outstanding, r)) <= Cardinality(OfRegister(References(body), r))
                      /\ useCount[r] = Cardinality(OfRegister(References(body), r))
    OBVIOUS
  <2>1. OfRegister(References(body), r) \in SUBSET References(body)
    BY DEF OfRegister
  <2>2. IsFiniteSet(OfRegister(References(body), r))
    BY <1>3, <2>1, FS_Subset
  <2>3. OfRegister(Outstanding, r) \in SUBSET OfRegister(References(body), r)
    BY DEF OfRegister, Outstanding
  <2> QED
    BY <1>1, <2>2, <2>3, FS_Subset, FS_CardinalityType DEF CreateReferenceMap, OfRegister
<1>5. CountsCover
  <2>1. \A r \in Registers : Cardinality(OfRegister(Outstanding, r)) \in Nat
    <3> SUFFICES ASSUME NEW r \in Registers PROVE Cardinality(OfRegister(Outstanding, r)) \in Nat
      OBVIOUS
    <3>1. OfRegister(Outstanding, r) \in SUBSET References(body)
      BY DEF OfRegister, Outstanding
    <3> QED
      BY <1>3, <3>1, FS_Subset, FS_CardinalityType
  <2> QED
    BY <1>4, <2>1 DEF CountsCover
<1>6. TypeOK
  <2>1. useCount \in [Registers -> Int]
    <3>1. useCount = [r \in Registers |-> Cardinality(OfRegister(References(body), r))]
      BY <1>1 DEF CreateReferenceMap, OfRegister
    <3> QED
      BY <1>4, <3>1
  <2> QED
    BY <1>1, <1>2, <2>1 DEF TypeOK, InvalidIndex, NoCompare
<1>7. AllocationMapAgrees
  BY <1>1 DEF AllocationMapAgrees
<1>8. PendingIsLast /\ WindowDefined /\ WidthsKept /\ ReleasedIsUnread /\ ComparesConsumed
  BY <1>1 DEF PendingIsLast, WindowDefined, WidthsKept, ReleasedIsUnread, ComparesConsumed
<1> QED
  BY <1>2, <1>5, <1>6, <1>7, <1>8 DEF IInv

LEMMA StepKeepsInvariant == IInv /\ [ParseNode]_vars => IInv'
<1>1. ASSUME IInv, UNCHANGED vars PROVE IInv'
  <2> USE DEF vars
  <2>1. TypeOK' /\ IsBody(body)' /\ AllocationMapAgrees' /\ CountsCover'
    BY <1>1 DEF IInv, TypeOK, AllocationMapAgrees, CountsCover, Outstanding, OfRegister
  <2>2. PendingIsLast' /\ WindowDefined' /\ WidthsKept' /\ ReleasedIsUnread' /\ ComparesConsumed'
    BY <1>1 DEF IInv, PendingIsLast, WindowDefined, WidthsKept, WidthOf, ReleasedIsUnread, ComparesConsumed
  <2> QED
    BY <2>1, <2>2 DEF IInv
<1>2. ASSUME IInv, ParseNode PROVE IInv'
  <2>1. pos \in DOMAIN body /\ Advance /\ pos' = pos + 1 /\ body' = body
    BY <1>2 DEF ParseNode, Advance
  <2>2. pos \in Nat /\ pos >= 1 /\ DOMAIN body = 1 .. Len(body) /\ Len(body) \in Nat
    BY <1>2 DEF IInv, IsBody, TypeOK
  <2>3. Shape
    BY <1>2, HandlersHaveShape
  <2>4. PICK refs \in Reads : /\ refs \subseteq References(body)
                              /\ Effect(refs)
                              /\ pendingCompare' # NoCompare => pendingCompare' = pos /\ Current.kind = "Compare" /\ refs = {}
    BY <2>3 DEF Shape
  <2>5. refs \subseteq Outstanding /\ Outstanding' \subseteq Outstanding \ refs
    BY <1>2, <2>1, <2>4, GivenUp
  <2>6. /\ Dereference(refs)
        /\ window' \in [Registers -> Nat]
        /\ ssaByVirtual' \in Seq(Ssa)
        /\ descriptors' \in Seq([width : Nat, class : {"Allocation", "Temporary"}])
        /\ AllocationMapAgrees'
        /\ \A r \in Registers : window'[r] # InvalidIndex =>
               \/ window[r] # InvalidIndex /\ r # Current.result /\ descriptors'[window'[r]].width = WidthOf(window[r])
               \/ /\ r = Current.result /\ Current.kind # "Compare"
                  /\ OperandWidths(body) => descriptors'[window'[r]].width = Current.width
    BY <1>2, <2>1, <2>4, EffectOnMaps
  <2>7. useCount' \in [Registers -> Int] /\ CountsCover'
    BY <1>2, <2>1, <2>5, <2>6, CountsStep DEF IInv, TypeOK
  <2>8. TypeOK'
    BY <2>1, <2>2, <2>3, <2>4, <2>6, <2>7 DEF TypeOK, Ssa, Shape, NoCompare
  <2>9. IsBody(body)'
    BY <1>2, <2>1 DEF IInv
  <2>10. PendingIsLast'
    BY <2>1, <2>2, <2>4 DEF PendingIsLast, Current
  <2>11. WindowDefined'
    <3> SUFFICES ASSUME NEW r \in Registers, window'[r] # InvalidIndex
                 PROVE  \E i \in 1 .. pos : body[i].result = r /\ body[i].kind # "Compare"
      BY <2>1, <2>2 DEF WindowDefined
    <3>1. CASE r = Current.result /\ Current.kind # "Compare"
      BY <2>2, <3>1 DEF Current
    <3>2. CASE window[r] # InvalidIndex
      BY <1>2, <2>2, <3>2 DEF IInv, WindowDefined
    <3> QED
      BY <2>6, <3>1, <3>2
  <2>12. WidthsKept'
    <3> SUFFICES ASSUME OperandWidths(body), NEW r \in Registers, window'[r] # InvalidIndex,
                        NEW i \in 1 .. pos, body[i].result = r
                 PROVE  descriptors'[window'[r]].width = body[i].width
      BY <2>1, <2>2 DEF WidthsKept, WidthOf
    <3>1. CASE window[r] # InvalidIndex /\ r # Current.result /\ descriptors'[window'[r]].width = WidthOf(window[r])
      <4>1. i \in 1 .. pos - 1
        BY <2>2, <3>1 DEF Current
      <4> QED
        BY <1>2, <3>1, <4>1 DEF IInv, WidthsKept
    <3>2. CASE r = Current.result /\ descriptors'[window'[r]].width = Current.width
      <4>1. i = pos
        <5>1. i \in DOMAIN body /\ body[i].result = body[pos].result /\ body[i].result # NoRegister
          BY <2>1, <2>2, <3>2, RegistersAssumption DEF Current
        <5> QED
          BY <1>2, <2>1, <5>1 DEF IInv, IsBody, SingleAssignment
      <4> QED
        BY <3>2, <4>1 DEF Current
    <3> QED
      BY <2>6, <3>1, <3>2
  <2>13. ReleasedIsUnread'
    BY <1>2, <2>3, ReleasedStaysUnread
  <2>14. ComparesConsumed'
    <3> SUFFICES ASSUME diagnostics' = <<>>, NEW i \in 1 .. pos
                 PROVE  /\ body[i].kind # "Modulo"
                        /\ body[i].kind = "Compare" =>
                               pendingCompare' = i \/ (i + 1 < pos + 1 /\ body[i + 1].kind = "Branch")
      BY <2>1, <2>2 DEF ComparesConsumed
    <3>1. /\ Reported = <<>> /\ Current.kind # "Modulo"
          /\ Current.kind = "Compare" => pendingCompare' = pos
      BY <2>3 DEF Shape
    <3>2. diagnostics = <<>> /\ (pendingCompare = NoCompare \/ Current.kind = "Branch")
      BY <1>2, <2>1, <3>1, AtNode
    <3>3. CASE i = pos
      BY <3>1, <3>3 DEF Current
    <3>4. CASE i # pos
      <4>1. /\ body[i].kind # "Modulo"
            /\ body[i].kind = "Compare" => pendingCompare = i \/ (i + 1 < pos /\ body[i + 1].kind = "Branch")
        BY <1>2, <2>2, <3>2, <3>4 DEF IInv, ComparesConsumed
      <4>2. pendingCompare = i => i + 1 = pos
        BY <1>2, <2>2 DEF IInv, PendingIsLast, NoCompare
      <4> QED
        BY <2>2, <3>2, <4>1, <4>2 DEF Current, NoCompare
    <3> QED
      BY <3>3, <3>4
  <2> QED
    BY <2>6, <2>7, <2>8, <2>9, <2>10, <2>11, <2>12, <2>13, <2>14 DEF IInv
<1> QED
  BY <1>1, <1>2

THEOREM Invariant == Spec => []IInv
BY InitialInvariant, StepKeepsInvariant, PTL DEF Spec
-----------------------------------------------------------------------------
(* What follows from it. *)

\* Whatever the front end hands over, the walk keeps the types of its state: the position is
\* within the routine or just past it and every virtual register has a width and a class.
THEOREM TypeCorrect == Spec => []TypeOK
BY Invariant, PTL DEF IInv

\* The two maps of AllocationMap stay inverse through every emplace and every release, also
\* when a handler was cut short by a register it could not find.
THEOREM MapsAgree == Spec => []AllocationMapAgrees
BY Invariant, PTL DEF IInv

\* No dereference takes a count below zero: the walk gives up a reference at most once, and
\* only one that CreateReferenceMap counted.
THEOREM CountsNeverNegative == Spec => []NeverBelowZero
<1>1. IInv => NeverBelowZero
  <2> SUFFICES ASSUME IInv, NEW r \in Registers PROVE useCount[r] >= 0
    BY DEF NeverBelowZero
  <2>1. IsFiniteSet(References(body)) /\ OfRegister(Outstanding, r) \in SUBSET References(body)
    BY ReferencesFinite DEF IInv, OfRegister, Outstanding
  <2>2. Cardinality(OfRegister(Outstanding, r)) \in Nat
    BY <2>1, FS_Subset, FS_CardinalityType
  <2>3. useCount[r] \in Int /\ useCount[r] >= Cardinality(OfRegister(Outstanding, r))
    BY DEF IInv, TypeOK, CountsCover
  <2> QED
    BY <2>2, <2>3
<1> QED
  BY <1>1, Invariant, PTL

\* A lookup fails only in a routine something has been reported about, so that "See earlier
\* diagnostics" is never the first message and nothing is miscompiled in silence.
THEOREM NothingGoesMissing == Spec => []NothingMissing
<1>1. IInv => NothingMissing
  <2> SUFFICES ASSUME IInv, pos \in DOMAIN body, Current.kind # "Branch", ~Found, Reported = <<>>
               PROVE  FALSE
    BY DEF NothingMissing
  <2>1. diagnostics = <<>> /\ pendingCompare = NoCompare
    BY AtNode
  <2>2. PICK k \in DOMAIN Current.operands : window[Current.operands[k]] = InvalidIndex
    BY DEF Found, Source
  <2>3. PICK j \in 1 .. pos - 1 : body[j].result = Current.operands[k]
    BY DEF IInv, IsBody, DefinedBeforeRead, Current
  <2>4. /\ body[j].result \in Registers
        /\ pos \in 1 .. Len(body) /\ Len(body) \in Nat /\ DOMAIN body = 1 .. Len(body) /\ j \in DOMAIN body
    <3>1. Current.operands \in Seq(Registers) /\ pos \in 1 .. Len(body) /\ Len(body) \in Nat /\ DOMAIN body = 1 .. Len(body)
      BY AtNode DEF IsNode
    <3>2. Current.operands[k] \in Registers
      BY <3>1, SequenceElement
    <3> QED
      BY <2>3, <3>1, <3>2
  <2>5. CASE body[j].kind \in {"Compare", "Modulo"}
    <3>1. body[j].kind = "Compare" /\ j + 1 < pos /\ body[j + 1].kind = "Branch"
      BY <2>1, <2>4, <2>5 DEF IInv, ComparesConsumed, NoCompare
    <3> QED
      BY <2>3, <2>4, <3>1 DEF IInv, IsBody, ConsumedOnce, Current
  <2>6. CASE body[j].kind \notin {"Compare", "Modulo"}
    BY <2>1, <2>2, <2>3, <2>4, <2>6 DEF IInv, ReleasedIsUnread, Current
  <2> QED
    BY <2>5, <2>6
<1> QED
  BY <1>1, Invariant, PTL

\* The assertions of the handlers on widths hold whenever the front end keeps the widths of a
\* body together: the walk's own record of widths, kept by virtual register, never differs from
\* the nodes', whatever was released and emplaced in between.
THEOREM AssertedWidthsAgree == Spec => [](OperandWidths(body) => WidthsAgree)
<1>1. IInv => (OperandWidths(body) => WidthsAgree)
  <2> SUFFICES ASSUME IInv, OperandWidths(body), pos \in DOMAIN body, Current.kind \in Binary \cup {"Compare"}, Found
               PROVE  WidthOf(Source(1)) = WidthOf(Source(2))
    BY DEF WidthsAgree
  <2>1. /\ IsNode(Current) /\ Current.operands \in Seq(Registers)
        /\ Len(Current.operands) = 2
    BY AtNode DEF IsNode, OperandWidths, Current
  <2>2. /\ 1 \in DOMAIN Current.operands /\ Current.operands[1] \in Registers
        /\ 2 \in DOMAIN Current.operands /\ Current.operands[2] \in Registers
    <3>1. DOMAIN Current.operands = 1 .. 2
      BY <2>1
    <3> QED
      BY <2>1, <3>1, SequenceElement
  <2>3. PICK j \in 1 .. pos - 1 :
            body[j].result = Current.operands[1] /\ body[j].kind # "Compare" /\ WidthOf(Source(1)) = body[j].width
    BY <2>2, OperandsHaveTheirWidths DEF IInv
  <2>4. PICK l \in 1 .. pos - 1 :
            body[l].result = Current.operands[2] /\ body[l].kind # "Compare" /\ WidthOf(Source(2)) = body[l].width
    BY <2>2, OperandsHaveTheirWidths DEF IInv
  <2>5. j \in WithRegister(body, pos, 1) /\ l \in WithRegister(body, pos, 2)
    BY <2>3, <2>4 DEF WithRegister, Current
  <2>6. CASE Current.kind \in Binary
    <3>1. body[j].width = Current.width /\ body[l].width = Current.width
      BY <2>2, <2>5, <2>6 DEF OperandWidths, Current
    <3> QED
      BY <2>3, <2>4, <3>1
  <2>7. CASE Current.kind = "Compare"
    BY <2>3, <2>4, <2>5, <2>7 DEF OperandWidths, Current
  <2> QED
    BY <2>6, <2>7
<1> QED
  BY <1>1, Invariant, PTL
================================================================================
