------------------------------- MODULE SsaLowering -------------------------------
(* Code generation of one routine: the walk over the routine's SSA nodes that    *)
(* turns them into virtual instructions (ParsingContext::ParseNode and its       *)
(* handlers), the map from SSA registers to virtual ones (AllocationMap) and the *)
(* use counts that decide when an SSA register is forgotten.                     *)
(*                                                                               *)
(* The use counts are computed once, ahead of the walk, by another function      *)
(* (CreateReferenceMap) that has its own list of the operands of every node.     *)
(* A register whose count reaches zero is taken out of the map, and a lookup     *)
(* that fails is reported as the consequence of an earlier diagnostic, so the    *)
(* two lists have to agree and the count of every read has to outlast it.        *)
EXTENDS Integers, Sequences, FiniteSets

CONSTANTS Registers,    \* the SSA registers
          NoRegister,   \* a node without a result
          Bodies        \* the routine bodies: sequences of nodes

VARIABLES body,            \* the nodes of the routine
          pos,             \* the node the walk is at
          useCount,        \* VirtualRegisterMap: useCount by SSA register
          window,          \* AllocationMap: virtual register by SSA register
          ssaByVirtual,    \* AllocationMap: SSA register by virtual register
          descriptors,     \* AllocationMap: width and class by virtual register
          pendingCompare,  \* the comparison a branch may still consume, or NoCompare
          labels,          \* definedLabels
          instructions,    \* the virtual instructions emitted
          diagnostics      \* what has been reported

vars == <<body, pos, useCount, window, ssaByVirtual, descriptors, pendingCompare, labels,
          instructions, diagnostics>>

\* Virtual registers are numbered from 1: 0 stands for InvalidIndex.
InvalidIndex == 0
NoCompare == 0
---------------------------------------------------------------------------------
(* Nodes: a kind, the register they define, its width, the registers they read in *)
(* the order the handler looks them up, and a payload (value).                    *)
Binary == {"Addition", "Subtraction", "Multiplication", "Division", "LeftBitShift",
           "RightBitShift", "Or", "And", "Xor"}
Unary == {"BitwiseNot", "ArithmeticNegation"}
\* One operand, and the result has a width of its own.
Resizing == {"Convert", "Load", "PointerConversion", "LoadArrayDecay"}
Leaf == {"Allocate", "Integer", "IntegerArrayDecay"}
Storing == {"Store", "IndirectStore"}
Filling == {"StoreInteger", "ArrayStore", "IncomingParameter"}
ThroughPointer == {"AddressOf", "Dereference"}

Defining == Binary \cup Unary \cup Resizing \cup Leaf \cup ThroughPointer \cup {"Modulo", "Compare"}
Silent == Storing \cup Filling \cup {"Return", "Branch", "Label", "Jump"}
Kinds == Defining \cup Silent \cup {"Call"}

\* Mutants: a store that counts its source alone, a return that counts nothing.
CountedSourceAlone(node) ==
    IF node.kind = "IncomingParameter" THEN {}
    ELSE IF node.kind = "Store" THEN {1} ELSE DOMAIN node.operands \cup (IF node.kind = "AddressOf" THEN {0} ELSE {})
CountedButReturned(node) ==
    IF node.kind \in {"IncomingParameter", "Return"} THEN {}
    ELSE DOMAIN node.operands \cup (IF node.kind = "AddressOf" THEN {0} ELSE {})

\* CreateReferenceMap counts every operand, except the register a parameter is stored to.
Counted(node) ==
    IF node.kind = "IncomingParameter" THEN {}
    ELSE DOMAIN node.operands \cup (IF node.kind = "AddressOf" THEN {0} ELSE {})

\* A reference is a node and one of its operands; operand 0 is the node's own result.
References(b) == UNION {{<<i, k>> : k \in Counted(b[i])} : i \in DOMAIN b}
RegisterAt(b, ref) == IF ref[2] = 0 THEN b[ref[1]].result ELSE b[ref[1]].operands[ref[2]]
ReadsOf(i) == {<<i, k>> : k \in DOMAIN body[i].operands}

OfRegister(refs, r) == {ref \in refs : RegisterAt(body, ref) = r}

CreateReferenceMap(b) == [r \in Registers |-> Cardinality({ref \in References(b) : RegisterAt(b, ref) = r})]
---------------------------------------------------------------------------------
Current == body[pos]
Source(k) == window[Current.operands[k]]          \* FindVirtualBySSA
\* An array that cannot be stored is not looked up.
Storable == Current.kind = "ArrayStore" => Current.value \notin {"unsupported", "empty"}
Found == \A k \in DOMAIN Current.operands : Source(k) # InvalidIndex
WidthOf(v) == descriptors[v].width                \* GetDescriptorFromVirtual
NextVirtual == Len(ssaByVirtual) + 1

Messages == {"Materialising a comparison result", "See earlier diagnostics", "Unsupported aggregate store source",
             "A branch condition must be produced by the comparison immediately preceding it", "Duplicate label",
             "Not implemented"}

\* ParseNode, first: a comparison whose result is not consumed by a branch at once.
Reported ==
    IF pendingCompare # NoCompare /\ Current.kind # "Branch"
    THEN Append(diagnostics, "Materialising a comparison result") ELSE diagnostics

\* DereferenceSSA for each of a set of references: the registers whose count reaches zero.
Dropped(refs) == {r \in Registers : useCount[r] \in 1 .. Cardinality(OfRegister(refs, r))}

\* The effect of a handler that ran to its end: registers read for the last time are
\* released, the result (if the handler has one) gets the next virtual register.
Allocated(width, class) ==
    Append(descriptors, [width |-> width, class |-> class])

Dereference(refs) == useCount' = [r \in Registers |-> useCount[r] - Cardinality(OfRegister(refs, r))]

WindowAfter(refs) == [r \in Registers |-> IF r \in Dropped(refs) THEN InvalidIndex ELSE window[r]]

\* Mutant: a release that leaves the other direction of the map alone.
ReleasedSsaKept(refs) == ssaByVirtual

ReleasedSsa(refs) == [v \in DOMAIN ssaByVirtual |->
    IF \E r \in Dropped(refs) : window[r] = v THEN NoRegister ELSE ssaByVirtual[v]]

EmplaceAllocate(refs, width, class) ==
    /\ Dereference(refs)
    /\ window' = [WindowAfter(refs) EXCEPT ![Current.result] = NextVirtual]
    /\ ssaByVirtual' = Append(ReleasedSsa(refs), Current.result)
    /\ descriptors' = Allocated(width, class)

Release(refs) ==
    /\ Dereference(refs)
    /\ window' = WindowAfter(refs)
    /\ ssaByVirtual' = ReleasedSsa(refs)
    /\ UNCHANGED descriptors

KeepMaps == UNCHANGED <<useCount, window, ssaByVirtual, descriptors>>

\* Mutant: what follows a return is skipped.
AdvancePastReturn == pos' = pos + (IF Current.kind = "Return" THEN 2 ELSE 1) /\ UNCHANGED body
Advance == pos' = pos + 1 /\ UNCHANGED body
Settled == pendingCompare' = NoCompare

Emit(instruction) == instructions' = Append(instructions, instruction) /\ diagnostics' = Reported
Report(message) == diagnostics' = Append(Reported, message) /\ UNCHANGED instructions

Instruction(type, target, sources) ==
    [type |-> type, target |-> target, sources |-> sources, value |-> Current.value]
Sources == [k \in DOMAIN Current.operands |-> Source(k)]
---------------------------------------------------------------------------------
(* The handlers. A lookup that fails is an exception: ParseNode catches it and     *)
(* reports it, and what the handler did before it stays done.                      *)

\* The operators: the result has the width of the left operand.
Compute(kind) ==
    /\ Current.kind = kind
    /\ Found
    /\ EmplaceAllocate(ReadsOf(pos), WidthOf(Source(1)), "Temporary")
    /\ Emit(Instruction(kind, NextVirtual, Sources))
    /\ Settled /\ UNCHANGED labels

ParseAddNode == Compute("Addition")
ParseSubNode == Compute("Subtraction")
ParseLeftShiftNode == Compute("LeftBitShift")
ParseRightShiftNode == Compute("RightBitShift")
ParseBinOrNode == Compute("Or")
ParseBinAndNode == Compute("And")
ParseBinXorNode == Compute("Xor")
ParseBitwiseNotNode == Compute("BitwiseNot")
ParseMultiplicationNode == Compute("Multiplication")
ParseDivisionNode == Compute("Division")
ParseArithmeticNegationNode == Compute("ArithmeticNegation")
ParseOperatorNode ==
    \/ ParseAddNode \/ ParseSubNode \/ ParseLeftShiftNode \/ ParseRightShiftNode
    \/ ParseBinOrNode \/ ParseBinAndNode \/ ParseBinXorNode \/ ParseBitwiseNotNode
    \/ ParseMultiplicationNode \/ ParseDivisionNode \/ ParseArithmeticNegationNode

\* ParseConvertNode (the payload is the conversion), ParseLoadNode and both
\* ParsePointerConvertNode when they read a register
ParseResizingNode ==
    /\ Current.kind \in Resizing
    /\ Found
    /\ EmplaceAllocate(ReadsOf(pos), Current.width, "Temporary")
    /\ Emit(Instruction(CASE Current.kind = "Convert" -> Current.value
                          [] Current.kind = "LoadArrayDecay" -> "AddressOf"
                          [] OTHER -> "Copy", NextVirtual, Sources))
    /\ Settled /\ UNCHANGED labels

ParseAllocateNode ==
    /\ Current.kind = "Allocate"
    /\ EmplaceAllocate({}, Current.width, "Allocation")
    /\ diagnostics' = Reported
    /\ Settled /\ UNCHANGED <<labels, instructions>>

\* ParseIntNode, and ParsePointerConvertNode for an array literal
ParseIntNode ==
    /\ Current.kind \in {"Integer", "IntegerArrayDecay"}
    /\ EmplaceAllocate({}, Current.width, "Temporary")
    /\ Emit(Instruction(IF Current.kind = "Integer" THEN "CopyInteger" ELSE "LoadStringAddress",
                        NextVirtual, <<>>))
    /\ Settled /\ UNCHANGED labels

\* Operands: source, target.
ParseStoreNode ==
    /\ Current.kind = "Store"
    /\ Found
    /\ Release(ReadsOf(pos))
    /\ Emit(Instruction("Copy", Source(2), <<Source(1)>>))
    /\ Settled /\ UNCHANGED labels

\* Operands: the pointer, the value.
ParseIndirectStoreNode ==
    /\ Current.kind = "IndirectStore"
    /\ Found
    /\ Release(ReadsOf(pos))
    /\ Emit(Instruction("IndirectStore", InvalidIndex, Sources))
    /\ Settled /\ UNCHANGED labels

\* ParseStoreIntNode, ParseArrayStoreNode, ParseParameterStoreNode: the target is
\* looked up and never released.
ParseFillingNode ==
    /\ Current.kind \in Filling
    /\ Storable
    /\ Found
    /\ KeepMaps
    /\ Emit(Instruction(CASE Current.kind = "StoreInteger" -> "CopyInteger"
                          [] Current.kind = "IncomingParameter" -> "CopyParameter"
                          [] OTHER -> "CopyFromData", Source(1), <<>>))
    /\ Settled /\ UNCHANGED labels

\* ParseArrayStoreNode's early returns, ahead of the lookup
ParseUnstorableArray ==
    /\ Current.kind = "ArrayStore"
    /\ \/ Current.value = "unsupported" /\ Report("Unsupported aggregate store source")
       \/ Current.value = "empty" /\ diagnostics' = Reported /\ UNCHANGED instructions
    /\ KeepMaps
    /\ Settled /\ UNCHANGED labels

ParseReturnNode ==
    /\ Current.kind = "Return"
    /\ Found
    /\ Release(ReadsOf(pos))
    /\ Emit(Instruction("Return", InvalidIndex, Sources))
    /\ Settled /\ UNCHANGED labels

\* ParseAddressOfNode, ParseDereferenceNode: the result is allocated before the operand
\* is looked up, and the operand is not released.
ParseThroughPointerNode ==
    /\ Current.kind \in ThroughPointer
    /\ EmplaceAllocate({}, Current.width, "Temporary")
    /\ IF Found
         THEN Emit(Instruction(IF Current.kind = "AddressOf" THEN "AddressOf" ELSE "Indirection",
                               NextVirtual, Sources))
         ELSE Report("See earlier diagnostics")
    /\ Settled /\ UNCHANGED labels

\* The arguments ahead of the first one that is missing have already been passed.
PassedArguments ==
    {k \in DOMAIN Current.operands : \A j \in 1 .. k : Source(j) # InvalidIndex}
Arguments == instructions \o [k \in PassedArguments |-> Instruction("PassArgument", InvalidIndex, <<Source(k)>>)]

ParseCallNode ==
    /\ Current.kind = "Call"
    /\ Found
    /\ IF Current.result = NoRegister THEN KeepMaps ELSE EmplaceAllocate({}, Current.width, "Temporary")
    /\ instructions' = Append(Arguments,
           IF Current.result = NoRegister THEN Instruction("Call", InvalidIndex, <<>>)
           ELSE Instruction("CallWithResult", NextVirtual, <<>>))
    /\ diagnostics' = Reported
    /\ Settled /\ UNCHANGED labels

ParseCallMissingArgument ==
    /\ Current.kind = "Call"
    /\ ~Found
    /\ KeepMaps
    /\ instructions' = Arguments
    /\ diagnostics' = Append(Reported, "See earlier diagnostics")
    /\ Settled /\ UNCHANGED labels

\* The comparison is emitted by the branch that consumes it: its result has no register.
ParseCompareNode ==
    /\ Current.kind = "Compare"
    /\ Found
    /\ KeepMaps
    /\ pendingCompare' = pos
    /\ diagnostics' = Reported
    /\ UNCHANGED <<labels, instructions>>

Consumes == pendingCompare # NoCompare /\ body[pendingCompare].result = Current.operands[1]

\* The virtual registers of the comparison were looked up at the comparison, which is the
\* node before this one. The payload of a branch is its labels.
ParseBranchNode ==
    /\ Current.kind = "Branch"
    /\ Consumes
    /\ Release(ReadsOf(pendingCompare))
    /\ instructions' = instructions \o
           <<[type |-> "CompareAndJump", target |-> InvalidIndex,
              sources |-> [k \in DOMAIN body[pendingCompare].operands |-> window[body[pendingCompare].operands[k]]],
              value |-> [unless |-> body[pendingCompare].value, label |-> Current.value.falseLabel]],
             [type |-> "UnconditionalJump", target |-> InvalidIndex, sources |-> <<>>,
              value |-> Current.value.trueLabel]>>
    /\ diagnostics' = Reported
    /\ Settled /\ UNCHANGED labels

ParseBranchAlone ==
    /\ Current.kind = "Branch"
    /\ ~Consumes
    /\ KeepMaps
    /\ Report("A branch condition must be produced by the comparison immediately preceding it")
    /\ Settled /\ UNCHANGED labels

ParseLabelNode ==
    /\ Current.kind = "Label"
    /\ KeepMaps
    /\ IF Current.value \in labels
         THEN Report("Duplicate label") /\ UNCHANGED labels
         ELSE Emit(Instruction("Label", InvalidIndex, <<>>)) /\ labels' = labels \cup {Current.value}
    /\ Settled

ParseGotoNode ==
    /\ Current.kind = "Jump"
    /\ KeepMaps
    /\ Emit(Instruction("UnconditionalJump", InvalidIndex, <<>>))
    /\ Settled /\ UNCHANGED labels

ParseUnsupportedNode ==
    /\ Current.kind = "Modulo"
    /\ KeepMaps
    /\ Report("Not implemented")
    /\ Settled /\ UNCHANGED labels

\* The catch of ParseNode, for the handlers that look their operands up first.
CatchVirtualNotFound ==
    /\ Current.kind \in Binary \cup Unary \cup Resizing \cup Storing \cup Filling \cup {"Return", "Compare"}
    /\ Storable
    /\ ~Found
    /\ KeepMaps
    /\ Report("See earlier diagnostics")
    /\ Settled /\ UNCHANGED labels
---------------------------------------------------------------------------------
\* Compile: the counts of this routine alone, and a fresh ParsingContext.
Start(b) ==
    /\ body = b
    /\ pos = 1
    /\ useCount = CreateReferenceMap(b)
    /\ window = [r \in Registers |-> InvalidIndex]
    /\ ssaByVirtual = <<>>
    /\ descriptors = <<>>
    /\ pendingCompare = NoCompare
    /\ labels = {}
    /\ instructions = <<>>
    /\ diagnostics = <<>>

Init == \E b \in Bodies : Start(b)

ParseNode ==
    /\ pos \in DOMAIN body
    /\ Advance
    /\ \/ ParseOperatorNode \/ ParseResizingNode \/ ParseAllocateNode \/ ParseIntNode
       \/ ParseStoreNode \/ ParseIndirectStoreNode \/ ParseFillingNode \/ ParseUnstorableArray
       \/ ParseReturnNode \/ ParseThroughPointerNode \/ ParseCallNode \/ ParseCallMissingArgument
       \/ ParseCompareNode \/ ParseBranchNode \/ ParseBranchAlone \/ ParseLabelNode \/ ParseGotoNode
       \/ ParseUnsupportedNode \/ CatchVirtualNotFound

Spec == Init /\ [][ParseNode]_vars
---------------------------------------------------------------------------------
(* What the front end guarantees of a body.                                        *)
IsNode(n) ==
    /\ n.kind \in Kinds
    /\ n.result \in IF n.kind \in Defining THEN Registers
                    ELSE IF n.kind = "Call" THEN Registers \cup {NoRegister} ELSE {NoRegister}
    /\ n.operands \in Seq(Registers)
    /\ n.width \in Nat
    /\ n.kind \in Binary \cup Unary \cup {"Branch"} => n.operands # <<>>
    /\ n.kind \in Filling => Len(n.operands) = 1
    /\ n.kind \in Leaf => n.operands = <<>>

\* Every register is defined by one node, and before it is read.
SingleAssignment(b) == \A i, j \in DOMAIN b :
    b[i].result = b[j].result /\ b[i].result # NoRegister => i = j
DefinedBeforeRead(b) == \A i \in DOMAIN b : \A k \in DOMAIN b[i].operands :
    \E j \in 1 .. i - 1 : b[j].result = b[i].operands[k]
\* A parameter is stored to its variable before anything else touches the variable.
ParameterFirst(b) == \A i \in DOMAIN b : \A j \in 1 .. i - 1 : \A k \in DOMAIN b[j].operands :
    b[i].kind = "IncomingParameter" => b[j].operands[k] # b[i].operands[1]
\* The result of a comparison that a branch consumes is not read again.
ConsumedOnce(b) == \A i, j \in DOMAIN b : \A k \in DOMAIN b[j].operands :
    b[i].kind = "Compare" /\ i + 1 \in DOMAIN b /\ b[i + 1].kind = "Branch"
        /\ b[j].operands[k] = b[i].result => j = i + 1

IsBody(b) ==
    /\ Len(b) \in Nat /\ DOMAIN b = 1 .. Len(b)
    /\ \A i \in DOMAIN b : IsNode(b[i])
    /\ SingleAssignment(b) /\ DefinedBeforeRead(b) /\ ParameterFirst(b) /\ ConsumedOnce(b)

\* Of the operands that have a register (a comparison's result has none): those of an operator
\* have its width, and those of a comparison have one width.
WithRegister(b, i, k) == {j \in 1 .. i - 1 : b[j].result = b[i].operands[k] /\ b[j].kind # "Compare"}
OperandWidths(b) == \A i \in DOMAIN b :
    /\ b[i].kind \in Binary \cup {"Compare"} => Len(b[i].operands) = 2
    /\ b[i].kind \in Binary \cup Unary =>
           \A k \in DOMAIN b[i].operands : \A j \in WithRegister(b, i, k) : b[j].width = b[i].width
    /\ b[i].kind = "Compare" =>
           \A j \in WithRegister(b, i, 1), l \in WithRegister(b, i, 2) : b[j].width = b[l].width

ASSUME RegistersAssumption == NoRegister \notin Registers
ASSUME BodiesAssumption == \A b \in Bodies : IsBody(b)
---------------------------------------------------------------------------------
TypeOK ==
    /\ pos \in 1 .. Len(body) + 1
    /\ useCount \in [Registers -> Int]
    /\ window \in [Registers -> Nat]
    /\ ssaByVirtual \in Seq(Registers \cup {NoRegister})
    /\ descriptors \in Seq([width : Nat, class : {"Allocation", "Temporary"}])
    /\ pendingCompare \in 0 .. Len(body)
    /\ diagnostics \in Seq(Messages)

\* A register that cannot be found was lost to something already reported: the message
\* says "See earlier diagnostics" (PseudoAssembly.cpp:299), and there is one. In a routine
\* that nothing was reported about, no register is released while a later node reads it.
NothingMissing ==
    pos \in DOMAIN body /\ Current.kind # "Branch" /\ ~Found => Reported # <<>>

\* No count is taken below zero (AbstractNodes.h:243 prints a warning): every dereference
\* of the walk was counted ahead of it, on every path through the handlers.
NeverBelowZero == \A r \in Registers : useCount[r] >= 0

\* The two directions of the allocation map agree, whatever has been released: a virtual
\* register answers for the SSA register that found it, and never for two of them.
AllocationMapAgrees ==
    /\ DOMAIN descriptors = DOMAIN ssaByVirtual
    /\ \A r \in Registers : window[r] # InvalidIndex =>
           window[r] \in DOMAIN ssaByVirtual /\ ssaByVirtual[window[r]] = r
    /\ \A v \in DOMAIN ssaByVirtual : ssaByVirtual[v] # NoRegister => window[ssaByVirtual[v]] = v

\* The assertions of the handlers on widths: operands of one operation, and of one
\* comparison, have one width.
WidthsAgree ==
    pos \in DOMAIN body /\ Current.kind \in Binary \cup {"Compare"} /\ Found
        => WidthOf(Source(1)) = WidthOf(Source(2))
================================================================================
