-------------------------------- MODULE Build --------------------------------
(***************************************************************************)
(* The back of the compiler from the encoded routines to the file, and the *)
(* program that the file is.                                               *)
(*                                                                         *)
(* The stages are those of cli/main.cpp: for each source file the routines *)
(* are lowered and finalised (CompileUnit), emitted and patched one by one *)
(* (EmitRoutineNext) and recorded (FinishUnit); then one linker writes the *)
(* file (LinkCoff, LinkPe).  Execution loads it and executes its bytes.    *)
(*                                                                         *)
(* A program is what Routines calls one: instructions whose operands may   *)
(* still be variables, argument slots and texts.                           *)
(***************************************************************************)
EXTENDS Coff, PortableExecutable, FiniteSets

LOCAL Seqs == INSTANCE SequencesExt

CONSTANTS
    Programs,           \* the programs to build
    AvailableExports    \* by library: the names it exports

VARIABLES
    program,               \* [units, stackArguments, omits, linker]
    stage,
    unit,                  \* the source file in work
    compiledRoutines,      \* its routines: physical instructions
    pool,                  \* its strings: AssemblyContext
    offsets,               \* its functions with code: emittedOffset
    emitter,
    generatedMachineCode,
    functions,             \* by name: where its code begins
    mainOffset,
    stringArray,           \* CompilerConfig::stringArray
    file,
    layouts                \* history: by routine, its frame and its code

compilerVars == <<program, unit, compiledRoutines, pool, offsets, emitter,
                  generatedMachineCode, functions, mainOffset, stringArray, file, layouts>>

Platform == WindowsPlatform

(* The orders of an unordered container: one and its reverse.              *)
Orders(S) == {Seqs!SetToSeq(S), Seqs!Reverse(Seqs!SetToSeq(S))}

-----------------------------------------------------------------------------
(* Lowering: slots for the variables, in the order in which the routine    *)
(* needs them, places for stack arguments, indexes for texts.              *)

Fields == {"source", "destination", "left", "right", "address"}
Operands(i) == {i[f] : f \in Fields \cap DOMAIN i}

Slots(code) ==
    UNION {{operand.slot : operand \in {o \in Operands(code[k]) : o.kind = "Argument"}} : k \in DOMAIN code}

FrameOf(routine) ==
    LET locals == Seqs!FoldLeft(LAMBDA f, v : EnsureStackSlot(f, v, routine.locals[v], routine.locals[v]),
                                NewFrame(Platform), [v \in DOMAIN routine.locals |-> v])
    IN  Seqs!FoldLeft(LAMBDA f, slot : PassOnStack(Platform, f, slot - 1),
                      locals, Seqs!SetToSeq(Slots(routine.code)))

LowerOperand(operand, frame, strings) ==
    CASE operand.kind = "Variable" -> StackOperand(frame.stackSlots[operand.variable])
      [] operand.kind = "Argument" -> OutgoingSlot(Platform, operand.slot - 1)
      [] operand.kind = "Text" -> StringAddressOperand(NextString(strings), 0)
      [] OTHER -> operand

LowerNext(state, i) ==
    [code |-> Append(state.code,
        [f \in DOMAIN i |-> IF f \in Fields THEN LowerOperand(i[f], state.frame, state.strings) ELSE i[f]]),
     frame |-> state.frame,
     strings |-> IF \E o \in Operands(i) : o.kind = "Text"
                 THEN AppendNew(state.strings, i.address.text) ELSE state.strings]

Lowered(routine, frame, strings) ==
    Seqs!FoldLeft(LowerNext, [code |-> <<>>, frame |-> frame, strings |-> strings], routine.code)

(* A routine: encoded, then finalised. *)
Finished(state, routine, lowered, layout) ==
    [routines |-> Append(state.routines,
        [name |-> routine.name, scopes |-> routine.functions,
         physicalInstructions |-> Finalise(layout, lowered.code)]),
     strings |-> lowered.strings,
     layouts |-> With(state.layouts, routine.name,
                      [layout |-> layout, stackSlots |-> lowered.frame.stackSlots, code |-> lowered.code]),
     failed |-> state.failed \/ ~SlotsInsideFrame(layout, lowered.code)]

Encoded(state, routine, lowered) ==
    Finished(state, routine, lowered,
             Layout(Platform, program.omits, lowered.frame, lowered.code))

CompileRoutine(state, routine) ==
    Encoded(state, routine, Lowered(routine, FrameOf(routine), state.strings))

(* The strings of the run are those of the last source file. *)
CompileUnit ==
    /\ stage = "Compile"
    /\ LET all == Seqs!FoldLeft(CompileRoutine,
                     [routines |-> <<>>, strings |-> NewPool, layouts |-> layouts, failed |-> FALSE],
                     program.units[unit])
       IN  /\ compiledRoutines' = all.routines
           /\ pool' = all.strings
           /\ stringArray' = all.strings.arena
           /\ layouts' = all.layouts
           /\ stage' = IF all.failed THEN "Failed" ELSE "Emit"
    /\ offsets' = [f \in {} |-> 0]
    /\ UNCHANGED <<program, unit, emitter, generatedMachineCode, functions, mainOffset, file>>

-----------------------------------------------------------------------------
(* Emission.  A function has its offset before its own calls are patched.  *)

Emitted == Cardinality(DOMAIN offsets)

Patched(emission, routine, known) ==
    PatchStrings(PatchCalls(emission, Len(generatedMachineCode), routine.scopes, known),
                 Len(generatedMachineCode), pool)

EmitRoutineNext ==
    /\ stage = "Emit"
    /\ Emitted < Len(compiledRoutines)
    /\ LET routine == compiledRoutines[Emitted + 1]
           known == With(offsets, routine.name, Len(generatedMachineCode))
           emission == Patched(EmitRoutine(emitter, routine.physicalInstructions), routine, known)
       IN  /\ offsets' = known
           /\ emitter' = emission.emitter
           /\ generatedMachineCode' = generatedMachineCode \o emission.generated
           /\ stage' = IF emission.emitter.failed THEN "Failed" ELSE "Emit"
    /\ UNCHANGED <<program, unit, compiledRoutines, pool, functions, mainOffset, stringArray, file, layouts>>

(* The functions of a source file are recorded in any order. *)
FinishUnit ==
    /\ stage = "Emit"
    /\ Emitted = Len(compiledRoutines)
    /\ \E order \in Orders(DOMAIN offsets) :
        functions' = functions \o [k \in DOMAIN order |-> [name |-> order[k], offset |-> offsets[order[k]]]]
    /\ mainOffset' = IF "_EntryPoint" \in DOMAIN offsets THEN offsets["_EntryPoint"] ELSE mainOffset
    /\ unit' = unit + 1
    /\ stage' = IF unit = Len(program.units) THEN "Link" ELSE "Compile"
    /\ UNCHANGED <<program, compiledRoutines, pool, offsets, emitter, generatedMachineCode, stringArray, file, layouts>>

-----------------------------------------------------------------------------
(* SelectAndLink *)

StringData == stringArray \o <<0>>
Imports == emitter.functionImports
NoFile == [cells |-> EmptyCells]

CoffWithImports(order) ==
    Seqs!FoldLeft(LAMBDA coff, f : CoffImportFunction(coff, f, Imports[f]),
                  NewCoff(emitter.stringRelocation), order)

CoffWithExports(coff) ==
    Seqs!FoldLeft(LAMBDA c, f : CoffExportFunction(c, f.name, f.offset), coff, functions)

FinishCoff(coff) ==
    IF coff.failed \/ ~Resolved(WithRdata(coff, StringData)) THEN stage' = "Failed" /\ file' = file
    ELSE /\ stage' = "Linked"
         /\ file' = [cells |-> CoffToBytes(coff, StringData)]

LinkCoff ==
    /\ stage = "Link" /\ program.linker = "Coff"
    /\ \E imports \in Orders(DOMAIN Imports), calls \in Orders(emitter.linkerForwardedRelocations) :
        FinishCoff(CoffWithExports(CoffCodeSection(CoffWithImports(imports), generatedMachineCode, calls)))
    /\ UNCHANGED <<program, unit, compiledRoutines, pool, offsets, emitter, generatedMachineCode,
                   functions, mainOffset, stringArray, layouts>>

(* The first library that exports the name. *)
LibrariesOf(name) == {dll \in DOMAIN AvailableExports : name \in AvailableExports[dll]}
Unresolved == \E f \in DOMAIN Imports : LibrariesOf(Imports[f]) = {}

PeWithImports(order) ==
    Seqs!FoldLeft(LAMBDA pe, f : PeImportFunction(pe, f, Imports[f], CHOOSE d \in LibrariesOf(Imports[f]) : TRUE),
                  NewPe, order)

PeWithExports(pe) ==
    Seqs!FoldLeft(LAMBDA p, f : PeExportFunction(p, f.name, f.offset), pe, functions)

FinishPe(pe) ==
    \E exports \in Orders(DOMAIN pe.exports), imports \in Orders(DOMAIN pe.imports) :
        file' = PeToBytes(pe, "a.exe", mainOffset, StringData, exports, imports)

LinkPe ==
    /\ stage = "Link" /\ program.linker = "Pe"
    /\ IF Unresolved THEN stage' = "Failed" /\ file' = file
       ELSE /\ stage' = "Linked"
            /\ \E imports \in Orders(DOMAIN Imports) :
                FinishPe(PeWithExports(PeCodeSection(PeWithImports(imports), generatedMachineCode,
                                                      emitter.linkerForwardedRelocations)))
    /\ UNCHANGED <<program, unit, compiledRoutines, pool, offsets, emitter, generatedMachineCode,
                   functions, mainOffset, stringArray, layouts>>

-----------------------------------------------------------------------------
BuildInit ==
    /\ program \in Programs
    /\ stage = "Compile"
    /\ unit = 1
    /\ compiledRoutines = <<>>
    /\ pool = NewPool
    /\ offsets = [f \in {} |-> 0]
    /\ emitter = NewEmitter
    /\ generatedMachineCode = <<>>
    /\ functions = <<>>
    /\ mainOffset = 0
    /\ stringArray = <<>>
    /\ file = NoFile
    /\ layouts = [r \in {} |-> 0]

BuildNext == CompileUnit \/ EmitRoutineNext \/ FinishUnit \/ LinkCoff \/ LinkPe
=============================================================================
