------------------------------ MODULE Emission ------------------------------
(***************************************************************************)
(* The code emitter: bytes for a routine, and the notes it takes on the    *)
(* way, of calls, jumps, labels and strings, to patch the bytes when the   *)
(* offsets are known.  What it cannot patch it leaves to the linker.       *)
(*                                                                         *)
(* One emitter serves the whole run of the compiler, whatever the number   *)
(* of routines and source files.                                           *)
(***************************************************************************)
EXTENDS Frame

LOCAL Seqs == INSTANCE SequencesExt

ImportPrefix == "__imp_"

NewEmitter ==
    [currentInstructionBase |-> 0,
     callPatches |-> <<>>,             \* offsets within the routine
     jumpPatches |-> <<>>,
     labelOffsets |-> [l \in {} |-> 0],
     patches |-> <<>>,                 \* of strings
     stringRelocation |-> <<>>,        \* offsets within the code
     linkerForwardedRelocations |-> {},
     functionImports |-> [f \in {} |-> ""],   \* g_functionImports
     failed |-> FALSE]                 \* an assertion does not hold

Fail(emitter) == [emitter EXCEPT !.failed = TRUE]

-----------------------------------------------------------------------------
(* The notes an instruction leaves behind. *)

NoteLabel(emitter, labelId) ==
    IF labelId \in DOMAIN emitter.labelOffsets THEN Fail(emitter)
    ELSE [emitter EXCEPT !.labelOffsets =
            [l \in DOMAIN @ \cup {labelId} |->
               IF l = labelId THEN emitter.currentInstructionBase ELSE @[l]]]

NoteJump(emitter, i, bytes) ==
    [emitter EXCEPT !.jumpPatches = Append(@,
        [instructionOffset |-> emitter.currentInstructionBase, length |-> Len(bytes),
         labelId |-> i.labelId])]

Noted(emitter, i, bytes) ==
    CASE i.name = "Call" ->
           [emitter EXCEPT !.callPatches = Append(@, emitter.currentInstructionBase)]
      [] i.name \in {"Jmp", "Jcc"} -> NoteJump(emitter, i, bytes)
      [] i.name = "Label" -> NoteLabel(emitter, i.labelId)
      [] i.name = "Lea" /\ i.address.kind = "StringAddress" ->
           [emitter EXCEPT !.patches = Append(@,
               [instructionOffset |-> emitter.currentInstructionBase, string |-> i.address])]
      [] OTHER -> emitter

(* One round of EmitRoutine: state is the emitter and the bytes so far.    *)
EmitNext(state, i) ==
    LET emitter == [state.emitter EXCEPT !.currentInstructionBase = Len(state.generated)]
    IN  IF ~Accepts(i) THEN [state EXCEPT !.emitter = Fail(emitter)]
        ELSE LET bytes == EmitInstruction(i)
             IN  [emitter |-> Noted(emitter, i, bytes), generated |-> state.generated \o bytes]

EmitRoutine(emitter, instructions) ==
    Seqs!FoldLeft(EmitNext, [emitter |-> emitter, generated |-> <<>>], instructions)

-----------------------------------------------------------------------------
(* PatchCalls and PatchStrings.  Offsets count from 0, bytes from 1.       *)

Field32(code, offset) ==
    code[offset + 1] + 256 * code[offset + 2] + 65536 * code[offset + 3]
        + 16777216 * (IF code[offset + 4] >= 128 THEN code[offset + 4] - 256 ELSE code[offset + 4])

Patch32(code, offset, value) ==
    [k \in DOMAIN code |->
       IF k \in offset + 1 .. offset + 4 THEN LittleEndian(value, 4)[k - offset] ELSE code[k]]

Unmangled(scope) == IF scope.dllImportName = "" THEN scope.name ELSE scope.dllImportName

(* A call of a function without code yet is the linker's. *)
ForwardToLinker(emitter, offset, scope) ==
    [emitter EXCEPT
       !.linkerForwardedRelocations = @ \cup
           {[where |-> offset, symbolName |-> scope.name, applyOutputSize |-> 2,
             isIndirect |-> scope.isDllImportExport]},
       !.functionImports =
           IF scope.name \in DOMAIN @ THEN @
           ELSE [f \in DOMAIN @ \cup {scope.name} |->
                   IF f \in DOMAIN @ THEN @[f]
                   ELSE (IF scope.isDllImportExport THEN ImportPrefix ELSE "") \o Unmangled(scope)]]

(* The bytes that stand for a call of the linker's. *)
ApplyImport(isIndirect) == IF isIndirect THEN GenerateIndirectCall2(0) ELSE GenerateCallRel32(0)

(* offsets: where the functions of this source file with code begin. *)
PatchCall(state, offset, routineOffset, scopes, offsets) ==
    IF Len(state.generated) <= offset THEN state
    ELSE IF state.generated[offset + 1] # \hE8 THEN [state EXCEPT !.emitter = Fail(@)]
    ELSE LET scope == scopes[Field32(state.generated, offset + 1) + 1]
         IN  IF scope.name \in DOMAIN offsets
             THEN [state EXCEPT !.generated = Patch32(@, offset + 1,
                      offsets[scope.name] - (offset + routineOffset) - 5)]
             ELSE [state EXCEPT !.emitter = ForwardToLinker(@, offset + routineOffset, scope)]

(* Mutant: the distance is counted from the instruction, not from its end. *)
PatchJumpFromStart(state, patch) ==
    LET next == patch.instructionOffset + patch.length
    IN  [state EXCEPT !.generated =
            Patch32(@, next - 4, state.emitter.labelOffsets[patch.labelId] - patch.instructionOffset)]

PatchJump(state, patch) ==
    IF \/ patch.labelId \notin DOMAIN state.emitter.labelOffsets
       \/ patch.instructionOffset + patch.length > Len(state.generated)
    THEN [state EXCEPT !.emitter = Fail(@)]
    ELSE LET next == patch.instructionOffset + patch.length
         IN  [state EXCEPT !.generated =
                Patch32(@, next - 4, state.emitter.labelOffsets[patch.labelId] - next)]

(* Mutant: the labels of a routine outlive it. *)
ForgetPatchesButLabels(state) ==
    [state EXCEPT !.emitter.callPatches = <<>>, !.emitter.jumpPatches = <<>>]

ForgetPatches(state) ==
    [state EXCEPT !.emitter.callPatches = <<>>, !.emitter.jumpPatches = <<>>,
                  !.emitter.labelOffsets = [l \in {} |-> 0]]

PatchCalls(state, routineOffset, scopes, offsets) ==
    LET Call(s, offset) == PatchCall(s, offset, routineOffset, scopes, offsets)
        calls == Seqs!FoldLeft(Call, state, state.emitter.callPatches)
    IN  ForgetPatches(Seqs!FoldLeft(PatchJump, calls, calls.emitter.jumpPatches))

(* Mutant: the place in the routine is taken for the place in the code. *)
PatchStringOfRoutine(state, patch, routineOffset, pool) ==
    [generated |-> Patch32(state.generated, patch.instructionOffset + 3,
                           pool.table[patch.string.tableIndex + 1].offset + patch.string.offset),
     emitter |-> [state.emitter EXCEPT !.stringRelocation = Append(@, patch.instructionOffset + 3)]]

PatchString(state, patch, routineOffset, pool) ==
    [generated |-> Patch32(state.generated, patch.instructionOffset + 3,
                           pool.table[patch.string.tableIndex + 1].offset + patch.string.offset),
     emitter |-> [state.emitter EXCEPT !.stringRelocation =
                    Append(@, patch.instructionOffset + routineOffset + 3)]]

PatchStrings(state, routineOffset, pool) ==
    LET String(s, patch) == PatchString(s, patch, routineOffset, pool)
    IN  Seqs!FoldLeft(String, [state EXCEPT !.emitter.patches = <<>>], state.emitter.patches)

-----------------------------------------------------------------------------
(* The strings of a source file: AssemblyContext.  A text is the sequence  *)
(* of its characters, none of them 0.  The lookup of an equal string       *)
(* compares the address of the new one with places in the arena, so it     *)
(* never finds one, and every string is appended.                          *)

NewPool == [arena |-> <<>>, table |-> <<>>]

AppendNew(pool, text) ==
    [arena |-> pool.arena \o text \o <<0>>,
     table |-> Append(pool.table, [length |-> Len(text), offset |-> Len(pool.arena)])]

(* The index of the string that AppendNew adds. *)
NextString(pool) == Len(pool.table)
=============================================================================
