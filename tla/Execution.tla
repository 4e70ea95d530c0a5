------------------------------ MODULE Execution ------------------------------
(***************************************************************************)
(* A built program, loaded and executed byte by byte, and what its author  *)
(* is promised of it: Routines.  The registers, the stack and the          *)
(* instruction pointer are the machine's; which routine they belong to is  *)
(* read back from the addresses.                                           *)
(***************************************************************************)
EXTENDS Build, Machine

LOCAL Seqs == INSTANCE SequencesExt

CONSTANT LibraryResults        \* words a library function may return

VARIABLES
    image,     \* the bytes of the program, by address
    machine,
    sites,     \* history: by address, the instruction of the routine there
    last,      \* history: the site executed last
    frames,    \* history: by activation, its entry: routine, rsp, registers
    events     \* history: the calls of library functions

executionVars == <<image, machine, sites, last, frames, events>>
vars == <<stage, compilerVars, executionVars>>

GeneralRegisters == (0 .. 15) \ {Rsp, Rbp}
CalleeSavedRegisters == Platform.CalleeSaved \ {Rsp, Rbp}
ArgumentRegisters == {Platform.IntegerParameterRegisters[k] : k \in 1 .. 4}

ExitAddress == 4096 * 13
EntryStack == StackTop - 256

InitialRegisters ==
    [r \in 0 .. 15 |-> IF r = Rsp THEN WordOf(EntryStack - 8) ELSE Filled(16 + r, 8)]

NoMachine ==
    [rip |-> Fault, registers |-> InitialRegisters, flags |-> <<>>, stack |-> [a \in {} |-> 0]]

(* Whoever starts the program has called it. *)
StartAt(address) ==
    [rip |-> address, registers |-> InitialRegisters, flags |-> <<>>,
     stack |-> [a \in EntryStack - 8 .. EntryStack - 1 |-> WordOf(ExitAddress)[a - EntryStack + 9]]]

-----------------------------------------------------------------------------
(* What the bytes of a routine stand for: an index in the routine, 0 for   *)
(* the prologue, and the way out behind the first of the epilogue.         *)

Site(routine, index, leaving) == [routine |-> routine, index |-> index, leaving |-> leaving]

Tags(name, code, layout) ==
    LET way == Epilogue(layout)
        Body(k) == (IF code[k].name = "Ret"
                    THEN [j \in DOMAIN way |-> Site(name, k, j > 1)] ELSE <<>>)
                       \o <<Site(name, k, code[k].name = "Ret" /\ way # <<>>)>>
    IN  [k \in DOMAIN Prologue(layout) |-> Site(name, 0, FALSE)]
            \o Seqs!FlattenSeq([k \in DOMAIN code |-> Body(k)])

Lengths(instructions) == [k \in DOMAIN instructions |-> Len(EmitInstruction(instructions[k]))]

Starts(lengths, base) ==
    LET at[k \in DOMAIN lengths] == IF k = 1 THEN base ELSE at[k - 1] + lengths[k - 1]
    IN  at

(* Labels have no bytes. *)
SitesAt(starts, lengths, tags) ==
    {[at |-> starts[k], site |-> tags[k]] : k \in {j \in DOMAIN tags : lengths[j] > 0}}

(* Behind the bytes of a direct call there is one left over. *)
LeftOver(starts, lengths, tags, instructions) ==
    {[at |-> starts[k] + 5,
      site |-> tags[CHOOSE n \in k + 1 .. Len(tags) :
                      lengths[n] > 0 /\ \A j \in k + 1 .. n - 1 : lengths[j] = 0]] :
        k \in {j \in DOMAIN tags : instructions[j].name = "Call"}}

SitesOfCode(tags, instructions, lengths, starts) ==
    SitesAt(starts, lengths, tags) \cup LeftOver(starts, lengths, tags, instructions)

SitesOf(name, built, instructions, base) ==
    SitesOfCode(Tags(name, built.code, built.layout), instructions, Lengths(instructions),
                Starts(Lengths(instructions), base))

AllSites ==
    UNION {SitesOf(functions[k].name, layouts[functions[k].name],
                   Finalise(layouts[functions[k].name].layout, layouts[functions[k].name].code),
                   SectionBase(1) + functions[k].offset) : k \in DOMAIN functions}

ByAddress(pairs) == [a \in {p.at : p \in pairs} |-> (CHOOSE p \in pairs : p.at = a).site]

-----------------------------------------------------------------------------
(* Loading and executing. *)

NoSite == Site("", -1, FALSE)
Nothing == [a \in {} |-> 0]

ExecutionInit ==
    /\ image = Nothing
    /\ machine = NoMachine
    /\ sites = Nothing
    /\ last = NoSite
    /\ frames = <<>>
    /\ events = <<>>

Begin(address) ==
    /\ machine' = StartAt(address)
    /\ frames' = <<[routine |-> "_EntryPoint", base |-> EntryStack - 8, registers |-> InitialRegisters]>>
    /\ sites' = ByAddress(AllSites)
    /\ UNCHANGED <<last, events>>

(* The loader refuses a file that is not well formed. *)
LoadObject ==
    /\ stage = "Linked" /\ program.linker = "Coff"
    /\ IF WellFormed(file.cells) /\ Bound(file.cells)
       THEN /\ stage' = "Running"
            /\ image' = LoadedImage(file.cells)
            /\ Begin(EntryPoint(file.cells, "_EntryPoint"))
       ELSE stage' = "Failed" /\ UNCHANGED executionVars
    /\ UNCHANGED compilerVars

(* An image whose code the linker left as the emitter made it.             *)
SelfContained == emitter.linkerForwardedRelocations = {} /\ emitter.stringRelocation = <<>>

LoadExecutable ==
    /\ stage = "Linked" /\ program.linker = "Pe" /\ SelfContained
    /\ stage' = "Running"
    /\ LET text == CHOOSE k \in DOMAIN file.sections : file.sections[k].name = ".text"
       IN  image' = Placed(file.sections[text].virtualAddress, CellAt(file.sections[text].cells, 0))
    /\ Begin(file.addressOfEntryPoint)
    /\ UNCHANGED compilerVars

InLibrary == \E k \in DOMAIN Library : machine.rip = FunctionAddress(Library[k])
Function == CHOOSE n \in LibraryNames : machine.rip = FunctionAddress(n)

Executes == Decode(Fetched(image, machine.rip)).instr.op

(* A call of a routine begins an activation, its ret ends it.              *)
Accounted(op, after) ==
    CASE op = "call" /\ after.rip \in DOMAIN sites ->
           Append(frames, [routine |-> sites[after.rip].routine,
                           base |-> AddressIn(after.registers[Rsp]), registers |-> after.registers])
      [] op = "ret" -> SubSeq(frames, 1, Len(frames) - 1)
      [] OTHER -> frames

ExecuteInstruction ==
    /\ stage = "Running"
    /\ machine.rip \in DOMAIN sites
    /\ \E after \in {Step(image, machine)} :
        /\ machine' = after
        /\ frames' = Accounted(Executes, after)
        /\ stage' = IF after.rip = ExitAddress THEN "Exited" ELSE "Running"
    /\ last' = sites[machine.rip]
    /\ UNCHANGED <<compilerVars, image, sites, events>>

(* What a function of a library is shown. *)
Shown(function) ==
    LET top == AddressIn(machine.registers[Rsp])
    IN  [function |-> function,
         registers |-> [r \in ArgumentRegisters |-> machine.registers[r]],
         arguments |-> [k \in 1 .. program.stackArguments[function] |->
                          LoadBytes(image, machine, top + 8 + ShadowSpace + 8 * (k - 1), 8)]]

LibraryFunction ==
    /\ stage = "Running"
    /\ InLibrary
    /\ events' = Append(events, Shown(Function))
    /\ \E result \in LibraryResults :
        machine' = LibraryReturn(image, machine, result, program.stackArguments[Function])
    /\ UNCHANGED <<stage, compilerVars, image, sites, last, frames>>

(* The end: the program has left, or its image is not one to execute.      *)
AtEnd ==
    \/ stage = "Exited"
    \/ stage = "Linked" /\ program.linker = "Pe" /\ ~SelfContained

Finish == AtEnd /\ UNCHANGED vars

Init == BuildInit /\ ExecutionInit

Next ==
    \/ BuildNext /\ UNCHANGED executionVars
    \/ LoadObject \/ LoadExecutable \/ ExecuteInstruction \/ LibraryFunction
    \/ Finish

Spec == Init /\ [][Next]_vars

-----------------------------------------------------------------------------
(* The routines, seen through the machine. *)

SiteAt(address) ==
    CASE address \in DOMAIN sites -> sites[address]
      [] address = ExitAddress -> Site("", -2, FALSE)
      [] OTHER -> Site("", -3, FALSE)

PlaceOfSite(site) == [routine |-> site.routine, index |-> site.index]

ReturnAddress(frame) == AddressIn(LoadBytes(image, machine, frame.base, 8))

(* On the way out of a routine its activation has ended already.           *)
Here == IF InLibrary THEN last ELSE SiteAt(machine.rip)
Leaving == stage = "Running" /\ Here.leaving

Started == stage \in {"Running", "Exited"}

Position ==
    IF ~Started THEN PlaceOfSite(NoSite)
    ELSE IF Leaving THEN PlaceOfSite(SiteAt(ReturnAddress(frames[Len(frames)])))
    ELSE PlaceOfSite(Here)

Registers ==
    [r \in GeneralRegisters |->
       IF Leaving /\ r \in CalleeSavedRegisters THEN frames[Len(frames)].registers[r]
       ELSE machine.registers[r]]

FrameBottom(frame, built) ==
    frame.base - (AlreadyPushed(built.layout.omits, Len(built.layout.savedRegisters)) - SlotSize)
        - built.layout.stackFrameSize

SlotAddress(frame, built, v) ==
    FrameBottom(frame, built) + AboveRsp(built.layout, StackOperand(built.stackSlots[v]))

ArgumentAddress(frame, built, slot) ==
    FrameBottom(frame, built) + Platform.InitialStackReserve + SlotSize * (slot - 1)

OutgoingSlots(built) == (built.layout.outgoingReserve - Platform.InitialStackReserve) \div SlotSize

(* An activation of Routines, read from the stack of the machine.          *)
Activation(frame, built, locals) ==
    [routine |-> frame.routine,
     return |-> PlaceOfSite(SiteAt(ReturnAddress(frame))),
     saved |-> [r \in CalleeSavedRegisters |-> frame.registers[r]],
     address |-> [v \in DOMAIN locals |-> SlotAddress(frame, built, v)],
     contents |-> [v \in DOMAIN locals |->
                     LoadBytes(image, machine, SlotAddress(frame, built, v), locals[v])],
     outgoing |-> [slot \in 1 .. OutgoingSlots(built) |->
                     LoadBytes(image, machine, ArgumentAddress(frame, built, slot), SlotSize)]]

LocalsOf(name) ==
    (CHOOSE r \in UNION {{program.units[u][k] : k \in DOMAIN program.units[u]} : u \in DOMAIN program.units} :
        r.name = name).locals

Activations ==
    [k \in 1 .. Len(frames) - (IF Leaving THEN 1 ELSE 0) |->
        Activation(frames[k], layouts[frames[k].routine], LocalsOf(frames[k].routine))]

(* The texts of the image: from each byte of .rdata to the next 0.         *)
TextAt(address) ==
    LET end == CHOOSE e \in address .. SectionBase(2) + Len(StringData) :
                 image[e] = 0 /\ \A a \in address .. e - 1 : image[a] # 0
    IN  [k \in 1 .. end - address |-> image[address + k - 1]]

TextAddresses == DOMAIN image \cap SectionBase(2) .. SectionBase(2) + Len(StringData) - 1

Strings == IF Started THEN [a \in TextAddresses |-> TextAt(a)] ELSE Nothing

Abstract ==
    INSTANCE Routines WITH
        position <- Position, registers <- Registers, activations <- Activations,
        compared <- machine.flags, events <- events, strings <- Strings

-----------------------------------------------------------------------------
(* Properties *)

(* State of the right shape: offsets lie inside the code, frames are       *)
(* activations of routines, the words of the machine are bytes.            *)
TypeOK ==
    /\ program \in Programs
    /\ stage \in {"Compile", "Emit", "Link", "Linked", "Running", "Exited", "Failed"}
    /\ unit \in 1 .. Len(program.units) + 1
    /\ \A k \in DOMAIN generatedMachineCode : generatedMachineCode[k] \in 0 .. 255
    /\ \A k \in DOMAIN functions : functions[k].offset \in 0 .. Len(generatedMachineCode) - 1
    /\ \A r \in 0 .. 15 : machine.registers[r] \in [1 .. 8 -> 0 .. 255]
    /\ \A k \in DOMAIN frames : frames[k].routine \in DOMAIN layouts

(* Every program of these is built to its end: no slot outside its frame,  *)
(* no jump to a label that is not there, no patch beside its instruction,  *)
(* and a file whose pointers all lead to what they should and whose names  *)
(* each stand for one thing.                                               *)
BuildSucceeds ==
    /\ stage # "Failed"
    /\ stage = "Linked" /\ program.linker = "Coff" => WellFormed(file.cells) /\ Bound(file.cells)

(* Every text is where the code looks for it: the field that was patched   *)
(* for the k-th text of the program leads into the strings handed to the   *)
(* linker, to that text and the 0 behind it.                               *)
TextsOfCode(code) ==
    LET loads == SelectSeq(code, LAMBDA i : i.name = "Lea" /\ i.address.kind = "Text")
    IN  [k \in DOMAIN loads |-> loads[k].address.text]

Texts ==
    Seqs!FlattenSeq([u \in DOMAIN program.units |->
        Seqs!FlattenSeq([k \in DOMAIN program.units[u] |-> TextsOfCode(program.units[u][k].code)])])

TextsStand ==
    stage = "Linked" =>
        /\ Len(emitter.stringRelocation) = Len(Texts)
        /\ \A k \in DOMAIN Texts :
            LET at == Field32(generatedMachineCode, emitter.stringRelocation[k])
            IN  /\ at >= 0 /\ at + Len(Texts[k]) < Len(stringArray)
                /\ SubSeq(stringArray, at + 1, at + Len(Texts[k]) + 1) = Append(Texts[k], 0)

(* At the entry of every routine and of every library function the stack   *)
(* pointer is 8 below a multiple of 16, whatever was saved and reserved.   *)
AlignedAtEntries ==
    /\ \A k \in DOMAIN frames : frames[k].base % Platform.StackAlignment = SlotSize
    /\ stage = "Running" /\ InLibrary =>
        AddressIn(machine.registers[Rsp]) % Platform.StackAlignment = SlotSize

(* The directories of an executable lead to what was exported, each name   *)
(* once and to where its code is, and to what is imported, each function   *)
(* under its library, in both tables, whatever the order of the maps.      *)
Exported(k) ==
    LET directory == At(file, file.exportDirectory.VirtualAddress)
    IN  [name |-> At(file, At(file, directory.AddressOfNames + 4 * k)),
         address |-> At(file, directory.AddressOfFunctions
                                + 4 * At(file, directory.AddressOfNameOrdinals + 2 * k))]

ExportsLead ==
    LET directory == At(file, file.exportDirectory.VirtualAddress)
    IN  /\ HasAt(file, file.exportDirectory.VirtualAddress, ExportDirectoryBytes)
        /\ \A k \in 0 .. directory.NumberOfNames - 1 :
            /\ HasAt(file, directory.AddressOfFunctions + 4 * k, 4)
            /\ HasAt(file, directory.AddressOfNames + 4 * k, 4)
            /\ HasAt(file, directory.AddressOfNameOrdinals + 2 * k, 2)
            /\ IsName(file, At(file, directory.AddressOfNames + 4 * k))
        /\ {Exported(k) : k \in 0 .. directory.NumberOfNames - 1}
             = {[name |-> functions[k].name, address |-> SectionBase(1) + functions[k].offset] :
                  k \in DOMAIN functions}

Limit == Cardinality(DOMAIN Imports) + 1
Descriptors == Table(file, file.importDirectory.VirtualAddress, DescriptorBytes, NoDescriptor, Limit)
Thunks(rva) == Table(file, rva, ThunkBytes, 0, Limit)

Imported(descriptor) ==
    {[library |-> At(file, descriptor.Name), function |-> At(file, Thunks(descriptor.FirstThunk)[k] + 2)] :
        k \in DOMAIN Thunks(descriptor.FirstThunk)}

DescriptorLeads(descriptor) ==
    /\ IsName(file, descriptor.Name)
    /\ Terminated(file, descriptor.FirstThunk, ThunkBytes, 0, Limit)
    /\ Thunks(descriptor.FirstThunk) = Thunks(descriptor.OriginalFirstThunk)
    /\ descriptor.FirstThunk >= file.iatDirectory.VirtualAddress
    /\ descriptor.FirstThunk + ThunkBytes * (Len(Thunks(descriptor.FirstThunk)) + 1)
         <= file.iatDirectory.VirtualAddress + file.iatDirectory.Size
    /\ \A k \in DOMAIN Thunks(descriptor.FirstThunk) : IsName(file, Thunks(descriptor.FirstThunk)[k] + 2)

ImportsLead ==
    /\ Terminated(file, file.importDirectory.VirtualAddress, DescriptorBytes, NoDescriptor, Limit)
    /\ \A k \in DOMAIN Descriptors : DescriptorLeads(Descriptors[k])
    /\ UNION {Imported(Descriptors[k]) : k \in DOMAIN Descriptors}
         = {[library |-> CHOOSE d \in LibrariesOf(Imports[f]) : TRUE, function |-> Imports[f]] : f \in DOMAIN Imports}

DirectoriesLead == stage = "Linked" /\ program.linker = "Pe" => ExportsLead /\ ImportsLead

(* The program behaves as its routines: Routines.                          *)
RefinesRoutines == Abstract!Spec
=============================================================================
