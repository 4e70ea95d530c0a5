------------------------------- MODULE Driver -------------------------------
(***************************************************************************)
(* The run of the compiler around its stages: the command line makes a     *)
(* configuration, one argument at a time; a target is selected, the source *)
(* files pass the stages one after the other, and at the end one file is   *)
(* written or the compiler says why not.                                   *)
(*                                                                         *)
(* An argument is [name, values]: its name, of which spelling and aliases  *)
(* are left out, and what its value splits into at commas and prefixes; no *)
(* value is <<>>, an empty one <<"">>.  A name of no option is "source".   *)
(* What a stage reports, whether it or main throws, and whether files can  *)
(* be read and written, is open.                                           *)
(***************************************************************************)
EXTENDS Integers, Sequences, FiniteSets

CONSTANTS
    Words,          \* what names and values are
    Arguments,      \* the arguments a command line is made of
    MaxArguments,   \* bound: the arguments of one command line
    Host            \* the platform the compiler runs on

ASSUME WordsAssumption ==
    {"", "4096", "output.txt", "out", "output.exe", "CAO.dll", "KERNEL32.dll", "USER32.dll"} \subseteq Words
ASSUME ArgumentsAssumption ==
    \A a \in Arguments : /\ a = [name |-> a.name, values |-> a.values]
                         /\ a.values \in Seq(Words)
                         /\ a.name = "source" => Len(a.values) = 1
ASSUME HostAssumption == Host \in {"Windows", "Linux"}
ASSUME MaxArgumentsAssumption == MaxArguments \in Nat

VARIABLES
    arguments,      \* history: the arguments taken
    config,         \* CompilerConfig
    phase,          \* where main is
    unit, stage,    \* the source file in work, and its next stage
    diagnostics,    \* by source file: the levels of what was reported
    printed,        \* the source files whose diagnostics were printed
    hadErrors,
    dump,           \* the stages whose output went to the dump file
    image,          \* the output image
    outcome

fileVars == <<unit, stage, diagnostics, printed, hadErrors, dump, image>>
vars == <<arguments, config, phase, fileVars, outcome>>

-----------------------------------------------------------------------------
(* Names of the configuration. *)

Stages == <<"Preprocessor", "Tokens", "AST", "IR", "VInst", "IInst", "PInst", "Emit">>
StageNames == {Stages[k] : k \in DOMAIN Stages}
VerboseFeatures == StageNames \cup {"FinalEmit", "Time"}

Optimisations ==
    {"ConstantFoldArithmetic", "ConstantFoldArrayIndirections", "InlineRegularFunctions", "UseDecInc",
     "RemoveRedundantMovs", "OmitCallingFrame", "TailJmp", "XorToZero", "EncoderOptimisations",
     "AggressiveEncoderOptimisations", "OptimiseDeadJumps"}

ISAs == {"x86_32", "x86_64", "ARM32", "ARM64"}
Platforms == {"None", "Windows", "Linux"}
SDKs == {"Unknown", "WindowsSDK10", "LinuxKernel7x", "LinuxKernel7014"}
MicroArchs == {"Unknown", "Haswell", "Skylake"}
Linkers == {"Windows64", "Windows32", "Caosys", "Undefined", "Windows64Coff"}
Sizes == {"Int", "LongLong"}

(* An extension is a bit; those of ARM share the bits of those of x86.     *)
X86Extensions ==
    <<"SSE", "SSE2", "SSE3", "SSSE3", "SSE4_1", "SSE4_2", "AVX", "AVX2", "FMA", "AVX512F", "AVX512BW",
      "AVX512DQ", "AVX512VL", "BMI1", "BMI2", "LZCNT", "POPCNT">>
ArmExtensions == <<"NEON", "ASIMD", "AES", "SHA1", "SHA2", "SVE", "SVE2", "FP16", "DOTPROD">>
ExtensionBits(name) ==
    {k \in DOMAIN X86Extensions : X86Extensions[k] = name} \cup {k \in DOMAIN ArmExtensions : ArmExtensions[k] = name}

Target(isa, platform, sdk) ==
    [isa |-> isa, platform |-> platform, sdk |-> sdk, cpu |-> "Unknown", extensions |-> {}]

Targets ==
    [isa : ISAs, platform : Platforms, sdk : SDKs, cpu : MicroArchs,
     extensions : SUBSET DOMAIN X86Extensions]

-----------------------------------------------------------------------------
(* CompilerConfig *)

Configs ==
    [sourceFiles : Seq(Words), warningsAreErrors : BOOLEAN, outputImage : Words, linker : Linkers,
     verboseFeatures : SUBSET VerboseFeatures, firstVerboseFeature : VerboseFeatures \cup {""},
     dumpToFile : BOOLEAN, dumpFeature : StageNames \cup {""}, importedLibraries : Seq(Words),
     useDebugger : BOOLEAN, optimisations : SUBSET Optimisations, depth : Words,
     target : Targets, sizes : Sizes]

(* The host, whose ISA is x86_64. *)
HostDefaults ==
    [sourceFiles |-> <<>>, warningsAreErrors |-> FALSE, outputImage |-> "",
     linker |-> IF Host = "Windows" THEN "Windows64" ELSE "Undefined",
     verboseFeatures |-> {}, firstVerboseFeature |-> "",
     dumpToFile |-> FALSE, dumpFeature |-> "", importedLibraries |-> <<>>,
     useDebugger |-> FALSE, optimisations |-> {}, depth |-> "4096",
     target |-> Target("x86_64", Host, IF Host = "Windows" THEN "WindowsSDK10" ELSE "LinuxKernel7x"),
     sizes |-> "LongLong"]

Elements(list) == {list[k] : k \in DOMAIN list}
Needs(a) == a.values \notin {<<>>, <<"">>}          \* RequireValue
One(a, values) == Len(a.values) = 1 /\ a.values[1] \in values

(* Presets of the target.  One of them leaves the rest of it alone.        *)
ImagePresets == {"windows-x64", "windows-x64-coff", "coff64", "windows-x86", "caosys", "linux-x64"}

PresetLinker(preset) ==
    CASE preset = "windows-x64" -> "Windows64"
      [] preset \in {"windows-x64-coff", "coff64"} -> "Windows64Coff"
      [] preset = "windows-x86" -> "Windows32"
      [] preset = "caosys" -> "Caosys"
      [] OTHER -> "Undefined"

PresetTarget(preset, target) ==
    CASE preset \in {"windows-x64", "windows-x64-coff"} -> Target("x86_64", "Windows", "WindowsSDK10")
      [] preset = "coff64" -> [target EXCEPT !.isa = "x86_64"]
      [] preset = "windows-x86" -> Target("x86_32", "Windows", "WindowsSDK10")
      [] preset = "caosys" -> Target("x86_64", "None", "Unknown")
      [] OTHER -> Target("x86_64", "Linux", "LinuxKernel7x")

ApplyImagePreset(c, preset) ==
    [c EXCEPT !.linker = PresetLinker(preset),
              !.target = PresetTarget(preset, @),
              !.sizes = IF preset = "windows-x86" THEN "Int" ELSE "LongLong"]

OptimisationPresets == {"O0", "O1", "O2", "O3", "Os"}

Efficient ==
    {"ConstantFoldArithmetic", "ConstantFoldArrayIndirections", "RemoveRedundantMovs", "XorToZero",
     "OptimiseDeadJumps"}

OptimisationPreset(preset) ==
    CASE preset = "O0" -> {}
      [] preset = "O1" -> Efficient
      [] preset = "O2" -> Efficient \cup {"InlineRegularFunctions", "UseDecInc", "OmitCallingFrame", "TailJmp",
                                          "EncoderOptimisations"}
      [] preset = "O3" -> Optimisations
      [] OTHER -> Efficient \cup {"TailJmp"}

ApplyOptimisationPresetAdding(c, preset) == [c EXCEPT !.optimisations = @ \cup OptimisationPreset(preset)]

ApplyOptimisationPreset(c, preset) == [c EXCEPT !.optimisations = OptimisationPreset(preset)]

NoteFirstVerboseFeature(c, feature) ==
    IF c.firstVerboseFeature = "" THEN [c EXCEPT !.firstVerboseFeature = feature] ELSE c

EnableVerbose(c, features) == [c EXCEPT !.verboseFeatures = @ \cup features]

ParseVerboseFeatures(c, values) ==
    CASE values = <<"all">> -> NoteFirstVerboseFeature(EnableVerbose(c, VerboseFeatures), "Preprocessor")
      [] values = <<"none">> -> [c EXCEPT !.verboseFeatures = {}, !.firstVerboseFeature = ""]
      [] OTHER -> NoteFirstVerboseFeature(EnableVerbose(c, Elements(values)), values[1])

ParseExtensions(c, values) ==
    [c EXCEPT !.target.extensions =
        IF values = <<"none">> THEN {} ELSE @ \cup UNION {ExtensionBits(e) : e \in Elements(values)}]

-----------------------------------------------------------------------------
(* The command line: each action takes an argument, or ends the run.       *)

Over(how) == phase' = "Over" /\ outcome' = how

TakeAs(a, c) ==
    /\ arguments' = Append(arguments, a)
    /\ config' = c
    /\ UNCHANGED <<phase, outcome, fileVars>>

CommandLineError == Over("CommandLineError") /\ UNCHANGED <<arguments, config, fileVars>>

Take(a, valid, c) == IF valid THEN TakeAs(a, c) ELSE CommandLineError

TakeSource(a) == a.name = "source" /\ TakeAs(a, [config EXCEPT !.sourceFiles = @ \o a.values])

(* The help and the version are printed at once, whatever is on the line.  *)
TakeHelp(a) ==
    /\ a.name \in {"help", "version", "v"}
    /\ Over("Shown")
    /\ UNCHANGED <<arguments, config, fileVars>>

TakeWarningsAreErrors(a) ==
    /\ a.name \in {"WX", "-WX"}
    /\ TakeAs(a, [config EXCEPT !.warningsAreErrors = (a.name = "WX")])

(* Of the modes two change something: the states of single warnings are in *)
(* a map that nothing fills, and their names are not looked up.            *)
WarningsModes == {"errors", "default", "none", "all"}
WarningsPrefixes == {"errors:", "no-"}

TakeWarnings(a) ==
    /\ a.name = "warnings"
    /\ Take(a, \/ One(a, WarningsModes)
               \/ Len(a.values) = 2 /\ a.values[1] \in WarningsPrefixes /\ a.values[2] # "",
            IF One(a, {"errors", "default"})
            THEN [config EXCEPT !.warningsAreErrors = (a.values[1] = "errors")] ELSE config)

TakeVerboseDefault(a) ==
    /\ a.name = "verbose" /\ a.values = <<>>
    /\ TakeAs(a, NoteFirstVerboseFeature(EnableVerbose(config, {"Preprocessor", "Tokens", "AST", "IR"}),
                                         "Preprocessor"))

TakeVerbose(a) ==
    /\ a.name = "verbose" /\ a.values # <<>>
    /\ Take(a, Needs(a) /\ (Elements(a.values) \subseteq VerboseFeatures \/ One(a, {"all", "none"})),
            ParseVerboseFeatures(config, a.values))

TakeAsm(a) ==
    /\ a.name = "asm"
    /\ Take(a, a.values = <<>>, [config EXCEPT !.dumpToFile = TRUE])

TakeOut(a) ==
    /\ a.name = "out"
    /\ Take(a, Needs(a), [config EXCEPT !.outputImage = a.values[1]])

(* What is included is the preprocessor's. *)
TakeInclude(a) == a.name = "include" /\ Take(a, Needs(a), config)

TakeImage(a) ==
    /\ a.name = "image"
    /\ Take(a, One(a, ImagePresets), ApplyImagePreset(config, a.values[1]))

TakeIsa(a) ==
    /\ a.name = "isa"
    /\ Take(a, One(a, ISAs), [config EXCEPT !.target.isa = a.values[1]])

TakePlatform(a) ==
    /\ a.name = "platform"
    /\ Take(a, One(a, Platforms), [config EXCEPT !.target.platform = a.values[1]])

TakeSdk(a) ==
    /\ a.name = "sdk"
    /\ Take(a, One(a, SDKs), [config EXCEPT !.target.sdk = a.values[1]])

TakeCpu(a) ==
    /\ a.name = "cpu"
    /\ Take(a, One(a, MicroArchs), [config EXCEPT !.target.cpu = a.values[1]])

TakeExtensions(a) ==
    /\ a.name = "extensions"
    /\ Take(a, Needs(a) /\ (One(a, {"none"}) \/ \A e \in Elements(a.values) : ExtensionBits(e) # {}),
            ParseExtensions(config, a.values))

TakeDebugger(a) == a.name = "D" /\ TakeAs(a, [config EXCEPT !.useDebugger = TRUE])

TakeOptimisationPreset(a) ==
    a.name \in OptimisationPresets /\ TakeAs(a, ApplyOptimisationPreset(config, a.name))

TakeOptimisation(a) ==
    /\ a.name = "O"
    /\ Take(a, \/ One(a, Optimisations)
               \/ Len(a.values) = 2 /\ a.values[1] = "no-" /\ a.values[2] \in Optimisations,
            [config EXCEPT !.optimisations =
                IF Len(a.values) = 1 THEN @ \cup {a.values[1]} ELSE @ \ {a.values[2]}])

(* A depth is the text of a number that fits. *)
TakeConstDepth(a) ==
    /\ a.name = "Oconst-depth"
    /\ Take(a, Needs(a) /\ a.values # <<"bad">>, [config EXCEPT !.depth = a.values[1]])

Taken(a) ==
    \/ TakeSource(a) \/ TakeHelp(a) \/ TakeWarningsAreErrors(a) \/ TakeWarnings(a)
    \/ TakeVerboseDefault(a) \/ TakeVerbose(a) \/ TakeAsm(a) \/ TakeOut(a) \/ TakeInclude(a)
    \/ TakeImage(a) \/ TakeIsa(a) \/ TakePlatform(a) \/ TakeSdk(a) \/ TakeCpu(a) \/ TakeExtensions(a)
    \/ TakeDebugger(a) \/ TakeOptimisationPreset(a) \/ TakeOptimisation(a) \/ TakeConstDepth(a)

TakeArgument ==
    /\ phase = "Parsing"
    /\ Len(arguments) < MaxArguments
    /\ \E a \in Arguments : Taken(a)

-----------------------------------------------------------------------------
(* The end of the command line. *)

DumpModeValidUnchecked(c) == c.firstVerboseFeature \notin {"Time", "FinalEmit"} /\ Len(c.sourceFiles) <= 1

DumpModeValid(c) ==
    /\ c.firstVerboseFeature # "" /\ c.verboseFeatures # {}
    /\ c.firstVerboseFeature \notin {"Time", "FinalEmit"}
    /\ Len(c.sourceFiles) <= 1

ResolveDumpMode(c) ==
    IF c.dumpToFile
    THEN [c EXCEPT !.verboseFeatures = {c.firstVerboseFeature}, !.dumpFeature = c.firstVerboseFeature]
    ELSE c

DefaultOutput(c) ==
    CASE c.dumpToFile -> "output.txt"
      [] ~c.dumpToFile /\ c.linker = "Undefined" -> "out"
      [] OTHER -> "output.exe"

DefaultLibraries(c) ==
    CASE c.dumpToFile \/ c.linker = "Undefined" -> <<>>
      [] ~c.dumpToFile /\ c.linker = "Caosys" -> <<"CAO.dll">>
      [] OTHER -> <<"KERNEL32.dll", "USER32.dll">>

ConfigureOutputDefaults(c) ==
    [c EXCEPT !.outputImage = IF @ = "" THEN DefaultOutput(c) ELSE @,
              !.importedLibraries = @ \o DefaultLibraries(c)]

EndOfCommandLine ==
    /\ phase = "Parsing"
    /\ CASE arguments = <<>> -> Over("Shown") /\ config' = config
         [] arguments # <<>> /\ config.dumpToFile /\ ~DumpModeValid(config) ->
              Over("CommandLineError") /\ config' = config
         [] OTHER -> /\ phase' = "Sources" /\ outcome' = outcome
                     /\ config' = ConfigureOutputDefaults(ResolveDumpMode(config))
    /\ UNCHANGED <<arguments, fileVars>>

-----------------------------------------------------------------------------
(* The files and the target. *)

RegisteredSDKs(platform) ==
    CASE platform = "Windows" -> {"Unknown", "WindowsSDK10"}
      [] platform = "Linux" -> {"Unknown", "LinuxKernel7x", "LinuxKernel7014"}
      [] OTHER -> {}

Registered(target) ==
    \E platform \in Platforms, sdk \in SDKs :
        sdk \in RegisteredSDKs(platform) /\ target = Target("x86_64", platform, sdk)

(* A file that cannot be read throws (MainThrows). *)
ReadSources ==
    /\ phase = "Sources"
    /\ IF config.sourceFiles = <<>> THEN Over("NoInput") ELSE phase' = "Target" /\ outcome' = outcome
    /\ UNCHANGED <<arguments, config, fileVars>>

(* A target that is not registered always throws.  Every registered one    *)
(* has an encoder and a platform.                                          *)
SelectTarget ==
    /\ phase = "Target"
    /\ CASE ~Registered(config.target) -> Over("ICE")
         [] Registered(config.target) /\ config.target.sdk = "Unknown" -> Over("NoSDK")
         [] OTHER -> phase' = "Open" /\ outcome' = outcome
    /\ UNCHANGED <<arguments, config, fileVars>>

OpenDumpFile ==
    /\ phase = "Open"
    /\ \/ phase' = "Files" /\ outcome' = outcome
       \/ config.dumpToFile /\ Over("NoDumpFile")
    /\ UNCHANGED <<arguments, config, fileVars>>

-----------------------------------------------------------------------------
(* DoFileIteration *)

Files == Len(config.sourceFiles)
Reporting == {"Preprocessor", "AST", "IR", "VInst"}
Levels == {"Warning", "Error"}

IsDiagnosticsCritical(level) == level = "Error" \/ (config.warningsAreErrors /\ level = "Warning")
HasFatalDiagnosticsErrors(levels) == "Error" \in levels
HasFatalDiagnostics(levels) == \E level \in levels : IsDiagnosticsCritical(level)
StopsAfter(feature) == config.dumpToFile /\ config.dumpFeature = feature
IsVerbose(feature) == feature \in config.verboseFeatures

(* What a verbose stage shows goes to the dump file; if there is none, or  *)
(* standard output cannot be saved, it is shown.                           *)
StageOutput(name) ==
    \/ IsVerbose(name) /\ config.dumpToFile /\ dump' = Append(dump, name)
    \/ dump' = dump

FinishFile(levels) ==
    /\ printed' = printed \cup {unit}
    /\ hadErrors' = (hadErrors \/ HasFatalDiagnostics(levels))
    /\ unit' = unit + 1
    /\ stage' = 1

NextStage == stage' = stage + 1 /\ UNCHANGED <<unit, printed, hadErrors>>

(* What a stage may report. *)
Reports(name) == IF name \in Reporting THEN {{}, {"Warning"}, {"Error"}} ELSE {{}}

CompleteStage ==
    /\ phase = "Files" /\ unit <= Files
    /\ \E found \in Reports(Stages[stage]) :
        /\ diagnostics' = [diagnostics EXCEPT ![unit] = @ \cup found]
        /\ StageOutput(Stages[stage])
        /\ IF StopsAfter(Stages[stage]) \/ stage = Len(Stages)
           THEN FinishFile(diagnostics[unit] \cup found) ELSE NextStage
    /\ UNCHANGED <<arguments, config, phase, image, outcome>>

(* An exception ends the run, after what was reported on the file has been *)
(* printed, unless printing throws too.                                    *)
StageThrows ==
    /\ phase = "Files" /\ unit <= Files
    /\ \E found \in Reports(Stages[stage]) : diagnostics' = [diagnostics EXCEPT ![unit] = @ \cup found]
    /\ StageOutput(Stages[stage])
    /\ printed' \in {printed, printed \cup {unit}}
    /\ Over("ICE")
    /\ UNCHANGED <<arguments, config, unit, stage, hadErrors, image>>

FilesDone ==
    /\ phase = "Files" /\ unit > Files
    /\ CASE hadErrors -> Over("CompilationFailed")
         [] ~hadErrors /\ config.dumpToFile -> Over("Dumped")
         [] OTHER -> phase' = "Link" /\ outcome' = outcome
    /\ UNCHANGED <<arguments, config, fileVars>>

-----------------------------------------------------------------------------
(* Linking and writing.  A linker throws at a function no library exports, *)
(* or a relocation it cannot make (MainThrows).  The stream is asked       *)
(* whether the writing went well before it is closed: what fails after     *)
(* that goes unnoticed.                                                    *)

SelectAndLink ==
    /\ phase = "Link"
    /\ IF config.linker = "Undefined" THEN Over("NoOutput") ELSE phase' = "Write" /\ outcome' = outcome
    /\ UNCHANGED <<arguments, config, fileVars>>

(* What cannot be opened is left alone; a write that fails is reported,    *)
(* unless the report throws.                                               *)
WriteOutput ==
    /\ phase = "Write"
    /\ \/ image' = image /\ Over("WriteFailed")
       \/ image' = "Partial" /\ \E how \in {"WriteFailed", "ICE"} : Over(how)
       \/ image' \in {"Partial", "Complete"} /\ phase' = "Report" /\ outcome' = outcome
    /\ UNCHANGED <<arguments, config, unit, stage, diagnostics, printed, hadErrors, dump>>

(* The path of the file is made absolute, the times are printed, and the   *)
(* debugger runs what was built.                                           *)
ReportAndDebug ==
    /\ phase = "Report"
    /\ Over(IF config.useDebugger THEN "Debugged" ELSE "Built")
    /\ UNCHANGED <<arguments, config, fileVars>>

(* All of main is in one try: what a file, the target, a linker, a path,   *)
(* the debugger or printing throws ends the run wherever it is, with what  *)
(* is on the disk as it is.  A stage throws by itself (StageThrows).       *)
MainThrows ==
    /\ phase # "Over"
    /\ phase = "Files" => unit > Files
    /\ Over("ICE")
    /\ UNCHANGED <<arguments, config, fileVars>>

Finish == phase = "Over" /\ UNCHANGED vars

-----------------------------------------------------------------------------
Init ==
    /\ arguments = <<>>
    /\ config = HostDefaults
    /\ phase = "Parsing"
    /\ unit = 1
    /\ stage = 1
    /\ diagnostics = [u \in 1 .. MaxArguments |-> {}]
    /\ printed = {}
    /\ hadErrors = FALSE
    /\ dump = <<>>
    /\ image = "Untouched"
    /\ outcome = ""

Next ==
    \/ TakeArgument \/ EndOfCommandLine
    \/ ReadSources \/ SelectTarget \/ OpenDumpFile
    \/ CompleteStage \/ StageThrows \/ FilesDone
    \/ SelectAndLink \/ WriteOutput \/ ReportAndDebug \/ MainThrows \/ Finish

Spec == Init /\ [][Next]_vars

-----------------------------------------------------------------------------
(* Properties *)

Outcomes ==
    {"Shown", "CommandLineError", "ICE", "NoInput", "NoSDK", "NoDumpFile", "CompilationFailed", "Dumped",
     "NoOutput", "WriteFailed", "Debugged", "Built"}

(* A configuration of the right shape, and the work of the right file.     *)
TypeOK ==
    /\ arguments \in Seq(Arguments) /\ Len(arguments) <= MaxArguments
    /\ config \in Configs
    /\ phase \in {"Parsing", "Sources", "Target", "Open", "Files", "Link", "Write", "Report", "Over"}
    /\ (phase = "Over") = (outcome # "") /\ outcome \in Outcomes \cup {""}
    /\ Files <= Len(arguments)
    /\ unit \in 1 .. Files + 1 /\ stage \in 1 .. Len(Stages)
    /\ diagnostics \in [1 .. MaxArguments -> SUBSET Levels]
    /\ printed \subseteq 1 .. Files
    /\ hadErrors \in BOOLEAN
    /\ dump \in Seq(StageNames)
    /\ image \in {"Untouched", "Partial", "Complete"}

(* The configuration is what the last arguments to speak about a thing     *)
(* make of it, in whatever order they come: a preset takes back what was   *)
(* set before it and nothing that is set after it, single settings add to  *)
(* it, and the stage that /asm would write is the first one selected since *)
(* the selection was last cleared.                                         *)
Said(names) == {k \in DOMAIN arguments : arguments[k].name \in names}
SaidAs(name, values) == {k \in Said({name}) : arguments[k].values \in values}

Stands(on, off) == \E k \in on : \A j \in off : j < k

WarningsDecided ==
    config.warningsAreErrors <=>
        Stands(Said({"WX"}) \cup SaidAs("warnings", {<<"errors">>}),
               Said({"-WX"}) \cup SaidAs("warnings", {<<"default">>}))

PresetsWith(o) == {p \in OptimisationPresets : o \in OptimisationPreset(p)}

OptimisationDecided(o) ==
    o \in config.optimisations <=>
        Stands(SaidAs("O", {<<o>>}) \cup Said(PresetsWith(o)),
               SaidAs("O", {<<"no-", o>>}) \cup Said(OptimisationPresets \ PresetsWith(o)))

(* A preset says all of the target; but coff64 says its ISA alone.         *)
Complete == Said({"image"}) \ SaidAs("image", {<<"coff64">>})
SaysTarget(field) == Said({field}) \cup (IF field = "isa" THEN Said({"image"}) ELSE Complete)

SaysTargetIs(field, value) ==
    {k \in SaysTarget(field) :
        IF arguments[k].name = "image"
        THEN PresetTarget(arguments[k].values[1], HostDefaults.target)[field] = value
        ELSE arguments[k].values = <<value>>}

Decided(on, about, default) == Stands(on, about \ on) \/ (about = {} /\ default)

TargetDecided(field, value) ==
    config.target[field] = value <=>
        Decided(SaysTargetIs(field, value), SaysTarget(field), HostDefaults.target[field] = value)

ExtensionDecided(bit) ==
    bit \in config.target.extensions <=>
        Stands({k \in Said({"extensions"}) : \E e \in Elements(arguments[k].values) : bit \in ExtensionBits(e)},
               SaidAs("extensions", {<<"none">>}) \cup Complete)

LinkerDecided(linker) ==
    config.linker = linker <=>
        Decided({k \in Said({"image"}) : PresetLinker(arguments[k].values[1]) = linker},
                Said({"image"}), HostDefaults.linker = linker)

(* The features of the line, before /asm leaves one of them.               *)
Clears == SaidAs("verbose", {<<"none">>})
DefaultFeatures == {"Preprocessor", "Tokens", "AST", "IR"}

Selects(f) ==
    {k \in Said({"verbose"}) : LET values == arguments[k].values
                               IN  \/ values = <<>> /\ f \in DefaultFeatures
                                   \/ values = <<"all">>
                                   \/ f \in Elements(values)}

StartsWith(f) ==
    {k \in Said({"verbose"}) : LET values == arguments[k].values
                               IN  \/ values \in {<<>>, <<"all">>} /\ f = "Preprocessor"
                                   \/ values # <<>> /\ values[1] = f}

FirstSelected(f) ==
    \E k \in StartsWith(f) :
        /\ \A j \in Clears : j < k
        /\ \A j \in Said({"verbose"}) \ Clears : j < k => \E i \in Clears : j < i

FeatureDecided(f) ==
    /\ phase = "Parsing" => (f \in config.verboseFeatures <=> Stands(Selects(f), Clears))
    /\ config.firstVerboseFeature = f <=> FirstSelected(f)

LastDecides ==
    /\ WarningsDecided
    /\ \A o \in Optimisations : OptimisationDecided(o)
    /\ \A value \in ISAs : TargetDecided("isa", value)
    /\ \A value \in Platforms : TargetDecided("platform", value)
    /\ \A value \in SDKs : TargetDecided("sdk", value)
    /\ \A value \in MicroArchs : TargetDecided("cpu", value)
    /\ \A bit \in DOMAIN X86Extensions : ExtensionDecided(bit)
    /\ \A linker \in Linkers : LinkerDecided(linker)
    /\ \A f \in VerboseFeatures : FeatureDecided(f)

(* How a run ends tells what it did.  A run that is a success without /asm *)
(* has written its file, and nothing is written of a program with a        *)
(* diagnostic that is an error, a warning under /WX included, or that was  *)
(* not printed.  A file there is anything of is a success, a write that    *)
(* failed, and then it is not complete, or an internal error: an exception *)
(* after the writing leaves a complete one.  With /asm nothing is linked,  *)
(* and the dump file has the output of the one stage selected, or nothing. *)
(* A failed compilation has printed why, and a success all there was.      *)
Erroneous(u) ==
    \/ "Error" \in diagnostics[u]
    \/ config.warningsAreErrors /\ "Warning" \in diagnostics[u]

OutcomeTells ==
    /\ outcome \in {"Dumped", "Built", "Debugged"} =>
         \A u \in 1 .. Files : u \in printed /\ ~Erroneous(u)
    /\ outcome \in {"Built", "Debugged"} => image # "Untouched"
    /\ image # "Untouched" =>
         /\ ~config.dumpToFile
         /\ \A u \in 1 .. Files : u \in printed /\ ~Erroneous(u)
         /\ outcome \in {"", "WriteFailed", "ICE", "Built", "Debugged"}
    /\ outcome = "WriteFailed" => image # "Complete"
    /\ outcome = "CompilationFailed" => \E u \in printed : Erroneous(u)
    /\ outcome = "Dumped" => config.dumpToFile
    /\ dump \in {<<>>, <<config.firstVerboseFeature>>} /\ (dump # <<>> => config.dumpToFile)
=============================================================================
