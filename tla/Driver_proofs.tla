
---------------------------- MODULE Driver_proofs ----------------------------
(***************************************************************************)
(* Proofs about Driver for every set of arguments, command lines of every  *)
(* length and either host.                                                 *)
(*                                                                         *)
(* The configuration: each thing it says is decided by two sets of         *)
(* arguments, those that set it and those that reset it.  That the last    *)
(* word stands is proved once for such a pair (LastWord); what is left is  *)
(* what each option does to each thing.  The outcome: an inductive         *)
(* invariant relates the files done to what was printed and found.         *)
(***************************************************************************)
EXTENDS Driver, TLAPS

-----------------------------------------------------------------------------
(* The invariant of the files. *)

(* Nothing has happened before the first file is taken up. *)
NotBegun ==
    phase \in {"Parsing", "Sources", "Target", "Open"} =>
        /\ unit = 1 /\ stage = 1
        /\ diagnostics = [u \in 1 .. MaxArguments |-> {}]
        /\ printed = {} /\ ~hadErrors

(* /asm has one file and one feature, the one selected first. *)
DumpResolved ==
    phase \in {"Sources", "Target", "Open", "Files", "Link", "Write", "Report"} /\ config.dumpToFile =>
        /\ Files <= 1
        /\ config.dumpFeature = config.firstVerboseFeature
        /\ config.verboseFeatures = {config.firstVerboseFeature}

(* What is in the dump file was written by the last file. *)
DumpedOnce == phase # "Over" /\ dump # <<>> => unit > 1

(* The files done have been printed, and what was wrong was noted. *)
FilesAccounted ==
    /\ \A u \in 1 .. Files : u < unit => u \in printed /\ (Erroneous(u) => hadErrors)
    /\ hadErrors => \E u \in printed : Erroneous(u)

(* Only a run without errors and without /asm links and writes. *)
LinkingIsClean == phase \in {"Link", "Write", "Report"} => unit > Files /\ ~hadErrors /\ ~config.dumpToFile
WritesAtTheEnd ==
    /\ phase \notin {"Report", "Over"} => image = "Untouched"
    /\ phase = "Report" => image # "Untouched"

IInv ==
    /\ TypeOK /\ OutcomeTells
    /\ NotBegun /\ DumpResolved /\ DumpedOnce /\ FilesAccounted /\ LinkingIsClean /\ WritesAtTheEnd

-----------------------------------------------------------------------------
(* Types. *)

(* An argument's value, as a sequence of words. *)
LEMMA ArgumentTyped ==
  ASSUME NEW a \in Arguments
  PROVE  /\ a.values \in Seq(Words)
         /\ a.name = "source" => Len(a.values) = 1
  BY ArgumentsAssumption

LEMMA OneWord ==
  ASSUME NEW values \in Seq(Words), Len(values) = 1
  PROVE  values = <<values[1]>>
  OBVIOUS

LEMMA FirstWord ==
  ASSUME NEW values \in Seq(Words), values # <<>>
  PROVE  values[1] \in Words /\ values[1] \in Elements(values)
  BY DEF Elements

\* The words of the defaults are words.
LEMMA DefaultWords ==
  /\ "" \in Words /\ "4096" \in Words
  /\ "output.txt" \in Words /\ "out" \in Words /\ "output.exe" \in Words
  /\ <<"CAO.dll">> \in Seq(Words) /\ <<"KERNEL32.dll", "USER32.dll">> \in Seq(Words) /\ <<>> \in Seq(Words)
<1>1. /\ "" \in Words /\ "4096" \in Words
      /\ "output.txt" \in Words /\ "out" \in Words /\ "output.exe" \in Words
      /\ "CAO.dll" \in Words /\ "KERNEL32.dll" \in Words /\ "USER32.dll" \in Words
  BY WordsAssumption, Zenon
<1>2. \A v, w \in Words : <<v>> \in Seq(Words) /\ <<v, w>> \in Seq(Words)
  OBVIOUS
<1>3. <<>> \in Seq(Words)
  OBVIOUS
<1> QED BY <1>1, <1>2, <1>3, Zenon

\* The configuration of the host is one.
LEMMA HostDefaultsTyped == HostDefaults \in Configs
<1> DEFINE sdk == IF Host = "Windows" THEN "WindowsSDK10" ELSE "LinuxKernel7x"
           linker == IF Host = "Windows" THEN "Windows64" ELSE "Undefined"
           t == Target("x86_64", Host, sdk)
<1>1. t \in Targets
  BY HostAssumption DEF Target, Targets, Platforms, SDKs, ISAs, MicroArchs
<1>2. linker \in Linkers /\ "LongLong" \in Sizes
  BY DEF Linkers, Sizes
<1>3. HostDefaults =
        [sourceFiles |-> <<>>, warningsAreErrors |-> FALSE, outputImage |-> "", linker |-> linker,
         verboseFeatures |-> {}, firstVerboseFeature |-> "", dumpToFile |-> FALSE, dumpFeature |-> "",
         importedLibraries |-> <<>>, useDebugger |-> FALSE, optimisations |-> {}, depth |-> "4096",
         target |-> t, sizes |-> "LongLong"]
  BY DEF HostDefaults
<1> HIDE DEF linker, t
<1> QED BY <1>1, <1>2, <1>3, DefaultWords DEF Configs

-----------------------------------------------------------------------------
(* What an argument does. *)

Accepted(a, d) == arguments' = Append(arguments, a) /\ config' = d /\ UNCHANGED <<phase, outcome, fileVars>>
Refused == UNCHANGED <<arguments, config, fileVars>> /\ phase' = "Over" /\ outcome' \in {"Shown", "CommandLineError"}

\* What an argument leaves alone, by its name.
Leaves(a, c, d) ==
    /\ a.name # "source" => d.sourceFiles = c.sourceFiles
    /\ a.name \notin {"WX", "-WX", "warnings"} => d.warningsAreErrors = c.warningsAreErrors
    /\ a.name \notin OptimisationPresets \cup {"O"} => d.optimisations = c.optimisations
    /\ a.name \notin {"image", "isa"} => d.target.isa = c.target.isa
    /\ a.name \notin {"image", "platform"} => d.target.platform = c.target.platform
    /\ a.name \notin {"image", "sdk"} => d.target.sdk = c.target.sdk
    /\ a.name \notin {"image", "cpu"} => d.target.cpu = c.target.cpu
    /\ a.name \notin {"image", "extensions"} => d.target.extensions = c.target.extensions
    /\ a.name # "image" => d.linker = c.linker
    /\ a.name # "verbose" =>
         d.verboseFeatures = c.verboseFeatures /\ d.firstVerboseFeature = c.firstVerboseFeature

\* What it sets.
Selected(c, d, features, first) ==
    /\ d.verboseFeatures = c.verboseFeatures \cup features
    /\ d.firstVerboseFeature = IF c.firstVerboseFeature = "" THEN first ELSE c.firstVerboseFeature

Says(a, c, d) ==
    /\ a.name = "source" => Len(d.sourceFiles) = Len(c.sourceFiles) + 1
    /\ a.name \in {"WX", "-WX"} => d.warningsAreErrors = (a.name = "WX")
    /\ a.name = "warnings" =>
         \/ a.values = <<"errors">> /\ d.warningsAreErrors
         \/ a.values = <<"default">> /\ ~d.warningsAreErrors
         \/ a.values \notin {<<"errors">>, <<"default">>} /\ d.warningsAreErrors = c.warningsAreErrors
    /\ a.name \in OptimisationPresets => d.optimisations = OptimisationPreset(a.name)
    /\ a.name = "O" =>
         \E o \in Optimisations : \/ a.values = <<o>> /\ d.optimisations = c.optimisations \cup {o}
                                  \/ a.values = <<"no-", o>> /\ d.optimisations = c.optimisations \ {o}
    /\ a.name = "image" =>
         /\ a.values = <<a.values[1]>> /\ a.values[1] \in ImagePresets
         /\ d.target = PresetTarget(a.values[1], c.target)
         /\ d.linker = PresetLinker(a.values[1])
    /\ a.name = "isa" => a.values = <<d.target.isa>>
    /\ a.name = "platform" => a.values = <<d.target.platform>>
    /\ a.name = "sdk" => a.values = <<d.target.sdk>>
    /\ a.name = "cpu" => a.values = <<d.target.cpu>>
    /\ a.name = "extensions" =>
         d.target.extensions =
            IF a.values = <<"none">> THEN {}
            ELSE c.target.extensions \cup UNION {ExtensionBits(e) : e \in Elements(a.values)}
    /\ a.name = "verbose" =>
         \/ a.values = <<>> /\ Selected(c, d, DefaultFeatures, "Preprocessor")
         \/ a.values = <<"all">> /\ Selected(c, d, VerboseFeatures, "Preprocessor")
         \/ a.values = <<"none">> /\ d.verboseFeatures = {} /\ d.firstVerboseFeature = ""
         \/ /\ a.values # <<>> /\ Elements(a.values) \subseteq VerboseFeatures
            /\ Selected(c, d, Elements(a.values), a.values[1])

\* A preset of optimisations is a set of them.
LEMMA PresetTyped ==
  ASSUME NEW preset \in OptimisationPresets
  PROVE  OptimisationPreset(preset) \subseteq Optimisations
  BY DEF OptimisationPreset, Optimisations, Efficient, OptimisationPresets

LEMMA Concatenated ==
  ASSUME NEW s \in Seq(Words), NEW t \in Seq(Words)
  PROVE  s \o t \in Seq(Words) /\ Len(s \o t) = Len(s) + Len(t)
  OBVIOUS

\* The features by name.
LEMMA FeaturesNamed ==
  /\ {"Preprocessor", "Tokens", "AST", "IR"} \subseteq VerboseFeatures /\ VerboseFeatures \subseteq VerboseFeatures
  /\ "" \notin VerboseFeatures /\ "all" \notin VerboseFeatures /\ "none" \notin VerboseFeatures
  /\ VerboseFeatures \ {"Time", "FinalEmit"} \subseteq StageNames
<1>1. DOMAIN Stages = 1 .. 8
  BY DEF Stages
<1>2. StageNames = {"Preprocessor", "Tokens", "AST", "IR", "VInst", "IInst", "PInst", "Emit"}
  BY <1>1 DEF StageNames, Stages
<1> QED BY <1>2 DEF VerboseFeatures

\* Selecting features changes the selection alone.
LEMMA SelectionEffect ==
  ASSUME NEW c \in Configs, NEW features \in SUBSET VerboseFeatures, NEW first \in VerboseFeatures,
         NEW d, d = NoteFirstVerboseFeature(EnableVerbose(c, features), first),
         NEW a, a.name = "verbose"
  PROVE  d \in Configs /\ Selected(c, d, features, first) /\ Leaves(a, c, d)
<1>1. EnableVerbose(c, features) \in Configs
  BY DEF EnableVerbose, Configs
<1>2. d \in Configs
  BY <1>1 DEF NoteFirstVerboseFeature, Configs
<1>3. Selected(c, d, features, first) /\ Leaves(a, c, d)
  BY DEF EnableVerbose, NoteFirstVerboseFeature, Configs, Selected, Leaves, OptimisationPresets
<1> QED BY <1>2, <1>3

\* What a preset of the target says has its types.
LEMMA ImagePresetTyped ==
  ASSUME NEW preset \in ImagePresets, NEW t \in Targets
  PROVE  PresetTarget(preset, t) \in Targets /\ PresetLinker(preset) \in Linkers
  BY DEF ImagePresets, PresetTarget, PresetLinker, Target, Targets, ISAs, Platforms, SDKs, MicroArchs, Linkers

LEMMA ExtensionBitsTyped == \A e : ExtensionBits(e) \subseteq DOMAIN X86Extensions
<1>1. DOMAIN ArmExtensions \subseteq DOMAIN X86Extensions
  BY DEF ArmExtensions, X86Extensions
<1> QED BY <1>1 DEF ExtensionBits

\* Every argument is refused, and the run over, or does to each part of the
\* configuration what Says tells and leaves the others as they were.
LEMMA TakenEffect ==
  ASSUME config \in Configs, NEW a \in Arguments, Taken(a)
  PROVE  \/ Refused
         \/ Accepted(a, config') /\ config' \in Configs /\ Leaves(a, config, config') /\ Says(a, config, config')
<1> DEFINE Effect == config' \in Configs /\ Leaves(a, config, config') /\ Says(a, config, config')
<1>0. a.values \in Seq(Words) /\ (a.name = "source" => Len(a.values) = 1)
  BY ArgumentsAssumption
<1>t. ASSUME NEW c, TakeAs(a, c) PROVE Accepted(a, config') /\ config' = c
  BY <1>t DEF TakeAs, Accepted
<1>e. ASSUME CommandLineError PROVE Refused
  BY <1>e DEF CommandLineError, Over, Refused
<1>1. CASE TakeSource(a)
  <2>1. a.name = "source"
    BY <1>1 DEF TakeSource
  <2>2. Accepted(a, config') /\ config' = [config EXCEPT !.sourceFiles = @ \o a.values]
    BY <1>1, <1>t DEF TakeSource
  <2>3. config.sourceFiles \in Seq(Words)
    BY DEF Configs
  <2>4. /\ config.sourceFiles \o a.values \in Seq(Words)
        /\ Len(config.sourceFiles \o a.values) = Len(config.sourceFiles) + 1
    BY <1>0, <2>1, <2>3, Concatenated
  <2>5. config'.sourceFiles = config.sourceFiles \o a.values
    BY <2>2 DEF Configs
  <2>6. config' \in Configs
    BY <2>2, <2>4 DEF Configs
  <2>7. Leaves(a, config, config') /\ Says(a, config, config')
    BY <2>1, <2>2, <2>4, <2>5 DEF Leaves, Says, Configs, OptimisationPresets
  <2> QED BY <2>2, <2>6, <2>7
<1>2. CASE TakeHelp(a)
  BY <1>2 DEF TakeHelp, Over, Refused
<1>3. CASE TakeWarningsAreErrors(a)
  <2>1. a.name \in {"WX", "-WX"}
    BY <1>3 DEF TakeWarningsAreErrors
  <2>3. Accepted(a, config') /\ config' = [config EXCEPT !.warningsAreErrors = (a.name = "WX")]
    BY <1>3, <1>t DEF TakeWarningsAreErrors
  <2>4. config' \in Configs
    BY <1>0, <2>3 DEF Configs
  <2>5. Leaves(a, config, config') /\ Says(a, config, config')
    BY <1>0, <2>1, <2>3 DEF Leaves, Says, Configs, OptimisationPresets
  <2> QED BY <2>3, <2>4, <2>5
<1>4. CASE TakeWarnings(a)
  <2>1. a.name = "warnings"
    BY <1>4 DEF TakeWarnings
  <2>2. \/ Refused
        \/ /\ Accepted(a, config')
           /\ config' = IF One(a, {"errors", "default"})
                        THEN [config EXCEPT !.warningsAreErrors = (a.values[1] = "errors")] ELSE config
    <3>1. CASE One(a, {"errors", "default"})
      BY <1>4, <1>e, <1>t, <3>1 DEF TakeWarnings, Take
    <3>2. CASE ~One(a, {"errors", "default"})
      BY <1>4, <1>e, <1>t, <3>2 DEF TakeWarnings, Take
    <3> QED BY <3>1, <3>2
  <2>3. CASE One(a, {"errors", "default"}) /\ ~Refused
    <3>1. /\ Accepted(a, config') /\ config' = [config EXCEPT !.warningsAreErrors = (a.values[1] = "errors")]
          /\ a.values[1] \in {"errors", "default"} /\ a.values = <<a.values[1]>>
      BY <1>0, <2>2, <2>3, OneWord DEF One
    <3>2. config' \in Configs
      BY <3>1 DEF Configs
    <3>3. Leaves(a, config, config') /\ Says(a, config, config')
      BY <2>1, <3>1 DEF Leaves, Says, Configs, OptimisationPresets
    <3> QED BY <3>1, <3>2, <3>3
  <2>4. CASE ~One(a, {"errors", "default"}) /\ ~Refused
    <3>1. Accepted(a, config') /\ config' = config /\ a.values \notin {<<"errors">>, <<"default">>}
      BY <2>2, <2>4 DEF One
    <3>2. Leaves(a, config, config') /\ Says(a, config, config')
      BY <2>1, <3>1 DEF Leaves, Says, OptimisationPresets
    <3> QED BY <3>1, <3>2
  <2> QED BY <2>3, <2>4
<1>5. CASE TakeVerboseDefault(a)
  <2>1. a.name = "verbose" /\ a.values = <<>> /\ Accepted(a, config')
        /\ config' = NoteFirstVerboseFeature(EnableVerbose(config, DefaultFeatures), "Preprocessor")
    BY <1>5, <1>t DEF TakeVerboseDefault, DefaultFeatures
  <2>2. DefaultFeatures \subseteq VerboseFeatures /\ "Preprocessor" \in VerboseFeatures
    BY FeaturesNamed DEF DefaultFeatures
  <2>3. config' \in Configs /\ Selected(config, config', DefaultFeatures, "Preprocessor") /\ Leaves(a, config, config')
    BY <2>1, <2>2, SelectionEffect
  <2>4. Says(a, config, config')
    BY <2>1, <2>3 DEF Says, OptimisationPresets
  <2> QED BY <2>1, <2>3, <2>4
<1>6. CASE TakeAsm(a)
  <2>1. a.name = "asm"
    BY <1>6 DEF TakeAsm
  <2>2. \/ Refused
        \/ Accepted(a, config') /\ config' = [config EXCEPT !.dumpToFile = TRUE]
    BY <1>6, <1>e, <1>t DEF TakeAsm, Take
  <2>3. SUFFICES ASSUME Accepted(a, config') /\ config' = [config EXCEPT !.dumpToFile = TRUE]
                 PROVE  Effect
    BY <2>2
  <2>4. config' \in Configs
    BY <1>0, <2>3 DEF Configs
  <2>5. Leaves(a, config, config') /\ Says(a, config, config')
    BY <1>0, <2>1, <2>3 DEF Leaves, Says, Configs, OptimisationPresets
  <2> QED BY <2>3, <2>4, <2>5
<1>7. CASE TakeOut(a)
  <2>1. a.name = "out"
    BY <1>7 DEF TakeOut
  <2>2. \/ Refused
        \/ Accepted(a, config') /\ config' = [config EXCEPT !.outputImage = a.values[1]] /\ a.values[1] \in Words
    BY <1>0, <1>7, <1>e, <1>t, FirstWord DEF TakeOut, Take, Needs
  <2>3. SUFFICES ASSUME Accepted(a, config') /\ config' = [config EXCEPT !.outputImage = a.values[1]] /\ a.values[1] \in Words
                 PROVE  Effect
    BY <2>2
  <2>4. config' \in Configs
    BY <1>0, <2>3 DEF Configs
  <2>5. Leaves(a, config, config') /\ Says(a, config, config')
    BY <1>0, <2>1, <2>3 DEF Leaves, Says, Configs, OptimisationPresets
  <2> QED BY <2>3, <2>4, <2>5
<1>8. CASE TakeInclude(a)
  <2>1. a.name = "include"
    BY <1>8 DEF TakeInclude
  <2>2. \/ Refused
        \/ Accepted(a, config') /\ config' = config
    BY <1>8, <1>e, <1>t DEF TakeInclude, Take
  <2>3. SUFFICES ASSUME Accepted(a, config') /\ config' = config
                 PROVE  Effect
    BY <2>2
  <2>4. config' \in Configs
    BY <1>0, <2>3 DEF Configs
  <2>5. Leaves(a, config, config') /\ Says(a, config, config')
    BY <1>0, <2>1, <2>3 DEF Leaves, Says, Configs, OptimisationPresets
  <2> QED BY <2>3, <2>4, <2>5
<1>9. CASE TakeVerbose(a)
  <2>1. a.name = "verbose" /\ a.values # <<>>
    BY <1>9 DEF TakeVerbose
  <2>2. \/ Refused
        \/ /\ Accepted(a, config') /\ config' = ParseVerboseFeatures(config, a.values)
           /\ \/ Elements(a.values) \subseteq VerboseFeatures
              \/ One(a, {"all", "none"})
    BY <1>9, <1>e, <1>t DEF TakeVerbose, Take
  <2>3. SUFFICES ASSUME Accepted(a, config'), config' = ParseVerboseFeatures(config, a.values),
                        Elements(a.values) \subseteq VerboseFeatures \/ One(a, {"all", "none"})
                 PROVE  Effect
    BY <2>2
  <2>4. CASE a.values = <<"all">>
    <3>1. config' = NoteFirstVerboseFeature(EnableVerbose(config, VerboseFeatures), "Preprocessor")
      BY <2>3, <2>4 DEF ParseVerboseFeatures
    <3>2. config' \in Configs /\ Selected(config, config', VerboseFeatures, "Preprocessor") /\ Leaves(a, config, config')
      BY <2>1, <3>1, FeaturesNamed, SelectionEffect
    <3> QED BY <2>1, <2>4, <3>2 DEF Says, OptimisationPresets
  <2>5. CASE a.values = <<"none">>
    <3>1. config' = [config EXCEPT !.verboseFeatures = {}, !.firstVerboseFeature = ""]
      BY <2>3, <2>5 DEF ParseVerboseFeatures
    <3>2. config' \in Configs
      BY <3>1 DEF Configs
    <3>3. Leaves(a, config, config') /\ Says(a, config, config')
      BY <2>1, <2>5, <3>1 DEF Leaves, Says, Configs, OptimisationPresets
    <3> QED BY <3>2, <3>3
  <2>6. CASE a.values \notin {<<"all">>, <<"none">>}
    <3>1. Elements(a.values) \subseteq VerboseFeatures
      BY <1>0, <2>3, <2>6, OneWord DEF One
    <3>2. config' = NoteFirstVerboseFeature(EnableVerbose(config, Elements(a.values)), a.values[1])
      BY <2>3, <2>6 DEF ParseVerboseFeatures
    <3>3. a.values[1] \in VerboseFeatures
      BY <1>0, <2>1, <3>1, FirstWord
    <3>4. /\ config' \in Configs /\ Selected(config, config', Elements(a.values), a.values[1])
          /\ Leaves(a, config, config')
      BY <2>1, <3>1, <3>2, <3>3, SelectionEffect
    <3> QED BY <2>1, <3>1, <3>4 DEF Says, OptimisationPresets
  <2> QED BY <2>4, <2>5, <2>6
<1>10. CASE TakeIsa(a)
  <2>1. a.name = "isa"
    BY <1>10 DEF TakeIsa
  <2>2. \/ Refused
        \/ Accepted(a, config') /\ config' = [config EXCEPT !.target.isa = a.values[1]] /\ a.values[1] \in ISAs /\ a.values = <<a.values[1]>>
    BY <1>0, <1>10, <1>e, <1>t, OneWord DEF TakeIsa, Take, One
  <2>3. SUFFICES ASSUME Accepted(a, config') /\ config' = [config EXCEPT !.target.isa = a.values[1]] /\ a.values[1] \in ISAs /\ a.values = <<a.values[1]>>
                 PROVE  Effect
    BY <2>2
  <2>4. config' \in Configs
    BY <1>0, <2>3 DEF Configs, Targets
  <2>5. Leaves(a, config, config') /\ Says(a, config, config')
    BY <1>0, <2>1, <2>3 DEF Leaves, Says, Configs, OptimisationPresets, Targets
  <2> QED BY <2>3, <2>4, <2>5
<1>11. CASE TakePlatform(a)
  <2>1. a.name = "platform"
    BY <1>11 DEF TakePlatform
  <2>2. \/ Refused
        \/ Accepted(a, config') /\ config' = [config EXCEPT !.target.platform = a.values[1]] /\ a.values[1] \in Platforms /\ a.values = <<a.values[1]>>
    BY <1>0, <1>11, <1>e, <1>t, OneWord DEF TakePlatform, Take, One
  <2>3. SUFFICES ASSUME Accepted(a, config') /\ config' = [config EXCEPT !.target.platform = a.values[1]] /\ a.values[1] \in Platforms /\ a.values = <<a.values[1]>>
                 PROVE  Effect
    BY <2>2
  <2>4. config' \in Configs
    BY <1>0, <2>3 DEF Configs, Targets
  <2>5. Leaves(a, config, config') /\ Says(a, config, config')
    BY <1>0, <2>1, <2>3 DEF Leaves, Says, Configs, OptimisationPresets, Targets
  <2> QED BY <2>3, <2>4, <2>5
<1>12. CASE TakeSdk(a)
  <2>1. a.name = "sdk"
    BY <1>12 DEF TakeSdk
  <2>2. \/ Refused
        \/ Accepted(a, config') /\ config' = [config EXCEPT !.target.sdk = a.values[1]] /\ a.values[1] \in SDKs /\ a.values = <<a.values[1]>>
    BY <1>0, <1>12, <1>e, <1>t, OneWord DEF TakeSdk, Take, One
  <2>3. SUFFICES ASSUME Accepted(a, config') /\ config' = [config EXCEPT !.target.sdk = a.values[1]] /\ a.values[1] \in SDKs /\ a.values = <<a.values[1]>>
                 PROVE  Effect
    BY <2>2
  <2>4. config' \in Configs
    BY <1>0, <2>3 DEF Configs, Targets
  <2>5. Leaves(a, config, config') /\ Says(a, config, config')
    BY <1>0, <2>1, <2>3 DEF Leaves, Says, Configs, OptimisationPresets, Targets
  <2> QED BY <2>3, <2>4, <2>5
<1>13. CASE TakeCpu(a)
  <2>1. a.name = "cpu"
    BY <1>13 DEF TakeCpu
  <2>2. \/ Refused
        \/ Accepted(a, config') /\ config' = [config EXCEPT !.target.cpu = a.values[1]] /\ a.values[1] \in MicroArchs /\ a.values = <<a.values[1]>>
    BY <1>0, <1>13, <1>e, <1>t, OneWord DEF TakeCpu, Take, One
  <2>3. SUFFICES ASSUME Accepted(a, config') /\ config' = [config EXCEPT !.target.cpu = a.values[1]] /\ a.values[1] \in MicroArchs /\ a.values = <<a.values[1]>>
                 PROVE  Effect
    BY <2>2
  <2>4. config' \in Configs
    BY <1>0, <2>3 DEF Configs, Targets
  <2>5. Leaves(a, config, config') /\ Says(a, config, config')
    BY <1>0, <2>1, <2>3 DEF Leaves, Says, Configs, OptimisationPresets, Targets
  <2> QED BY <2>3, <2>4, <2>5
<1>14. CASE TakeImage(a)
  <2>1. a.name = "image"
    BY <1>14 DEF TakeImage
  <2>2. \/ Refused
        \/ /\ Accepted(a, config') /\ config' = ApplyImagePreset(config, a.values[1])
           /\ a.values = <<a.values[1]>> /\ a.values[1] \in ImagePresets
    BY <1>0, <1>14, <1>e, <1>t, OneWord DEF TakeImage, Take, One
  <2>3. SUFFICES ASSUME Accepted(a, config'), config' = ApplyImagePreset(config, a.values[1]),
                        a.values = <<a.values[1]>>, a.values[1] \in ImagePresets
                 PROVE  Effect
    BY <2>2
  <2> DEFINE preset == a.values[1]
             sizes == IF preset = "windows-x86" THEN "Int" ELSE "LongLong"
  <2>4. config.target \in Targets /\ sizes \in Sizes
    BY DEF Configs, Sizes
  <2>5. PresetTarget(preset, config.target) \in Targets /\ PresetLinker(preset) \in Linkers
    BY <2>3, <2>4, ImagePresetTyped
  <2>6. config' = [config EXCEPT !.linker = PresetLinker(preset), !.target = PresetTarget(preset, config.target),
                                 !.sizes = sizes]
    BY <2>3 DEF ApplyImagePreset, Configs
  <2> HIDE DEF preset, sizes
  <2>7. config' \in Configs
    BY <2>4, <2>5, <2>6 DEF Configs
  <2>8. config'.target = PresetTarget(preset, config.target) /\ config'.linker = PresetLinker(preset)
    BY <2>6 DEF Configs
  <2>9. Leaves(a, config, config')
    BY <2>1, <2>6 DEF Leaves, Configs, OptimisationPresets
  <2>10. Says(a, config, config')
    BY <2>1, <2>3, <2>8 DEF Says, OptimisationPresets, preset
  <2> QED BY <2>3, <2>7, <2>9, <2>10
<1>15. CASE TakeDebugger(a)
  <2>1. a.name = "D"
    BY <1>15 DEF TakeDebugger
  <2>3. Accepted(a, config') /\ config' = [config EXCEPT !.useDebugger = TRUE]
    BY <1>15, <1>t DEF TakeDebugger
  <2>4. config' \in Configs
    BY <1>0, <2>3 DEF Configs
  <2>5. Leaves(a, config, config') /\ Says(a, config, config')
    BY <1>0, <2>1, <2>3 DEF Leaves, Says, Configs, OptimisationPresets
  <2> QED BY <2>3, <2>4, <2>5
<1>16. CASE TakeOptimisationPreset(a)
  <2>1. a.name \in OptimisationPresets
    BY <1>16 DEF TakeOptimisationPreset
  <2>3. Accepted(a, config') /\ config' = [config EXCEPT !.optimisations = OptimisationPreset(a.name)] /\ OptimisationPreset(a.name) \subseteq Optimisations
    BY <1>16, <1>t, PresetTyped DEF TakeOptimisationPreset, ApplyOptimisationPreset
  <2>4. config' \in Configs
    BY <1>0, <2>3 DEF Configs
  <2>5. Leaves(a, config, config') /\ Says(a, config, config')
    BY <1>0, <2>1, <2>3 DEF Leaves, Says, Configs, OptimisationPresets
  <2> QED BY <2>3, <2>4, <2>5
<1>17. CASE TakeExtensions(a)
  <2>1. a.name = "extensions"
    BY <1>17 DEF TakeExtensions
  <2>2. Refused \/ (Accepted(a, config') /\ config' = ParseExtensions(config, a.values))
    BY <1>17, <1>e, <1>t DEF TakeExtensions, Take
  <2>3. SUFFICES ASSUME Accepted(a, config'), config' = ParseExtensions(config, a.values)
                 PROVE  Effect
    BY <2>2
  <2> DEFINE extensions == IF a.values = <<"none">> THEN {}
                           ELSE config.target.extensions \cup UNION {ExtensionBits(e) : e \in Elements(a.values)}
  <2>4. extensions \subseteq DOMAIN X86Extensions
    <3>1. \A e : ExtensionBits(e) \subseteq DOMAIN X86Extensions
      BY ExtensionBitsTyped
    <3>2. config.target.extensions \subseteq DOMAIN X86Extensions
      BY DEF Configs, Targets
    <3> QED BY <3>1, <3>2
  <2>5. config' = [config EXCEPT !.target.extensions = extensions]
    BY <2>3 DEF ParseExtensions, Configs, Targets
  <2>e. extensions = IF a.values = <<"none">> THEN {}
                     ELSE config.target.extensions \cup UNION {ExtensionBits(e) : e \in Elements(a.values)}
    OBVIOUS
  <2> HIDE DEF extensions
  <2>6. config' \in Configs /\ config'.target.extensions = extensions
    BY <2>4, <2>5 DEF Configs, Targets
  <2>7. Leaves(a, config, config')
    BY <2>1, <2>5 DEF Leaves, Configs, Targets, OptimisationPresets
  <2>8. Says(a, config, config')
    BY <2>1, <2>e, <2>6 DEF Says, OptimisationPresets
  <2> QED BY <2>3, <2>6, <2>7, <2>8
<1>18. CASE TakeConstDepth(a)
  <2>1. a.name = "Oconst-depth"
    BY <1>18 DEF TakeConstDepth
  <2>2. \/ Refused
        \/ Accepted(a, config') /\ config' = [config EXCEPT !.depth = a.values[1]] /\ a.values[1] \in Words
    BY <1>0, <1>18, <1>e, <1>t, FirstWord DEF TakeConstDepth, Take, Needs
  <2>3. SUFFICES ASSUME Accepted(a, config') /\ config' = [config EXCEPT !.depth = a.values[1]] /\ a.values[1] \in Words
                 PROVE  Effect
    BY <2>2
  <2>4. config' \in Configs
    BY <1>0, <2>3 DEF Configs
  <2>5. Leaves(a, config, config') /\ Says(a, config, config')
    BY <1>0, <2>1, <2>3 DEF Leaves, Says, Configs, OptimisationPresets
  <2> QED BY <2>3, <2>4, <2>5
<1>19. CASE TakeOptimisation(a)
  <2>1. a.name = "O"
    BY <1>19 DEF TakeOptimisation
  <2>2. \/ Refused
        \/ \E o \in Optimisations :
             /\ Accepted(a, config')
             /\ \/ a.values = <<o>> /\ config' = [config EXCEPT !.optimisations = @ \cup {o}]
                \/ a.values = <<"no-", o>> /\ config' = [config EXCEPT !.optimisations = @ \ {o}]
    <3>1. CASE One(a, Optimisations)
      <4>1. a.values = <<a.values[1]>> /\ Len(a.values) = 1 /\ a.values[1] \in Optimisations
        BY <1>0, <3>1, OneWord DEF One
      <4>2. Refused \/ (Accepted(a, config') /\ config' = [config EXCEPT !.optimisations = @ \cup {a.values[1]}])
        BY <1>19, <1>e, <1>t, <3>1, <4>1 DEF TakeOptimisation, Take
      <4> QED BY <4>1, <4>2
    <3>2. CASE Len(a.values) = 2 /\ a.values[1] = "no-" /\ a.values[2] \in Optimisations
      <4>1. a.values = <<"no-", a.values[2]>>
        BY <1>0, <3>2
      <4>2. Refused \/ (Accepted(a, config') /\ config' = [config EXCEPT !.optimisations = @ \ {a.values[2]}])
        BY <1>19, <1>e, <1>t, <3>2 DEF TakeOptimisation, Take
      <4> QED BY <3>2, <4>1, <4>2
    <3> QED BY <1>19, <1>e, <3>1, <3>2 DEF TakeOptimisation, Take
  <2>3. SUFFICES ASSUME NEW o \in Optimisations, Accepted(a, config'),
                        \/ a.values = <<o>> /\ config' = [config EXCEPT !.optimisations = @ \cup {o}]
                        \/ a.values = <<"no-", o>> /\ config' = [config EXCEPT !.optimisations = @ \ {o}]
                 PROVE  Effect
    BY <2>2
  <2>4. config' \in Configs
    <3>1. config.optimisations \cup {o} \subseteq Optimisations /\ config.optimisations \ {o} \subseteq Optimisations
      BY DEF Configs
    <3>2. PICK set \in SUBSET Optimisations : config' = [config EXCEPT !.optimisations = set]
      BY <2>3, <3>1
    <3> QED BY <3>2 DEF Configs
  <2>5. Leaves(a, config, config')
    BY <2>1, <2>3 DEF Leaves, Configs, OptimisationPresets
  <2>6. \/ a.values = <<o>> /\ config'.optimisations = config.optimisations \cup {o}
        \/ a.values = <<"no-", o>> /\ config'.optimisations = config.optimisations \ {o}
    BY <2>3 DEF Configs
  <2>7. Says(a, config, config')
    BY <2>1, <2>6 DEF Says, OptimisationPresets
  <2> QED BY <2>3, <2>4, <2>5, <2>7
<1> QED
  BY <1>1, <1>2, <1>3, <1>4, <1>5, <1>6, <1>7, <1>8, <1>9, <1>10, <1>11, <1>12, <1>13, <1>14, <1>15, <1>16,
     <1>17, <1>18, <1>19 DEF Taken

\* The end of the command line settles the dump and the defaults and leaves
\* the rest of the configuration alone.
LEMMA EndEffect ==
  ASSUME config \in Configs, ~(config.dumpToFile /\ ~DumpModeValid(config)),
         NEW d, d = ConfigureOutputDefaults(ResolveDumpMode(config))
  PROVE  /\ d \in Configs
         /\ d.sourceFiles = config.sourceFiles /\ d.warningsAreErrors = config.warningsAreErrors
         /\ d.optimisations = config.optimisations /\ d.target = config.target /\ d.linker = config.linker
         /\ d.firstVerboseFeature = config.firstVerboseFeature /\ d.dumpToFile = config.dumpToFile
         /\ d.dumpToFile => /\ Len(d.sourceFiles) <= 1
                            /\ d.dumpFeature = d.firstVerboseFeature
                            /\ d.verboseFeatures = {d.firstVerboseFeature}
<1> DEFINE r == ResolveDumpMode(config)
<1>1. /\ r \in Configs
      /\ r.sourceFiles = config.sourceFiles /\ r.warningsAreErrors = config.warningsAreErrors
      /\ r.optimisations = config.optimisations /\ r.target = config.target /\ r.linker = config.linker
      /\ r.firstVerboseFeature = config.firstVerboseFeature /\ r.dumpToFile = config.dumpToFile
      /\ r.dumpToFile => /\ r.dumpFeature = r.firstVerboseFeature
                         /\ r.verboseFeatures = {r.firstVerboseFeature}
  <2>1. CASE ~config.dumpToFile
    BY <2>1 DEF ResolveDumpMode
  <2>2. CASE config.dumpToFile
    <3>1. config.firstVerboseFeature \in StageNames /\ config.firstVerboseFeature \in VerboseFeatures
      BY <2>2, FeaturesNamed DEF DumpModeValid, Configs
    <3>2. r = [config EXCEPT !.verboseFeatures = {config.firstVerboseFeature},
                             !.dumpFeature = config.firstVerboseFeature]
      BY <2>2 DEF ResolveDumpMode
    <3> HIDE DEF r
    <3> QED BY <2>2, <3>1, <3>2 DEF Configs
  <2>3. config.dumpToFile \in BOOLEAN
    BY DEF Configs
  <2> QED BY <2>1, <2>2, <2>3
<1>2. config.dumpToFile => Len(config.sourceFiles) <= 1
  BY DEF DumpModeValid
<1> HIDE DEF r
<1> DEFINE output == IF r.outputImage = "" THEN DefaultOutput(r) ELSE r.outputImage
           libraries == r.importedLibraries \o DefaultLibraries(r)
<1>3. output \in Words
  BY <1>1, DefaultWords DEF DefaultOutput, Configs
<1>4. libraries \in Seq(Words)
  <2>1. r.importedLibraries \in Seq(Words)
    BY <1>1 DEF Configs
  <2>2. DefaultLibraries(r) \in Seq(Words)
    BY DefaultWords DEF DefaultLibraries
  <2> QED BY <2>1, <2>2, Concatenated
<1>5. d = [r EXCEPT !.outputImage = output, !.importedLibraries = libraries]
  <2>1. d = [r EXCEPT !.outputImage = IF @ = "" THEN DefaultOutput(r) ELSE @,
                      !.importedLibraries = @ \o DefaultLibraries(r)]
    BY DEF ConfigureOutputDefaults, r
  <2> QED BY <1>1, <2>1 DEF Configs
<1> HIDE DEF output, libraries
<1>6. d \in Configs
  BY <1>1, <1>3, <1>4, <1>5 DEF Configs
<1>7. /\ d.sourceFiles = r.sourceFiles /\ d.warningsAreErrors = r.warningsAreErrors
      /\ d.optimisations = r.optimisations /\ d.target = r.target /\ d.linker = r.linker
      /\ d.firstVerboseFeature = r.firstVerboseFeature /\ d.dumpToFile = r.dumpToFile
      /\ d.dumpFeature = r.dumpFeature /\ d.verboseFeatures = r.verboseFeatures
  BY <1>1, <1>5 DEF Configs
<1> QED BY <1>1, <1>2, <1>6, <1>7

-----------------------------------------------------------------------------
(* The outcome. *)

LEMMA StagesLength == Len(Stages) = 8 /\ DOMAIN Stages = 1 .. 8 /\ \A k \in 1 .. 8 : Stages[k] \in StageNames
<1>1. DOMAIN Stages = 1 .. 8 /\ Len(Stages) = 8
  BY DEF Stages
<1> QED BY <1>1 DEF StageNames

LEMMA FirstOf == 1 \in 1 .. 8 /\ \A n \in Nat : 1 \in 1 .. n + 1
  OBVIOUS

LEMMA NoneYet == ASSUME NEW S PROVE <<>> \in Seq(S) /\ Len(<<>>) = 0
  OBVIOUS

LEMMA InitialInvariant == Init => IInv
<1> SUFFICES ASSUME Init PROVE IInv
  OBVIOUS
<1>1. config \in Configs /\ config.sourceFiles = <<>>
  BY HostDefaultsTyped DEF Init, HostDefaults
<1>2. Files = 0 /\ \A u \in 1 .. Files : FALSE
  <2>1. Files = 0
    BY <1>1 DEF Files
  <2> QED BY <2>1
<1>3. TypeOK
  <2>1. arguments \in Seq(Arguments) /\ Len(arguments) = 0 /\ dump \in Seq(StageNames)
    <3>1. arguments = <<>> /\ dump = <<>>
      BY DEF Init
    <3> QED BY <3>1, NoneYet
  <2>2. diagnostics \in [1 .. MaxArguments -> SUBSET Levels]
    BY DEF Init
  <2>3. unit \in 1 .. Files + 1 /\ stage \in 1 .. Len(Stages)
    <3>1. unit = 1 /\ stage = 1
      BY DEF Init
    <3>2. Len(Stages) = 8 /\ Files \in Nat
      BY <1>2, StagesLength
    <3> QED BY <3>1, <3>2, FirstOf, Zenon
  <2>4. phase = "Parsing" /\ outcome = "" /\ outcome \notin Outcomes
    BY DEF Init, Outcomes
  <2>5. printed = {} /\ hadErrors = FALSE /\ image = "Untouched"
    BY DEF Init
  <2>6. Files <= Len(arguments) /\ Len(arguments) <= MaxArguments
    BY <1>2, <2>1, MaxArgumentsAssumption
  <2> QED BY <1>1, <2>1, <2>2, <2>3, <2>4, <2>5, <2>6 DEF TypeOK
<1>4. OutcomeTells
  BY DEF Init, OutcomeTells
<1>5. FilesAccounted
  BY <1>2 DEF Init, FilesAccounted
<1>6. NotBegun /\ DumpResolved /\ DumpedOnce /\ LinkingIsClean /\ WritesAtTheEnd
  BY <1>2 DEF Init, NotBegun, DumpResolved, DumpedOnce, LinkingIsClean, WritesAtTheEnd
<1> QED BY <1>3, <1>4, <1>5, <1>6 DEF IInv

\* A run that gives up says nothing of the program.
LEMMA GivesUp ==
  ASSUME IInv, phase # "Over",
         phase' = "Over", outcome' \in Outcomes \ {"Dumped", "Built", "Debugged", "CompilationFailed"},
         phase = "Report" => outcome' = "ICE",
         UNCHANGED <<arguments, config, fileVars>>
  PROVE  IInv'
<1>1. TypeOK'
  BY DEF IInv, TypeOK, fileVars, Files, Outcomes
<1>2. OutcomeTells'
  BY DEF IInv, WritesAtTheEnd, OutcomeTells, fileVars, Files, Erroneous
<1>3. FilesAccounted'
  BY DEF IInv, FilesAccounted, Files, fileVars, Erroneous
<1>4. NotBegun' /\ DumpResolved' /\ DumpedOnce' /\ LinkingIsClean' /\ WritesAtTheEnd'
  BY DEF NotBegun, DumpResolved, DumpedOnce, LinkingIsClean, WritesAtTheEnd
<1> QED BY <1>1, <1>2, <1>3, <1>4 DEF IInv

LEMMA CommandLineKeeps == IInv /\ (TakeArgument \/ EndOfCommandLine) => IInv'
<1> SUFFICES ASSUME IInv, TakeArgument \/ EndOfCommandLine PROVE IInv'
  OBVIOUS
<1>0. /\ phase = "Parsing" /\ outcome = "" /\ config \in Configs
      /\ unit = 1 /\ stage = 1 /\ printed = {} /\ ~hadErrors /\ dump = <<>> /\ image = "Untouched"
      /\ diagnostics \in [1 .. MaxArguments -> SUBSET Levels]
  <2>1. phase = "Parsing"
    BY DEF TakeArgument, EndOfCommandLine
  <2>2. TypeOK /\ NotBegun /\ DumpedOnce /\ WritesAtTheEnd
    BY DEF IInv
  <2>3. outcome = "" /\ config \in Configs /\ diagnostics \in [1 .. MaxArguments -> SUBSET Levels]
    BY <2>1, <2>2 DEF TypeOK
  <2>4. unit = 1 /\ stage = 1 /\ printed = {} /\ ~hadErrors
    BY <2>1, <2>2 DEF NotBegun
  <2>5. dump = <<>> /\ image = "Untouched"
    BY <2>1, <2>2, <2>4 DEF DumpedOnce, WritesAtTheEnd
  <2> QED BY <2>1, <2>3, <2>4, <2>5
\* From here on a configuration and where the command line is are all that differs.
<1>c. ASSUME config' \in Configs, arguments' \in Seq(Arguments), Len(arguments') <= MaxArguments,
             Files' <= Len(arguments'), phase' \in {"Parsing", "Sources"}, outcome' = outcome, DumpResolved',
             UNCHANGED fileVars
      PROVE  IInv'
  <2>1. Files' \in Nat
    <3>1. config'.sourceFiles \in Seq(Words)
      BY <1>c DEF Configs
    <3> QED BY <3>1 DEF Files
  <2>2. TypeOK'
    <3>1. /\ unit' = 1 /\ stage' = 1 /\ printed' = {} /\ hadErrors' \in BOOLEAN /\ dump' = <<>> /\ image' = "Untouched"
          /\ diagnostics' \in [1 .. MaxArguments -> SUBSET Levels]
      BY <1>0, <1>c DEF fileVars, IInv, TypeOK
    <3>2. dump' \in Seq(StageNames)
      BY <3>1
    <3>3. unit' \in 1 .. Files' + 1 /\ stage' \in 1 .. Len(Stages)
      <4>1. unit' = 1 /\ stage' = 1 /\ Len(Stages) = 8
        BY <3>1, StagesLength
      <4> QED BY <2>1, <4>1, FirstOf, Zenon
    <3>4. (phase' = "Over") = (outcome' # "") /\ outcome' \in Outcomes \cup {""}
      BY <1>0, <1>c
    <3> QED BY <1>c, <3>1, <3>2, <3>3, <3>4 DEF TypeOK
  <2>3. OutcomeTells'
    <3>1. outcome' = "" /\ image' = "Untouched" /\ dump' = <<>>
      BY <1>0, <1>c DEF fileVars
    <3> QED BY <3>1, Zenon DEF OutcomeTells
  <2>4. FilesAccounted'
    <3>1. unit' = 1 /\ ~hadErrors'
      BY <1>0, <1>c DEF fileVars
    <3>2. \A u \in 1 .. Files' : ~(u < unit')
      BY <2>1, <3>1
    <3> QED BY <3>1, <3>2, Zenon DEF FilesAccounted
  <2>5. NotBegun' /\ DumpedOnce' /\ LinkingIsClean' /\ WritesAtTheEnd'
    BY <1>0, <1>c DEF IInv, NotBegun, DumpedOnce, LinkingIsClean, WritesAtTheEnd, fileVars
  <2> QED BY <1>c, <2>2, <2>3, <2>4, <2>5 DEF IInv
<1>1. ASSUME NEW a \in Arguments, Taken(a), Len(arguments) < MaxArguments PROVE IInv'
  <2>1. CASE Refused
    <3>1. /\ UNCHANGED <<arguments, config, fileVars>> /\ phase' = "Over"
          /\ outcome' \in Outcomes \ {"Dumped", "Built", "Debugged", "CompilationFailed"}
      BY <2>1 DEF Refused, Outcomes
    <3> QED BY <1>0, <3>1, GivesUp
  <2>2. CASE Accepted(a, config') /\ config' \in Configs /\ Leaves(a, config, config') /\ Says(a, config, config')
    <3>1. /\ arguments' = Append(arguments, a) /\ arguments \in Seq(Arguments)
          /\ Files \in Nat /\ Files <= Len(arguments) /\ Files' \in {Files, Files + 1}
      <4>1. arguments' = Append(arguments, a) /\ arguments \in Seq(Arguments) /\ Files <= Len(arguments)
        BY <2>2 DEF IInv, TypeOK, Accepted
      <4>2. config.sourceFiles \in Seq(Words)
        BY <1>0 DEF Configs
      <4>3. CASE a.name = "source"
        BY <2>2, <4>1, <4>2, <4>3 DEF Files, Says
      <4>4. CASE a.name # "source"
        BY <2>2, <4>1, <4>2, <4>4 DEF Files, Leaves
      <4> QED BY <4>3, <4>4
    <3>2. arguments' \in Seq(Arguments) /\ Len(arguments') = Len(arguments) + 1 /\ Len(arguments) \in Nat
      BY <3>1
    <3>3. DumpResolved'
      BY <1>0, <2>2 DEF Accepted, DumpResolved
    <3>4. Len(arguments') <= MaxArguments /\ Files' <= Len(arguments')
      BY <1>1, <3>1, <3>2, MaxArgumentsAssumption
    <3>5. phase' \in {"Parsing", "Sources"} /\ outcome' = outcome /\ UNCHANGED fileVars
      BY <1>0, <2>2 DEF Accepted
    <3> QED BY <1>c, <2>2, <3>2, <3>3, <3>4, <3>5
  <2> QED BY <1>0, <1>1, <2>1, <2>2, TakenEffect
<1>2. CASE EndOfCommandLine
  <2>1. CASE phase' = "Over"
    <3>1. outcome' \in {"Shown", "CommandLineError"} /\ UNCHANGED <<arguments, config, fileVars>>
      BY <1>0, <1>2, <2>1 DEF EndOfCommandLine, Over
    <3> QED BY <1>0, <2>1, <3>1, GivesUp DEF Outcomes
  <2>2. CASE phase' # "Over"
    <3>1. /\ phase' = "Sources" /\ outcome' = outcome /\ UNCHANGED <<arguments, fileVars>>
          /\ config' = ConfigureOutputDefaults(ResolveDumpMode(config))
          /\ ~(config.dumpToFile /\ ~DumpModeValid(config))
      BY <1>2, <2>2 DEF EndOfCommandLine, Over
    <3>2. /\ config' \in Configs /\ config'.sourceFiles = config.sourceFiles
          /\ config'.dumpToFile => /\ Len(config'.sourceFiles) <= 1
                                   /\ config'.dumpFeature = config'.firstVerboseFeature
                                   /\ config'.verboseFeatures = {config'.firstVerboseFeature}
      BY <1>0, <3>1, EndEffect
    <3>3. DumpResolved'
      BY <3>2 DEF DumpResolved, Files
    <3>4. Files' = Files
      BY <3>2 DEF Files
    <3> QED BY <1>c, <3>1, <3>2, <3>3, <3>4 DEF IInv, TypeOK
  <2> QED BY <2>1, <2>2
<1> QED BY <1>1, <1>2 DEF TakeArgument

\* Nor does one that goes on to what comes next.
LEMMA GoesOn ==
  ASSUME IInv, phase \in {"Sources", "Target", "Open", "Files", "Link"}, outcome' = outcome,
         UNCHANGED <<arguments, config, fileVars>>,
         \/ phase' \in {"Target", "Open"} /\ phase \in {"Sources", "Target"}
         \/ phase' = "Files"
         \/ phase' \in {"Link", "Write"} /\ unit > Files /\ ~hadErrors /\ ~config.dumpToFile
  PROVE  IInv'
<1>1. TypeOK'
  BY DEF IInv, TypeOK, fileVars, Files
<1>2. OutcomeTells'
  BY DEF IInv, OutcomeTells, fileVars, Files, Erroneous
<1>3. FilesAccounted'
  BY DEF IInv, FilesAccounted, Files, fileVars, Erroneous
<1>4. NotBegun'
  BY DEF IInv, NotBegun, fileVars
<1>5. DumpResolved'
  BY DEF IInv, DumpResolved, Files
<1>6. DumpedOnce' /\ WritesAtTheEnd'
  BY DEF IInv, DumpedOnce, WritesAtTheEnd, fileVars
<1>7. LinkingIsClean'
  BY DEF LinkingIsClean, Files, fileVars
<1> QED BY <1>1, <1>2, <1>3, <1>4, <1>5, <1>6, <1>7 DEF IInv

LEMMA PreparationKeeps == IInv /\ (ReadSources \/ SelectTarget \/ OpenDumpFile) => IInv'
<1> SUFFICES ASSUME IInv, ReadSources \/ SelectTarget \/ OpenDumpFile PROVE IInv'
  OBVIOUS
<1>1. CASE ReadSources
  <2>1. /\ phase = "Sources" /\ UNCHANGED <<arguments, config, fileVars>>
        /\ \/ phase' = "Over" /\ outcome' = "NoInput"
           \/ phase' = "Target" /\ outcome' = outcome
    BY <1>1 DEF ReadSources, Over
  <2> QED BY <2>1, GivesUp, GoesOn DEF Outcomes
<1>2. CASE SelectTarget
  <2>1. /\ phase = "Target" /\ UNCHANGED <<arguments, config, fileVars>>
        /\ \/ phase' = "Over" /\ outcome' \in {"ICE", "NoSDK"}
           \/ phase' = "Open" /\ outcome' = outcome
    BY <1>2 DEF SelectTarget, Over
  <2> QED BY <2>1, GivesUp, GoesOn DEF Outcomes
<1>3. CASE OpenDumpFile
  <2>1. /\ phase = "Open" /\ UNCHANGED <<arguments, config, fileVars>>
        /\ \/ phase' = "Over" /\ outcome' = "NoDumpFile"
           \/ phase' = "Files" /\ outcome' = outcome
    BY <1>3 DEF OpenDumpFile, Over
  <2> QED BY <2>1, GivesUp, GoesOn DEF Outcomes
<1> QED BY <1>1, <1>2, <1>3

-----------------------------------------------------------------------------
(* The files. *)

\* A stage is at a file there is.
LEMMA AtAFile ==
  ASSUME TypeOK, unit <= Files
  PROVE  /\ Files \in Nat /\ unit \in 1 .. Files /\ 1 .. Files \subseteq 1 .. MaxArguments
         /\ stage \in 1 .. 8 /\ Stages[stage] \in StageNames
<1>1. config.sourceFiles \in Seq(Words) /\ arguments \in Seq(Arguments)
  BY DEF TypeOK, Configs
<1>2. Files \in Nat /\ Len(arguments) \in Nat
  BY <1>1 DEF Files
<1>3. Files <= Len(arguments) /\ Len(arguments) <= MaxArguments /\ unit \in 1 .. Files + 1 /\ stage \in 1 .. Len(Stages)
  BY DEF TypeOK
<1>4. stage \in 1 .. 8 /\ Stages[stage] \in StageNames
  BY <1>3, StagesLength
<1> QED BY <1>2, <1>3, <1>4, MaxArgumentsAssumption

\* What a stage reports makes its file erroneous, or not, and no other.
LEMMA ReportsOnTheFile ==
  ASSUME TypeOK, unit <= Files, config' = config, NEW found \in Reports(Stages[stage]),
         diagnostics' = [diagnostics EXCEPT ![unit] = @ \cup found]
  PROVE  /\ diagnostics' \in [1 .. MaxArguments -> SUBSET Levels]
         /\ \A u \in 1 .. Files : u # unit => (Erroneous(u)' <=> Erroneous(u))
         /\ \A u \in 1 .. Files : Erroneous(u) => Erroneous(u)'
         /\ \A u : u = unit => (Erroneous(u)' <=> HasFatalDiagnostics(diagnostics[unit] \cup found))
<1>1. found \subseteq Levels
  BY DEF Reports, Levels
<1>2. diagnostics \in [1 .. MaxArguments -> SUBSET Levels] /\ unit \in 1 .. MaxArguments /\ unit \in 1 .. Files
      /\ 1 .. Files \subseteq 1 .. MaxArguments
  BY AtAFile DEF TypeOK
<1>3. /\ diagnostics' \in [1 .. MaxArguments -> SUBSET Levels]
      /\ diagnostics'[unit] = diagnostics[unit] \cup found
      /\ \A u \in 1 .. Files : u # unit => diagnostics'[u] = diagnostics[u]
  BY <1>1, <1>2
<1>4. \A u \in 1 .. Files : u # unit => (Erroneous(u)' <=> Erroneous(u))
  BY <1>3 DEF Erroneous
<1>5. \A u \in 1 .. Files : Erroneous(u) => Erroneous(u)'
  <2> SUFFICES ASSUME NEW u \in 1 .. Files, Erroneous(u) PROVE Erroneous(u)'
    OBVIOUS
  <2>1. diagnostics[u] \subseteq diagnostics'[u]
    BY <1>3
  <2> QED BY <2>1 DEF Erroneous
<1>6. \A u : u = unit => (Erroneous(u)' <=> HasFatalDiagnostics(diagnostics[unit] \cup found))
  BY <1>3 DEF Erroneous, HasFatalDiagnostics, IsDiagnosticsCritical
<1> QED BY <1>3, <1>4, <1>5, <1>6

\* The dump file gets the output of the one stage it is for, with which its
\* file is done.
LEMMA DumpsOnce ==
  ASSUME IInv, phase = "Files", unit <= Files, StageOutput(Stages[stage])
  PROVE  /\ dump' \in Seq(StageNames)
         /\ dump' = dump \/ (dump' = <<config.firstVerboseFeature>> /\ config.dumpToFile /\ StopsAfter(Stages[stage]))
<1>1. Files \in Nat /\ unit \in 1 .. Files /\ Stages[stage] \in StageNames /\ dump \in Seq(StageNames)
  BY AtAFile DEF IInv, TypeOK
<1>2. CASE dump' = dump
  BY <1>1, <1>2
<1>3. CASE IsVerbose(Stages[stage]) /\ config.dumpToFile /\ dump' = Append(dump, Stages[stage])
  <2>1. /\ Files <= 1 /\ config.dumpFeature = config.firstVerboseFeature
        /\ config.verboseFeatures = {config.firstVerboseFeature}
    BY <1>3 DEF IInv, DumpResolved
  <2>2. Stages[stage] = config.firstVerboseFeature /\ StopsAfter(Stages[stage])
    BY <1>3, <2>1 DEF IsVerbose, StopsAfter
  <2>3. ~(unit > 1)
    BY <1>1, <2>1
  <2>4. dump = <<>>
    BY <2>3 DEF IInv, DumpedOnce
  <2>5. dump' = <<Stages[stage]>> /\ dump' \in Seq(StageNames)
    BY <1>1, <1>3, <2>4
  <2> QED BY <1>3, <2>2, <2>5
<1> QED BY <1>2, <1>3 DEF StageOutput

LEMMA StagesKeep == IInv /\ (CompleteStage \/ StageThrows) => IInv'
<1> SUFFICES ASSUME IInv, CompleteStage \/ StageThrows PROVE IInv'
  OBVIOUS
<1>0. /\ TypeOK /\ phase = "Files" /\ unit <= Files /\ outcome = "" /\ image = "Untouched" /\ image' = image
      /\ UNCHANGED <<arguments, config>> /\ StageOutput(Stages[stage])
  <2>1. /\ phase = "Files" /\ unit <= Files /\ image' = image /\ UNCHANGED <<arguments, config>>
        /\ StageOutput(Stages[stage])
    BY DEF CompleteStage, StageThrows
  <2> QED BY <2>1 DEF IInv, TypeOK, WritesAtTheEnd
<1>1. /\ Files \in Nat /\ unit \in 1 .. Files /\ 1 .. Files \subseteq 1 .. MaxArguments
      /\ stage \in 1 .. 8 /\ Stages[stage] \in StageNames
  BY <1>0, AtAFile
<1>2. PICK found \in Reports(Stages[stage]) :
        /\ diagnostics' = [diagnostics EXCEPT ![unit] = @ \cup found]
        /\ \/ /\ CompleteStage /\ phase' = phase /\ outcome' = outcome
              /\ IF StopsAfter(Stages[stage]) \/ stage = Len(Stages)
                 THEN FinishFile(diagnostics[unit] \cup found) ELSE NextStage
           \/ /\ StageThrows /\ phase' = "Over" /\ outcome' = "ICE" /\ UNCHANGED <<unit, stage, hadErrors>>
              /\ printed' \in {printed, printed \cup {unit}}
  BY DEF CompleteStage, StageThrows, Over
<1>3. /\ diagnostics' \in [1 .. MaxArguments -> SUBSET Levels]
      /\ \A u \in 1 .. Files : u # unit => (Erroneous(u)' <=> Erroneous(u))
      /\ \A u \in 1 .. Files : Erroneous(u) => Erroneous(u)'
      /\ \A u : u = unit => (Erroneous(u)' <=> HasFatalDiagnostics(diagnostics[unit] \cup found))
  BY <1>0, <1>2, ReportsOnTheFile
<1>4. /\ dump' \in Seq(StageNames)
      /\ dump' = dump \/ (dump' = <<config.firstVerboseFeature>> /\ config.dumpToFile /\ StopsAfter(Stages[stage]))
  BY <1>0, DumpsOnce
<1>5. Files' = Files /\ printed \subseteq 1 .. Files /\ hadErrors \in BOOLEAN
  BY <1>0 DEF Files, TypeOK
<1>6. /\ unit' \in {unit, unit + 1} /\ stage' \in 1 .. 8 /\ hadErrors' \in BOOLEAN
      /\ printed \subseteq printed' /\ printed' \subseteq 1 .. Files
  <2>1. CASE StageThrows
    BY <1>1, <1>5, <2>1 DEF StageThrows
  <2>2. CASE FinishFile(diagnostics[unit] \cup found)
    BY <1>1, <1>5, <2>2 DEF FinishFile
  <2>3. CASE NextStage /\ stage # Len(Stages)
    BY <1>1, <1>5, <2>3, StagesLength DEF NextStage
  <2> QED BY <1>2, <2>1, <2>2, <2>3
<1>7. TypeOK'
  <2>1. unit' \in 1 .. Files' + 1 /\ stage' \in 1 .. Len(Stages)
    BY <1>1, <1>5, <1>6, StagesLength
  <2>2. (phase' = "Over") = (outcome' # "") /\ outcome' \in Outcomes \cup {""}
    BY <1>0, <1>2 DEF Outcomes
  <2>3. phase' \in {"Files", "Over"}
    BY <1>0, <1>2
  <2> QED BY <1>0, <1>3, <1>4, <1>5, <1>6, <2>1, <2>2, <2>3 DEF TypeOK
<1>8. OutcomeTells'
  <2>1. outcome' \in {"", "ICE"} /\ image' = "Untouched"
    BY <1>0, <1>2
  <2>2. dump' \in {<<>>, <<config.firstVerboseFeature>>} /\ (dump' # <<>> => config.dumpToFile)
    BY <1>4 DEF IInv, OutcomeTells
  <2> QED BY <1>0, <2>1, <2>2 DEF OutcomeTells
<1>9. FilesAccounted'
  <2>1. /\ \A u \in 1 .. Files : u < unit => u \in printed /\ (Erroneous(u) => hadErrors)
        /\ hadErrors => \E u \in printed : Erroneous(u)
    BY DEF IInv, FilesAccounted
  <2>2. CASE UNCHANGED <<unit, hadErrors>>
    <3>1. \A u \in 1 .. Files : u < unit' => u \in printed' /\ (Erroneous(u)' => hadErrors')
      BY <1>1, <1>3, <1>6, <2>1, <2>2
    <3>2. hadErrors' => \E u \in printed' : Erroneous(u)'
      BY <1>3, <1>5, <1>6, <2>1, <2>2
    <3> QED BY <1>5, <3>1, <3>2 DEF FilesAccounted
  <2>3. CASE FinishFile(diagnostics[unit] \cup found)
    <3>1. /\ unit' = unit + 1 /\ printed' = printed \cup {unit}
          /\ hadErrors' <=> (hadErrors \/ HasFatalDiagnostics(diagnostics[unit] \cup found))
      BY <2>3 DEF FinishFile
    <3>2. ASSUME NEW u \in 1 .. Files, u < unit' PROVE u \in printed' /\ (Erroneous(u)' => hadErrors')
      <4>1. CASE u = unit
        BY <1>3, <3>1, <4>1
      <4>2. CASE u # unit
        <5>1. u < unit
          BY <1>1, <3>1, <3>2, <4>2
        <5> QED BY <1>3, <2>1, <3>1, <4>2, <5>1
      <4> QED BY <4>1, <4>2
    <3>3. ASSUME hadErrors' PROVE \E u \in printed' : Erroneous(u)'
      <4>1. CASE hadErrors
        BY <1>3, <1>5, <1>6, <2>1, <4>1
      <4>2. CASE HasFatalDiagnostics(diagnostics[unit] \cup found)
        BY <1>3, <3>1, <4>2
      <4> QED BY <3>1, <3>3, <4>1, <4>2
    <3> QED BY <1>5, <3>2, <3>3 DEF FilesAccounted
  <2> QED BY <1>2, <2>2, <2>3 DEF NextStage
<1>10. DumpResolved'
  BY <1>0, <1>2, <1>5 DEF IInv, DumpResolved
<1>11. DumpedOnce'
  <2>1. CASE phase' = "Over"
    BY <2>1 DEF DumpedOnce
  <2>2. CASE phase' # "Over" /\ dump' = dump
    <3>1. dump # <<>> => unit > 1
      BY <1>0 DEF IInv, DumpedOnce
    <3>2. unit > 1 => unit' > 1
      BY <1>1, <1>6
    <3> QED BY <2>2, <3>1, <3>2 DEF DumpedOnce
  <2>3. CASE phase' # "Over" /\ StopsAfter(Stages[stage])
    <3>1. unit' = unit + 1
      BY <1>2, <2>3 DEF FinishFile
    <3> QED BY <1>1, <3>1 DEF DumpedOnce
  <2> QED BY <1>4, <2>1, <2>2, <2>3
<1>12. NotBegun' /\ LinkingIsClean' /\ WritesAtTheEnd'
  BY <1>0, <1>2 DEF NotBegun, LinkingIsClean, WritesAtTheEnd
<1> QED BY <1>7, <1>8, <1>9, <1>10, <1>11, <1>12 DEF IInv

\* At the end of the files, of the linking and of the writing.
LEMMA EndingKeeps == IInv /\ (FilesDone \/ SelectAndLink \/ WriteOutput \/ ReportAndDebug) => IInv'
<1> SUFFICES ASSUME IInv, FilesDone \/ SelectAndLink \/ WriteOutput \/ ReportAndDebug PROVE IInv'
  OBVIOUS
\* The files that are done, when all of them are.
<1>1. ASSUME unit > Files PROVE \A u \in 1 .. Files : u \in printed /\ (Erroneous(u) => hadErrors)
  <2>1. config.sourceFiles \in Seq(Words) /\ unit \in 1 .. Files + 1
    BY DEF IInv, TypeOK, Configs
  <2>2. Files \in Nat
    BY <2>1 DEF Files
  <2>3. \A u \in 1 .. Files : u < unit
    BY <1>1, <2>1, <2>2
  <2> QED BY <2>3 DEF IInv, FilesAccounted
<1>2. CASE FilesDone
  <2>1. /\ phase = "Files" /\ unit > Files /\ UNCHANGED <<arguments, config, fileVars>>
        /\ \/ hadErrors /\ phase' = "Over" /\ outcome' = "CompilationFailed"
           \/ ~hadErrors /\ config.dumpToFile /\ phase' = "Over" /\ outcome' = "Dumped"
           \/ ~hadErrors /\ ~config.dumpToFile /\ phase' = "Link" /\ outcome' = outcome
    BY <1>2 DEF FilesDone, Over
  <2>2. CASE phase' = "Link" /\ ~hadErrors /\ ~config.dumpToFile /\ outcome' = outcome
    BY <2>1, <2>2, GoesOn
  <2>3. CASE phase' = "Over"
    <3>1. TypeOK'
      BY <2>1, <2>3 DEF IInv, TypeOK, fileVars, Files, Outcomes
    <3>2. FilesAccounted'
      BY <2>1 DEF IInv, FilesAccounted, Files, fileVars, Erroneous
    <3>3. NotBegun' /\ DumpResolved' /\ DumpedOnce' /\ LinkingIsClean' /\ WritesAtTheEnd'
      BY <2>3 DEF NotBegun, DumpResolved, DumpedOnce, LinkingIsClean, WritesAtTheEnd
    <3>4. OutcomeTells'
      <4>1. image = "Untouched" /\ UNCHANGED <<arguments, config, fileVars>>
        BY <2>1 DEF IInv, WritesAtTheEnd
      <4>2. dump \in {<<>>, <<config.firstVerboseFeature>>} /\ (dump # <<>> => config.dumpToFile)
        BY DEF IInv, OutcomeTells
      <4>3. CASE hadErrors /\ outcome' = "CompilationFailed"
        <5>1. \E u \in printed : Erroneous(u)
          BY <4>3 DEF IInv, FilesAccounted
        <5> QED BY <4>1, <4>2, <4>3, <5>1 DEF OutcomeTells, fileVars, Erroneous
      <4>4. CASE ~hadErrors /\ config.dumpToFile /\ outcome' = "Dumped"
        <5>1. \A u \in 1 .. Files : u \in printed /\ ~Erroneous(u)
          BY <1>1, <2>1, <4>4
        <5> QED BY <4>1, <4>2, <4>4, <5>1 DEF OutcomeTells, fileVars, Erroneous, Files
      <4> QED BY <2>1, <2>3, <4>3, <4>4
    <3> QED BY <3>1, <3>2, <3>3, <3>4 DEF IInv
  <2> QED BY <2>1, <2>2, <2>3
<1>3. CASE SelectAndLink
  <2>1. /\ phase = "Link" /\ UNCHANGED <<arguments, config, fileVars>>
        /\ \/ phase' = "Over" /\ outcome' = "NoOutput"
           \/ phase' = "Write" /\ outcome' = outcome
    BY <1>3 DEF SelectAndLink, Over
  <2>2. unit > Files /\ ~hadErrors /\ ~config.dumpToFile
    BY <2>1 DEF IInv, LinkingIsClean
  <2> QED BY <2>1, <2>2, GivesUp, GoesOn DEF Outcomes
<1>4. CASE WriteOutput \/ ReportAndDebug
  <2>1. /\ phase \in {"Write", "Report"} /\ phase' \in {"Report", "Over"}
        /\ UNCHANGED <<arguments, config, unit, stage, diagnostics, printed, hadErrors, dump>>
        /\ \/ phase = "Write" /\ phase' = "Over" /\ image' = image /\ outcome' = "WriteFailed"
           \/ phase = "Write" /\ phase' = "Over" /\ image' = "Partial" /\ outcome' \in {"WriteFailed", "ICE"}
           \/ phase = "Write" /\ phase' = "Report" /\ image' \in {"Partial", "Complete"} /\ outcome' = outcome
           \/ phase = "Report" /\ phase' = "Over" /\ image' = image /\ outcome' \in {"Built", "Debugged"}
    BY <1>4 DEF WriteOutput, ReportAndDebug, Over, fileVars
  <2>2. /\ unit > Files /\ ~hadErrors /\ ~config.dumpToFile /\ outcome = ""
        /\ phase = "Write" => image = "Untouched"
        /\ phase = "Report" => image \in {"Partial", "Complete"}
    BY <2>1 DEF IInv, TypeOK, LinkingIsClean, WritesAtTheEnd
  <2>3. \A u \in 1 .. Files : u \in printed /\ ~Erroneous(u)
    BY <1>1, <2>2
  <2>4. TypeOK'
    BY <2>1, <2>2 DEF IInv, TypeOK, Files, Outcomes
  <2>5. OutcomeTells'
    <3>1. dump \in {<<>>, <<config.firstVerboseFeature>>} /\ (dump # <<>> => config.dumpToFile)
      BY DEF IInv, OutcomeTells
    <3> QED BY <2>1, <2>2, <2>3, <3>1 DEF OutcomeTells, Erroneous, Files
  <2>6. FilesAccounted'
    BY <2>1 DEF IInv, FilesAccounted, Files, Erroneous
  <2>7. NotBegun' /\ DumpResolved' /\ LinkingIsClean' /\ WritesAtTheEnd'
    BY <2>1, <2>2 DEF NotBegun, DumpResolved, LinkingIsClean, WritesAtTheEnd, Files
  <2>8. DumpedOnce'
    BY <2>1 DEF IInv, DumpedOnce
  <2> QED BY <2>4, <2>5, <2>6, <2>7, <2>8 DEF IInv
<1> QED BY <1>2, <1>3, <1>4

\* At an exception, wherever main is.
LEMMA ThrowingKeeps == IInv /\ MainThrows => IInv'
<1> SUFFICES ASSUME IInv, MainThrows PROVE IInv'
  OBVIOUS
<1>1. phase # "Over" /\ phase' = "Over" /\ outcome' = "ICE" /\ UNCHANGED <<arguments, config, fileVars>>
  BY DEF MainThrows, Over
<1> QED BY <1>1, GivesUp DEF Outcomes

LEMMA NothingKeeps == IInv /\ UNCHANGED vars => IInv'
<1> SUFFICES ASSUME IInv, UNCHANGED vars PROVE IInv'
  OBVIOUS
<1>1. TypeOK'
  BY DEF IInv, TypeOK, vars, fileVars, Files
<1>2. OutcomeTells'
  BY DEF IInv, OutcomeTells, vars, fileVars, Files, Erroneous
<1>3. FilesAccounted'
  BY DEF IInv, FilesAccounted, vars, fileVars, Files, Erroneous
<1>4. NotBegun' /\ DumpedOnce' /\ WritesAtTheEnd'
  BY DEF IInv, NotBegun, DumpedOnce, WritesAtTheEnd, vars, fileVars
<1>5. DumpResolved' /\ LinkingIsClean'
  BY DEF IInv, DumpResolved, LinkingIsClean, vars, fileVars, Files
<1> QED BY <1>1, <1>2, <1>3, <1>4, <1>5 DEF IInv

\* The invariant holds of every run.
LEMMA RunsInvariant == Spec => []IInv
<1>1. IInv /\ [Next]_vars => IInv'
  BY CommandLineKeeps, PreparationKeeps, StagesKeep, EndingKeeps, ThrowingKeeps, NothingKeeps
     DEF Next, Finish
<1> QED BY <1>1, InitialInvariant, PTL DEF Spec

(* The driver's configuration, its files and what is said of them are of   *)
(* the right shape, and the work is always that of a file there is.        *)
THEOREM TypeCorrect == Spec => []TypeOK
<1>1. IInv => TypeOK
  BY DEF IInv
<1> QED BY <1>1, RunsInvariant, PTL

(* However many files a run has, whatever their stages report, and wherever *)
(* it stops: its outcome tells what it did.                                 *)
THEOREM OutcomeIsTrue == Spec => []OutcomeTells
<1>1. IInv => OutcomeTells
  BY DEF IInv
<1> QED BY <1>1, RunsInvariant, PTL

-----------------------------------------------------------------------------
(* The last word.  Where in a command line the arguments of a set are, and *)
(* whether the last of two sets to be there is the first of them.          *)

Positions(s, S) == {k \in DOMAIN s : s[k] \in S}
LastIn(s, On, Off) == Stands(Positions(s, On), Positions(s, Off))

Named(names) == {a \in Arguments : a.name \in names}
NamedAs(name, values) == {a \in Named({name}) : a.values \in values}

\* One more argument is after all the others.
LEMMA OneMore ==
  ASSUME NEW s \in Seq(Arguments), NEW a \in Arguments
  PROVE  /\ Append(s, a) \in Seq(Arguments)
         /\ Len(s) \in Nat /\ DOMAIN s = 1 .. Len(s)
         /\ DOMAIN Append(s, a) = (1 .. Len(s)) \cup {Len(s) + 1}
         /\ \A k \in 1 .. Len(s) : Append(s, a)[k] = s[k]
         /\ Append(s, a)[Len(s) + 1] = a
  OBVIOUS

LEMMA OneMorePosition ==
  ASSUME NEW s \in Seq(Arguments), NEW a \in Arguments, NEW S
  PROVE  /\ Positions(Append(s, a), S) = Positions(s, S) \cup (IF a \in S THEN {Len(s) + 1} ELSE {})
         /\ Len(s) \in Nat
         /\ \A k \in Positions(s, S) : k \in Nat /\ k < Len(s) + 1
<1>1. /\ Len(s) \in Nat /\ DOMAIN s = 1 .. Len(s)
      /\ DOMAIN Append(s, a) = (1 .. Len(s)) \cup {Len(s) + 1}
      /\ \A k \in 1 .. Len(s) : Append(s, a)[k] = s[k]
      /\ Append(s, a)[Len(s) + 1] = a
  BY OneMore
<1>2. Positions(s, S) \subseteq 1 .. Len(s)
  BY <1>1 DEF Positions
<1>3. \A k \in Positions(s, S) : k \in Nat /\ k < Len(s) + 1
  BY <1>1, <1>2
<1>4. Positions(Append(s, a), S) = Positions(s, S) \cup (IF a \in S THEN {Len(s) + 1} ELSE {})
  BY <1>1 DEF Positions
<1> QED BY <1>1, <1>3, <1>4

\* What a new argument that sets or resets a thing makes of it.
LEMMA LastWord ==
  ASSUME NEW s \in Seq(Arguments), NEW a \in Arguments, NEW On, NEW Off
  PROVE  LastIn(Append(s, a), On, Off) <=> a \notin Off /\ (a \in On \/ LastIn(s, On, Off))
<1> DEFINE n == Len(s) + 1
           on == Positions(s, On)
           off == Positions(s, Off)
<1>1. /\ Positions(Append(s, a), On) = on \cup (IF a \in On THEN {n} ELSE {})
      /\ Positions(Append(s, a), Off) = off \cup (IF a \in Off THEN {n} ELSE {})
      /\ n \in Nat
      /\ \A k \in on : k \in Nat /\ k < n
      /\ \A k \in off : k \in Nat /\ k < n
  BY OneMorePosition
<1> HIDE DEF n, on, off
<1>2. CASE a \in Off
  <2>1. ASSUME LastIn(Append(s, a), On, Off) PROVE FALSE
    <3>1. PICK k \in on \cup (IF a \in On THEN {n} ELSE {}) : n < k
      BY <1>1, <1>2, <2>1 DEF LastIn, Stands
    <3> QED BY <1>1, <3>1
  <2> QED BY <1>2, <2>1
<1>3. CASE a \notin Off
  <2>1. Positions(Append(s, a), Off) = off
    BY <1>1, <1>3
  <2>2. CASE a \in On
    <3>1. n \in Positions(Append(s, a), On) /\ \A j \in off : j < n
      BY <1>1, <2>2
    <3> QED BY <1>3, <2>1, <2>2, <3>1 DEF LastIn, Stands
  <2>3. CASE a \notin On
    <3>1. Positions(Append(s, a), On) = on
      BY <1>1, <2>3
    <3> QED BY <1>3, <2>1, <2>3, <3>1 DEF LastIn, Stands, on, off
  <2> QED BY <2>2, <2>3
<1> QED BY <1>2, <1>3

\* The same of a thing with more than two values and a default.
LEMMA LastWordAbout ==
  ASSUME NEW s \in Seq(Arguments), NEW a \in Arguments, NEW On, NEW About, On \subseteq About, NEW default
  PROVE  Decided(Positions(Append(s, a), On), Positions(Append(s, a), About), default)
         <=> \/ a \in On
             \/ a \notin About /\ Decided(Positions(s, On), Positions(s, About), default)
<1>1. /\ Positions(Append(s, a), About) \ Positions(Append(s, a), On) = Positions(Append(s, a), About \ On)
      /\ Positions(s, About) \ Positions(s, On) = Positions(s, About \ On)
  <2>1. \A t : Positions(t, About) \ Positions(t, On) = Positions(t, About \ On)
    BY DEF Positions
  <2> QED BY <2>1
<1>2. LastIn(Append(s, a), On, About \ On) <=> a \notin About \ On /\ (a \in On \/ LastIn(s, On, About \ On))
  BY LastWord
<1>3. Positions(Append(s, a), About) = {} <=> a \notin About /\ Positions(s, About) = {}
  <2>1. Positions(Append(s, a), About) = Positions(s, About) \cup (IF a \in About THEN {Len(s) + 1} ELSE {})
    BY OneMorePosition
  <2> QED BY <2>1
<1>4. Decided(Positions(Append(s, a), On), Positions(Append(s, a), About), default)
      <=> LastIn(Append(s, a), On, About \ On) \/ (Positions(Append(s, a), About) = {} /\ default)
  BY <1>1 DEF Decided, LastIn
<1>5. Decided(Positions(s, On), Positions(s, About), default)
      <=> LastIn(s, On, About \ On) \/ (Positions(s, About) = {} /\ default)
  BY <1>1 DEF Decided, LastIn
<1> QED BY <1>2, <1>3, <1>4, <1>5

\* What the properties speak about are such positions.
LEMMA SaidIs ==
  ASSUME arguments \in Seq(Arguments)
  PROVE  /\ \A names : Said(names) = Positions(arguments, Named(names))
         /\ \A name, values : SaidAs(name, values) = Positions(arguments, NamedAs(name, values))
         /\ \A names, name, values :
              (Said(names) \cup SaidAs(name, values)) = Positions(arguments, Named(names) \cup NamedAs(name, values))
         /\ \A names, name, values :
              (SaidAs(name, values) \cup Said(names)) = Positions(arguments, NamedAs(name, values) \cup Named(names))
<1>1. \A k \in DOMAIN arguments : arguments[k] \in Arguments
  OBVIOUS
<1>2. /\ \A names : Said(names) = Positions(arguments, Named(names))
      /\ \A name, values : SaidAs(name, values) = Positions(arguments, NamedAs(name, values))
  BY <1>1 DEF Said, SaidAs, Positions, Named, NamedAs
<1>3. \A S, T : /\ Positions(arguments, S) \cup Positions(arguments, T) = Positions(arguments, S \cup T)
                /\ Positions(arguments, T) \cup Positions(arguments, S) = Positions(arguments, T \cup S)
  BY DEF Positions
<1> QED BY <1>2, <1>3

LEMMA SaidNext ==
  ASSUME arguments' \in Seq(Arguments)
  PROVE  /\ \A names : Said(names)' = Positions(arguments', Named(names))
         /\ \A name, values : SaidAs(name, values)' = Positions(arguments', NamedAs(name, values))
         /\ \A names, name, values :
              (Said(names) \cup SaidAs(name, values))' = Positions(arguments', Named(names) \cup NamedAs(name, values))
         /\ \A names, name, values :
              (SaidAs(name, values) \cup Said(names))' = Positions(arguments', NamedAs(name, values) \cup Named(names))
<1>1. \A k \in DOMAIN arguments' : arguments'[k] \in Arguments
  OBVIOUS
<1>2. /\ \A names : Said(names)' = Positions(arguments', Named(names))
      /\ \A name, values : SaidAs(name, values)' = Positions(arguments', NamedAs(name, values))
  BY <1>1 DEF Said, SaidAs, Positions, Named, NamedAs
<1>3. \A S, T : /\ Positions(arguments', S) \cup Positions(arguments', T) = Positions(arguments', S \cup T)
                /\ Positions(arguments', T) \cup Positions(arguments', S) = Positions(arguments', T \cup S)
  BY DEF Positions
<1> QED BY <1>2, <1>3

-----------------------------------------------------------------------------
(* Warnings and optimisations. *)

LEMMA WarningsKept ==
  ASSUME arguments \in Seq(Arguments), NEW a \in Arguments, Accepted(a, config'),
         Leaves(a, config, config'), Says(a, config, config'),
         config.warningsAreErrors \in BOOLEAN, config'.warningsAreErrors \in BOOLEAN,
         WarningsDecided
  PROVE  WarningsDecided'
<1> DEFINE On == Named({"WX"}) \cup NamedAs("warnings", {<<"errors">>})
           Off == Named({"-WX"}) \cup NamedAs("warnings", {<<"default">>})
<1>1. arguments' = Append(arguments, a) /\ arguments' \in Seq(Arguments)
  BY OneMore DEF Accepted
<1>2. WarningsDecided <=> (config.warningsAreErrors <=> LastIn(arguments, On, Off))
  <2>1. /\ Said({"WX"}) \cup SaidAs("warnings", {<<"errors">>}) = Positions(arguments, On)
        /\ Said({"-WX"}) \cup SaidAs("warnings", {<<"default">>}) = Positions(arguments, Off)
    BY SaidIs
  <2> QED BY <2>1 DEF WarningsDecided, LastIn
<1>3. WarningsDecided' <=> (config'.warningsAreErrors <=> LastIn(arguments', On, Off))
  <2>1. /\ (Said({"WX"}) \cup SaidAs("warnings", {<<"errors">>}))' = Positions(arguments', On)
        /\ (Said({"-WX"}) \cup SaidAs("warnings", {<<"default">>}))' = Positions(arguments', Off)
    BY <1>1, SaidNext
  <2> QED BY <2>1 DEF WarningsDecided, LastIn
<1>4. LastIn(arguments', On, Off) <=> a \notin Off /\ (a \in On \/ LastIn(arguments, On, Off))
  <2> HIDE DEF On, Off
  <2> QED BY <1>1, LastWord
<1>5. /\ a \in On <=> a.name = "WX" \/ (a.name = "warnings" /\ a.values = <<"errors">>)
      /\ a \in Off <=> a.name = "-WX" \/ (a.name = "warnings" /\ a.values = <<"default">>)
  BY DEF Named, NamedAs
<1>6. config'.warningsAreErrors <=> a \notin Off /\ (a \in On \/ config.warningsAreErrors)
  <2>1. CASE a.name \in {"WX", "-WX"}
    BY <1>5, <2>1 DEF Says
  <2>2. CASE a.name = "warnings"
    <3>1. \/ a.values = <<"errors">> /\ config'.warningsAreErrors
          \/ a.values = <<"default">> /\ ~config'.warningsAreErrors
          \/ /\ a.values \notin {<<"errors">>, <<"default">>}
             /\ config'.warningsAreErrors = config.warningsAreErrors
      BY <2>2 DEF Says
    <3>2. <<"errors">> # <<"default">>
      OBVIOUS
    <3> HIDE DEF On, Off
    <3> QED BY <1>5, <2>2, <3>1, <3>2
  <2>3. CASE a.name \notin {"WX", "-WX", "warnings"}
    BY <1>5, <2>3 DEF Leaves
  <2> QED BY <2>1, <2>2, <2>3
<1> QED BY <1>2, <1>3, <1>4, <1>6

LEMMA OptimisationKept ==
  ASSUME arguments \in Seq(Arguments), NEW a \in Arguments, Accepted(a, config'),
         Leaves(a, config, config'), Says(a, config, config'),
         NEW o \in Optimisations, OptimisationDecided(o)
  PROVE  OptimisationDecided(o)'
<1> DEFINE On == NamedAs("O", {<<o>>}) \cup Named(PresetsWith(o))
           Off == NamedAs("O", {<<"no-", o>>}) \cup Named(OptimisationPresets \ PresetsWith(o))
<1>1. arguments' = Append(arguments, a) /\ arguments' \in Seq(Arguments)
  BY OneMore DEF Accepted
<1>2. OptimisationDecided(o) <=> (o \in config.optimisations <=> LastIn(arguments, On, Off))
  BY SaidIs DEF OptimisationDecided, LastIn
<1>3. OptimisationDecided(o)' <=> (o \in config'.optimisations <=> LastIn(arguments', On, Off))
  <2>1. /\ (SaidAs("O", {<<o>>}) \cup Said(PresetsWith(o)))' = Positions(arguments', On)
        /\ (SaidAs("O", {<<"no-", o>>}) \cup Said(OptimisationPresets \ PresetsWith(o)))' = Positions(arguments', Off)
    BY <1>1, SaidNext
  <2> QED BY <2>1 DEF OptimisationDecided, LastIn
<1>4. LastIn(arguments', On, Off) <=> a \notin Off /\ (a \in On \/ LastIn(arguments, On, Off))
  <2> HIDE DEF On, Off
  <2> QED BY <1>1, LastWord
<1>5. /\ a \in On <=> (a.name = "O" /\ a.values = <<o>>) \/ a.name \in PresetsWith(o)
      /\ a \in Off <=> \/ a.name = "O" /\ a.values = <<"no-", o>>
                       \/ a.name \in OptimisationPresets \ PresetsWith(o)
  BY DEF Named, NamedAs
<1>6. "O" \notin OptimisationPresets /\ PresetsWith(o) \subseteq OptimisationPresets
  BY DEF OptimisationPresets, PresetsWith
<1>7. o \in config'.optimisations <=> a \notin Off /\ (a \in On \/ o \in config.optimisations)
  <2>1. CASE a.name \in OptimisationPresets
    <3>1. config'.optimisations = OptimisationPreset(a.name)
      BY <2>1 DEF Says
    <3>2. o \in OptimisationPreset(a.name) <=> a.name \in PresetsWith(o)
      BY <2>1 DEF PresetsWith
    <3> QED BY <1>5, <1>6, <2>1, <3>1, <3>2
  <2>2. CASE a.name = "O"
    <3>1. PICK other \in Optimisations :
            \/ a.values = <<other>> /\ config'.optimisations = config.optimisations \cup {other}
            \/ a.values = <<"no-", other>> /\ config'.optimisations = config.optimisations \ {other}
      BY <2>2 DEF Says
    <3>2. /\ <<other>> = <<o>> <=> other = o
          /\ <<"no-", other>> = <<"no-", o>> <=> other = o
          /\ <<other>> # <<"no-", o>> /\ <<"no-", other>> # <<o>>
      OBVIOUS
    <3> QED BY <1>5, <1>6, <2>2, <3>1, <3>2
  <2>3. CASE a.name \notin OptimisationPresets \cup {"O"}
    BY <1>5, <1>6, <2>3 DEF Leaves
  <2> QED BY <2>1, <2>2, <2>3
<1> QED BY <1>2, <1>3, <1>4, <1>7

-----------------------------------------------------------------------------
(* The target and the linker. *)

TargetAbout(field) ==
    {a \in Arguments : a.name = field \/ (a.name = "image" /\ (field = "isa" \/ a.values # <<"coff64">>))}
TargetOn(field, value) ==
    {a \in TargetAbout(field) : IF a.name = "image"
                                THEN PresetTarget(a.values[1], HostDefaults.target)[field] = value
                                ELSE a.values = <<value>>}

LEMMA SaysTargetWhere ==
  ASSUME arguments \in Seq(Arguments), NEW field, NEW value
  PROVE  /\ SaysTarget(field) = Positions(arguments, TargetAbout(field))
         /\ SaysTargetIs(field, value) = Positions(arguments, TargetOn(field, value))
<1>1. \A k \in DOMAIN arguments : arguments[k] \in Arguments
  OBVIOUS
<1>2. SaysTarget(field) = Positions(arguments, TargetAbout(field))
  BY <1>1 DEF SaysTarget, Said, SaidAs, Complete, Positions, TargetAbout
<1>3. SaysTargetIs(field, value) = Positions(arguments, TargetOn(field, value))
  BY <1>1, <1>2 DEF SaysTargetIs, Positions, TargetOn
<1> QED BY <1>2, <1>3

LEMMA SaysTargetNext ==
  ASSUME arguments' \in Seq(Arguments), NEW field, NEW value
  PROVE  /\ SaysTarget(field)' = Positions(arguments', TargetAbout(field))
         /\ SaysTargetIs(field, value)' = Positions(arguments', TargetOn(field, value))
<1>1. \A k \in DOMAIN arguments' : arguments'[k] \in Arguments
  OBVIOUS
<1>2. SaysTarget(field)' = Positions(arguments', TargetAbout(field))
  BY <1>1 DEF SaysTarget, Said, SaidAs, Complete, Positions, TargetAbout
<1>3. SaysTargetIs(field, value)' = Positions(arguments', TargetOn(field, value))
  BY <1>1, <1>2 DEF SaysTargetIs, Positions, TargetOn
<1> QED BY <1>2, <1>3

\* A preset says the whole target, or, coff64, the ISA and leaves the rest.
LEMMA PresetSays ==
  ASSUME NEW preset \in ImagePresets, NEW t \in Targets, NEW u \in Targets
  PROVE  /\ PresetTarget(preset, t).isa = PresetTarget(preset, u).isa
         /\ preset # "coff64" => /\ PresetTarget(preset, t) = PresetTarget(preset, u)
                                 /\ PresetTarget(preset, t).extensions = {}
         /\ preset = "coff64" => /\ PresetTarget(preset, t).platform = t.platform
                                 /\ PresetTarget(preset, t).sdk = t.sdk
                                 /\ PresetTarget(preset, t).cpu = t.cpu
                                 /\ PresetTarget(preset, t).extensions = t.extensions
<1>1. CASE preset = "coff64"
  BY <1>1 DEF PresetTarget, Targets
<1>2. CASE preset # "coff64"
  BY <1>2 DEF PresetTarget, Target, ImagePresets
<1> QED BY <1>1, <1>2

\* What an argument does to a field of the target.
LEMMA TargetEffect ==
  ASSUME config \in Configs, NEW a \in Arguments, Leaves(a, config, config'), Says(a, config, config'),
         NEW field \in {"isa", "platform", "sdk", "cpu"}, NEW value
  PROVE  /\ a \notin TargetAbout(field) => config'.target[field] = config.target[field]
         /\ a \in TargetAbout(field) => (config'.target[field] = value <=> a \in TargetOn(field, value))
<1>0. config.target \in Targets /\ HostDefaults.target \in Targets
  BY HostDefaultsTyped DEF Configs
<1>1. CASE a.name = "image"
  <2>1. /\ a.values = <<a.values[1]>> /\ a.values[1] \in ImagePresets
        /\ config'.target = PresetTarget(a.values[1], config.target)
    BY <1>1 DEF Says
  <2>2. a.values = <<"coff64">> <=> a.values[1] = "coff64"
    BY <2>1
  <2>3. a \in TargetAbout(field) <=> field = "isa" \/ a.values[1] # "coff64"
    BY <1>1, <2>2 DEF TargetAbout
  <2>4. a \in TargetAbout(field) =>
          PresetTarget(a.values[1], config.target)[field] = PresetTarget(a.values[1], HostDefaults.target)[field]
    BY <1>0, <2>1, <2>3, PresetSays
  <2>5. a \notin TargetAbout(field) =>
          PresetTarget(a.values[1], config.target)[field] = config.target[field]
    BY <1>0, <2>1, <2>3, PresetSays
  <2> QED BY <1>1, <2>1, <2>4, <2>5 DEF TargetOn
<1>2. CASE a.name = field
  <2>1. a.values = <<config'.target[field]>> /\ field # "image"
    BY <1>2 DEF Says
  <2>2. config'.target[field] = value <=> a.values = <<value>>
    BY <2>1
  <2>3. a \in TargetAbout(field) /\ (a \in TargetOn(field, value) <=> a.values = <<value>>)
    BY <1>2, <2>1 DEF TargetAbout, TargetOn
  <2> QED BY <2>2, <2>3
<1>3. CASE a.name \notin {field, "image"}
  <2>1. config'.target[field] = config.target[field]
    BY <1>3 DEF Leaves
  <2> QED BY <1>3, <2>1 DEF TargetAbout
<1> QED BY <1>1, <1>2, <1>3

LEMMA TargetKept ==
  ASSUME config \in Configs, arguments \in Seq(Arguments), NEW a \in Arguments, Accepted(a, config'),
         Leaves(a, config, config'), Says(a, config, config'),
         NEW field \in {"isa", "platform", "sdk", "cpu"}, NEW value, TargetDecided(field, value)
  PROVE  TargetDecided(field, value)'
<1> DEFINE On == TargetOn(field, value)
           About == TargetAbout(field)
           default == HostDefaults.target[field] = value
<1>1. arguments' = Append(arguments, a) /\ arguments' \in Seq(Arguments)
  BY OneMore DEF Accepted
<1>2. TargetDecided(field, value)
      <=> (config.target[field] = value <=> Decided(Positions(arguments, On), Positions(arguments, About), default))
  <2>1. SaysTarget(field) = Positions(arguments, About) /\ SaysTargetIs(field, value) = Positions(arguments, On)
    BY SaysTargetWhere
  <2> QED BY <2>1 DEF TargetDecided
<1>3. TargetDecided(field, value)'
      <=> (config'.target[field] = value <=> Decided(Positions(arguments', On), Positions(arguments', About), default))
  <2>1. SaysTarget(field)' = Positions(arguments', About) /\ SaysTargetIs(field, value)' = Positions(arguments', On)
    BY <1>1, SaysTargetNext
  <2> QED BY <2>1 DEF TargetDecided, Decided, Stands
<1>4. On \subseteq About
  BY DEF TargetOn
<1>5. /\ a \notin About => config'.target[field] = config.target[field]
      /\ a \in About => (config'.target[field] = value <=> a \in On)
  BY TargetEffect
<1> HIDE DEF On, About, default
<1>6. Decided(Positions(arguments', On), Positions(arguments', About), default)
      <=> \/ a \in On
          \/ a \notin About /\ Decided(Positions(arguments, On), Positions(arguments, About), default)
  BY <1>1, <1>4, LastWordAbout
<1> QED BY <1>2, <1>3, <1>4, <1>5, <1>6

LEMMA LinkerKept ==
  ASSUME arguments \in Seq(Arguments), NEW a \in Arguments, Accepted(a, config'),
         Leaves(a, config, config'), Says(a, config, config'), NEW linker, LinkerDecided(linker)
  PROVE  LinkerDecided(linker)'
<1> DEFINE About == Named({"image"})
           On == {b \in About : PresetLinker(b.values[1]) = linker}
           default == HostDefaults.linker = linker
<1>1. arguments' = Append(arguments, a) /\ arguments' \in Seq(Arguments)
  BY OneMore DEF Accepted
<1>2. LinkerDecided(linker)
      <=> (config.linker = linker <=> Decided(Positions(arguments, On), Positions(arguments, About), default))
  <2>1. Said({"image"}) = Positions(arguments, About)
    BY SaidIs
  <2>2. {k \in Positions(arguments, About) : PresetLinker(arguments[k].values[1]) = linker} = Positions(arguments, On)
    BY DEF Positions
  <2> QED BY <2>1, <2>2 DEF LinkerDecided
<1>3. LinkerDecided(linker)'
      <=> (config'.linker = linker <=> Decided(Positions(arguments', On), Positions(arguments', About), default))
  <2>1. Said({"image"})' = Positions(arguments', About)
    BY <1>1, SaidNext
  <2>2. {k \in Positions(arguments', About) : PresetLinker(arguments'[k].values[1]) = linker} = Positions(arguments', On)
    BY DEF Positions
  <2> QED BY <2>1, <2>2 DEF LinkerDecided, Decided, Stands
<1>4. On \subseteq About
  OBVIOUS
<1>5. /\ a \notin About => config'.linker = config.linker
      /\ a \in About => (config'.linker = linker <=> a \in On)
  BY DEF Named, Leaves, Says
<1> HIDE DEF On, About, default
<1>6. Decided(Positions(arguments', On), Positions(arguments', About), default)
      <=> \/ a \in On
          \/ a \notin About /\ Decided(Positions(arguments, On), Positions(arguments, About), default)
  BY <1>1, <1>4, LastWordAbout
<1> QED BY <1>2, <1>3, <1>4, <1>5, <1>6

LEMMA ExtensionKept ==
  ASSUME config \in Configs, arguments \in Seq(Arguments), NEW a \in Arguments, Accepted(a, config'),
         Leaves(a, config, config'), Says(a, config, config'), NEW bit, ExtensionDecided(bit)
  PROVE  ExtensionDecided(bit)'
<1> DEFINE On == {b \in Named({"extensions"}) : \E e \in Elements(b.values) : bit \in ExtensionBits(e)}
           Off == NamedAs("extensions", {<<"none">>}) \cup (Named({"image"}) \ NamedAs("image", {<<"coff64">>}))
<1>1. arguments' = Append(arguments, a) /\ arguments' \in Seq(Arguments)
  BY OneMore DEF Accepted
<1>2. ExtensionDecided(bit) <=> (bit \in config.target.extensions <=> LastIn(arguments, On, Off))
  <2>1. /\ Said({"extensions"}) = Positions(arguments, Named({"extensions"}))
        /\ SaidAs("extensions", {<<"none">>}) = Positions(arguments, NamedAs("extensions", {<<"none">>}))
        /\ Said({"image"}) = Positions(arguments, Named({"image"}))
        /\ SaidAs("image", {<<"coff64">>}) = Positions(arguments, NamedAs("image", {<<"coff64">>}))
    BY SaidIs
  <2>2. {k \in Positions(arguments, Named({"extensions"})) :
            \E e \in Elements(arguments[k].values) : bit \in ExtensionBits(e)} = Positions(arguments, On)
    BY DEF Positions
  <2>3. Positions(arguments, NamedAs("extensions", {<<"none">>}))
          \cup (Positions(arguments, Named({"image"})) \ Positions(arguments, NamedAs("image", {<<"coff64">>})))
        = Positions(arguments, Off)
    BY DEF Positions
  <2> HIDE DEF On, Off
  <2> QED BY <2>1, <2>2, <2>3 DEF ExtensionDecided, LastIn, Complete
<1>3. ExtensionDecided(bit)' <=> (bit \in config'.target.extensions <=> LastIn(arguments', On, Off))
  <2>1. /\ Said({"extensions"})' = Positions(arguments', Named({"extensions"}))
        /\ SaidAs("extensions", {<<"none">>})' = Positions(arguments', NamedAs("extensions", {<<"none">>}))
        /\ Said({"image"})' = Positions(arguments', Named({"image"}))
        /\ SaidAs("image", {<<"coff64">>})' = Positions(arguments', NamedAs("image", {<<"coff64">>}))
    BY <1>1, SaidNext
  <2>2. {k \in Positions(arguments', Named({"extensions"})) :
            \E e \in Elements(arguments'[k].values) : bit \in ExtensionBits(e)} = Positions(arguments', On)
    BY DEF Positions
  <2>3. Positions(arguments', NamedAs("extensions", {<<"none">>}))
          \cup (Positions(arguments', Named({"image"})) \ Positions(arguments', NamedAs("image", {<<"coff64">>})))
        = Positions(arguments', Off)
    BY DEF Positions
  <2> HIDE DEF On, Off
  <2> QED BY <2>1, <2>2, <2>3 DEF ExtensionDecided, LastIn, Stands, Complete
<1>4. LastIn(arguments', On, Off) <=> a \notin Off /\ (a \in On \/ LastIn(arguments, On, Off))
  <2> HIDE DEF On, Off
  <2> QED BY <1>1, LastWord
<1>5. bit \in config'.target.extensions <=> a \notin Off /\ (a \in On \/ bit \in config.target.extensions)
  <2>1. CASE a.name = "extensions"
    <3>1. config'.target.extensions =
            IF a.values = <<"none">> THEN {}
            ELSE config.target.extensions \cup UNION {ExtensionBits(e) : e \in Elements(a.values)}
      BY <2>1 DEF Says
    <3>2. a \in Off <=> a.values = <<"none">>
      BY <2>1 DEF Named, NamedAs
    <3>3. a \in On <=> \E e \in Elements(a.values) : bit \in ExtensionBits(e)
      BY <2>1 DEF Named
    <3> HIDE DEF On, Off
    <3> QED BY <3>1, <3>2, <3>3
  <2>2. CASE a.name = "image"
    <3>1. /\ a.values = <<a.values[1]>> /\ a.values[1] \in ImagePresets
          /\ config'.target = PresetTarget(a.values[1], config.target)
      BY <2>2 DEF Says
    <3>2. config.target \in Targets
      BY DEF Configs
    <3>3. a.values = <<"coff64">> <=> a.values[1] = "coff64"
      BY <3>1
    <3>4. a \in Off <=> a.values[1] # "coff64"
      BY <2>2, <3>3 DEF Named, NamedAs
    <3>5. a \notin On
      BY <2>2 DEF Named
    <3>6. config'.target.extensions = IF a.values[1] = "coff64" THEN config.target.extensions ELSE {}
      <4>1. /\ a.values[1] # "coff64" => PresetTarget(a.values[1], config.target).extensions = {}
            /\ a.values[1] = "coff64" =>
                 PresetTarget(a.values[1], config.target).extensions = config.target.extensions
        BY <3>1, <3>2, PresetSays
      <4> QED BY <3>1, <4>1
    <3> HIDE DEF On, Off
    <3> QED BY <3>4, <3>5, <3>6
  <2>3. CASE a.name \notin {"extensions", "image"}
    <3>1. config'.target.extensions = config.target.extensions
      BY <2>3 DEF Leaves
    <3> QED BY <2>3, <3>1 DEF Named, NamedAs
  <2> QED BY <2>1, <2>2, <2>3
<1> QED BY <1>2, <1>3, <1>4, <1>5

-----------------------------------------------------------------------------
(* The features. *)

ClearsSet == NamedAs("verbose", {<<"none">>})
VerboseSet == Named({"verbose"}) \ ClearsSet
SelectsSet(f) ==
    {a \in Named({"verbose"}) : (a.values = <<>> /\ f \in DefaultFeatures) \/ a.values = <<"all">> \/ f \in Elements(a.values)}
StartsSet(f) ==
    {a \in Named({"verbose"}) : \/ a.values \in {<<>>, <<"all">>} /\ f = "Preprocessor"
                                \/ a.values # <<>> /\ a.values[1] = f}

\* Whether the first feature since the last clearing is f, and whether there is none.
FirstIn(s, f) ==
    \E k \in Positions(s, StartsSet(f)) :
        /\ \A j \in Positions(s, ClearsSet) : j < k
        /\ \A j \in Positions(s, VerboseSet) : j < k => \E i \in Positions(s, ClearsSet) : j < i
NoneIn(s) == \A j \in Positions(s, VerboseSet) : \E i \in Positions(s, ClearsSet) : j < i

NothingSelected == \A j \in Said({"verbose"}) \ Clears : \E i \in Clears : j < i

LEMMA FeaturesWhere ==
  ASSUME arguments \in Seq(Arguments), NEW f
  PROVE  /\ Clears = Positions(arguments, ClearsSet)
         /\ Said({"verbose"}) \ Clears = Positions(arguments, VerboseSet)
         /\ Selects(f) = Positions(arguments, SelectsSet(f))
         /\ StartsWith(f) = Positions(arguments, StartsSet(f))
<1>1. \A k \in DOMAIN arguments : arguments[k] \in Arguments
  OBVIOUS
<1>2. /\ Said({"verbose"}) = Positions(arguments, Named({"verbose"}))
      /\ Clears = Positions(arguments, ClearsSet)
  BY SaidIs DEF Clears, ClearsSet
<1>3. Said({"verbose"}) \ Clears = Positions(arguments, VerboseSet)
  BY <1>2 DEF Positions, VerboseSet
<1>4. Selects(f) = Positions(arguments, SelectsSet(f))
  BY <1>1, <1>2 DEF Selects, Positions, SelectsSet
<1>5. StartsWith(f) = Positions(arguments, StartsSet(f))
  BY <1>1, <1>2 DEF StartsWith, Positions, StartsSet
<1> QED BY <1>2, <1>3, <1>4, <1>5

LEMMA FeaturesNext ==
  ASSUME arguments' \in Seq(Arguments), NEW f
  PROVE  /\ Clears' = Positions(arguments', ClearsSet)
         /\ (Said({"verbose"}) \ Clears)' = Positions(arguments', VerboseSet)
         /\ Selects(f)' = Positions(arguments', SelectsSet(f))
         /\ StartsWith(f)' = Positions(arguments', StartsSet(f))
<1>1. \A k \in DOMAIN arguments' : arguments'[k] \in Arguments
  OBVIOUS
<1>2. /\ Said({"verbose"})' = Positions(arguments', Named({"verbose"}))
      /\ Clears' = Positions(arguments', ClearsSet)
  BY SaidNext DEF Clears, ClearsSet
<1>3. (Said({"verbose"}) \ Clears)' = Positions(arguments', VerboseSet)
  BY <1>2 DEF Positions, VerboseSet
<1>4. Selects(f)' = Positions(arguments', SelectsSet(f))
  BY <1>1, <1>2 DEF Selects, Positions, SelectsSet
<1>5. StartsWith(f)' = Positions(arguments', StartsSet(f))
  BY <1>1, <1>2 DEF StartsWith, Positions, StartsSet
<1> QED BY <1>2, <1>3, <1>4, <1>5

\* What one more argument does to the first feature.
LEMMA FirstWordOf ==
  ASSUME NEW s \in Seq(Arguments), NEW a \in Arguments, NEW f
  PROVE  /\ a \in ClearsSet => NoneIn(Append(s, a)) /\ ~FirstIn(Append(s, a), f)
         /\ a \in VerboseSet => /\ ~NoneIn(Append(s, a))
                                /\ FirstIn(Append(s, a), f) <=> FirstIn(s, f) \/ (NoneIn(s) /\ a \in StartsSet(f))
         /\ a.name # "verbose" => /\ NoneIn(Append(s, a)) <=> NoneIn(s)
                                  /\ FirstIn(Append(s, a), f) <=> FirstIn(s, f)
<1> DEFINE n == Len(s) + 1
           t == Append(s, a)
           starts == Positions(s, StartsSet(f))
           clears == Positions(s, ClearsSet)
           verbose == Positions(s, VerboseSet)
<1>1. /\ Positions(t, StartsSet(f)) = starts \cup (IF a \in StartsSet(f) THEN {n} ELSE {})
      /\ Positions(t, ClearsSet) = clears \cup (IF a \in ClearsSet THEN {n} ELSE {})
      /\ Positions(t, VerboseSet) = verbose \cup (IF a \in VerboseSet THEN {n} ELSE {})
      /\ n \in Nat
      /\ \A k \in starts \cup clears \cup verbose : k \in Nat /\ k < n
  BY OneMorePosition
<1>2. /\ FirstIn(s, f) <=> \E k \in starts : /\ \A j \in clears : j < k
                                             /\ \A j \in verbose : j < k => \E i \in clears : j < i
      /\ NoneIn(s) <=> \A j \in verbose : \E i \in clears : j < i
  BY DEF FirstIn, NoneIn
<1>3. /\ FirstIn(t, f) <=> \E k \in Positions(t, StartsSet(f)) :
           /\ \A j \in Positions(t, ClearsSet) : j < k
           /\ \A j \in Positions(t, VerboseSet) : j < k => \E i \in Positions(t, ClearsSet) : j < i
      /\ NoneIn(t) <=> \A j \in Positions(t, VerboseSet) : \E i \in Positions(t, ClearsSet) : j < i
  BY DEF FirstIn, NoneIn
<1> HIDE DEF n, t, starts, clears, verbose
<1>4. ASSUME a \in ClearsSet PROVE NoneIn(t) /\ ~FirstIn(t, f)
  <2>1. a \notin VerboseSet
    BY <1>4 DEF VerboseSet
  <2>2. Positions(t, VerboseSet) = verbose /\ n \in Positions(t, ClearsSet)
    BY <1>1, <1>4, <2>1
  <2>3. NoneIn(t)
    BY <1>1, <1>3, <2>2
  <2>4. \A k \in Positions(t, StartsSet(f)) : ~(n < k)
    BY <1>1
  <2>5. ~FirstIn(t, f)
    BY <1>3, <2>2, <2>4
  <2> QED BY <2>3, <2>5
<1>5. ASSUME a \in VerboseSet
      PROVE  ~NoneIn(t) /\ (FirstIn(t, f) <=> FirstIn(s, f) \/ (NoneIn(s) /\ a \in StartsSet(f)))
  <2>1. a \notin ClearsSet
    BY <1>5 DEF VerboseSet
  <2>2. Positions(t, ClearsSet) = clears /\ Positions(t, VerboseSet) = verbose \cup {n}
    BY <1>1, <1>5, <2>1
  <2>3. ~NoneIn(t)
    <3>1. \A i \in clears : ~(n < i)
      BY <1>1
    <3> QED BY <1>3, <2>2, <3>1
  <2>4. ASSUME FirstIn(s, f) PROVE FirstIn(t, f)
    <3>1. PICK k \in starts : /\ \A j \in clears : j < k
                              /\ \A j \in verbose : j < k => \E i \in clears : j < i
      BY <1>2, <2>4
    <3>2. ~(n < k) /\ k \in Positions(t, StartsSet(f))
      BY <1>1
    <3> QED BY <1>3, <2>2, <3>1, <3>2
  <2>5. ASSUME NoneIn(s), a \in StartsSet(f) PROVE FirstIn(t, f)
    <3>1. n \in Positions(t, StartsSet(f)) /\ ~(n < n)
      BY <1>1, <2>5
    <3>2. \A j \in clears : j < n
      BY <1>1
    <3>3. \A j \in verbose : \E i \in clears : j < i
      BY <1>2, <2>5
    <3> QED BY <1>3, <2>2, <3>1, <3>2, <3>3
  <2>6. ASSUME FirstIn(t, f) PROVE FirstIn(s, f) \/ (NoneIn(s) /\ a \in StartsSet(f))
    <3>1. PICK k \in Positions(t, StartsSet(f)) :
            /\ \A j \in clears : j < k
            /\ \A j \in verbose \cup {n} : j < k => \E i \in clears : j < i
      BY <1>3, <2>2, <2>6
    <3>2. CASE k \in starts
      BY <1>2, <3>1, <3>2
    <3>3. CASE k = n /\ a \in StartsSet(f)
      <4>1. \A j \in verbose : j < k
        BY <1>1, <3>3
      <4> QED BY <1>2, <3>1, <3>3, <4>1
    <3> QED BY <1>1, <3>1, <3>2, <3>3
  <2> QED BY <2>3, <2>4, <2>5, <2>6
<1>6. ASSUME a.name # "verbose" PROVE (NoneIn(t) <=> NoneIn(s)) /\ (FirstIn(t, f) <=> FirstIn(s, f))
  <2>1. a \notin StartsSet(f) /\ a \notin ClearsSet /\ a \notin VerboseSet
    BY <1>6 DEF StartsSet, ClearsSet, VerboseSet, Named, NamedAs
  <2>2. /\ Positions(t, StartsSet(f)) = starts /\ Positions(t, ClearsSet) = clears
        /\ Positions(t, VerboseSet) = verbose
    BY <1>1, <2>1
  <2> QED BY <1>2, <1>3, <2>2
<1> QED BY <1>4, <1>5, <1>6 DEF t

\* What a selection says, as what is set and what comes first.
LEMMA FeatureEffect ==
  ASSUME config \in Configs, NEW a \in Arguments, Says(a, config, config'), a.name = "verbose"
  PROVE  \/ a \in ClearsSet /\ config'.verboseFeatures = {} /\ config'.firstVerboseFeature = ""
         \/ /\ a \in VerboseSet
            /\ config'.firstVerboseFeature \in VerboseFeatures
            /\ \A f \in VerboseFeatures :
                 /\ f \in config'.verboseFeatures <=> f \in config.verboseFeatures \/ a \in SelectsSet(f)
                 /\ config'.firstVerboseFeature = f
                    <=> IF config.firstVerboseFeature = "" THEN a \in StartsSet(f) ELSE config.firstVerboseFeature = f
<1>0. a.values \in Seq(Words) /\ config.firstVerboseFeature \in VerboseFeatures \cup {""}
  BY ArgumentsAssumption DEF Configs
<1>1. a \in Named({"verbose"})
  BY DEF Named
<1>2. CASE a.values = <<"none">> /\ config'.verboseFeatures = {} /\ config'.firstVerboseFeature = ""
  BY <1>1, <1>2 DEF ClearsSet, NamedAs
<1> DEFINE Effect(features, first) ==
             /\ a \in VerboseSet /\ Selected(config, config', features, first) /\ first \in VerboseFeatures
             /\ \A f \in VerboseFeatures : /\ f \in features <=> a \in SelectsSet(f)
                                           /\ first = f <=> a \in StartsSet(f)
<1>3. CASE a.values = <<>> /\ Selected(config, config', DefaultFeatures, "Preprocessor")
  <2>1. a \in VerboseSet
    BY <1>1, <1>3 DEF VerboseSet, ClearsSet, NamedAs
  <2>2. "Preprocessor" \in VerboseFeatures
    BY FeaturesNamed
  <2>3. Elements(a.values) = {} /\ <<>> # <<"all">>
    BY <1>3 DEF Elements
  <2>4. \A f : a \in SelectsSet(f) <=> f \in DefaultFeatures
    BY <1>1, <1>3, <2>3 DEF SelectsSet
  <2>5. \A f : a \in StartsSet(f) <=> f = "Preprocessor"
    BY <1>1, <1>3 DEF StartsSet
  <2>6. Effect(DefaultFeatures, "Preprocessor")
    BY <1>3, <2>1, <2>2, <2>4, <2>5
  <2> QED BY <1>0, <2>6, FeaturesNamed DEF Selected
<1>4. CASE a.values = <<"all">> /\ Selected(config, config', VerboseFeatures, "Preprocessor")
  <2>1. a \in VerboseSet
    BY <1>1, <1>4 DEF VerboseSet, ClearsSet, NamedAs
  <2>2. "Preprocessor" \in VerboseFeatures /\ "all" \notin VerboseFeatures
    BY FeaturesNamed
  <2>4. \A f \in VerboseFeatures : a \in SelectsSet(f)
    BY <1>1, <1>4 DEF SelectsSet
  <2>3. a.values[1] = "all" /\ a.values # <<>>
    BY <1>4
  <2>5. \A f \in VerboseFeatures : a \in StartsSet(f) <=> f = "Preprocessor"
    <3>1. \A f \in VerboseFeatures : a.values[1] # f
      BY <2>2, <2>3
    <3> QED BY <1>1, <1>4, <3>1 DEF StartsSet
  <2>6. Effect(VerboseFeatures, "Preprocessor")
    BY <1>4, <2>1, <2>2, <2>4, <2>5
  <2> QED BY <1>0, <2>6, FeaturesNamed DEF Selected
<1>5. CASE /\ a.values # <<>> /\ Elements(a.values) \subseteq VerboseFeatures
           /\ Selected(config, config', Elements(a.values), a.values[1])
  <2>0. a.values[1] \in VerboseFeatures /\ a.values[1] \in Elements(a.values)
    BY <1>0, <1>5, FirstWord
  <2>1. a.values \notin {<<"none">>, <<"all">>}
    <3>1. a.values[1] \notin {"none", "all"}
      BY <2>0, FeaturesNamed
    <3> QED BY <3>1
  <2>2. a \in VerboseSet
    BY <1>1, <2>1 DEF VerboseSet, ClearsSet, NamedAs
  <2>4. \A f : a \in SelectsSet(f) <=> f \in Elements(a.values)
    BY <1>1, <1>5, <2>1 DEF SelectsSet
  <2>5. \A f : a \in StartsSet(f) <=> f = a.values[1]
    BY <1>1, <1>5, <2>1 DEF StartsSet
  <2>6. Effect(Elements(a.values), a.values[1])
    BY <1>5, <2>0, <2>2, <2>4, <2>5
  <2> QED BY <1>0, <2>6, FeaturesNamed DEF Selected
<1> QED BY <1>2, <1>3, <1>4, <1>5 DEF Says

\* In the middle of a command line the features are what its arguments say,
\* and none is first when none was selected since the last clearing.
FeaturesStand ==
    /\ \A f \in VerboseFeatures : FeatureDecided(f)
    /\ config.firstVerboseFeature = "" <=> NothingSelected

LEMMA FeaturesStandWhere ==
  ASSUME arguments \in Seq(Arguments)
  PROVE  FeaturesStand <=>
           /\ \A f \in VerboseFeatures :
                /\ phase = "Parsing" =>
                     (f \in config.verboseFeatures <=> LastIn(arguments, SelectsSet(f), ClearsSet))
                /\ config.firstVerboseFeature = f <=> FirstIn(arguments, f)
           /\ config.firstVerboseFeature = "" <=> NoneIn(arguments)
<1>1. \A f : FirstSelected(f) <=> FirstIn(arguments, f)
  BY FeaturesWhere DEF FirstSelected, FirstIn
<1>2. NothingSelected <=> NoneIn(arguments)
  BY FeaturesWhere DEF NothingSelected, NoneIn
<1>3. \A f : Stands(Selects(f), Clears) <=> LastIn(arguments, SelectsSet(f), ClearsSet)
  BY FeaturesWhere DEF LastIn
<1> QED BY <1>1, <1>2, <1>3 DEF FeaturesStand, FeatureDecided

LEMMA FeaturesStandNext ==
  ASSUME arguments' \in Seq(Arguments)
  PROVE  FeaturesStand' <=>
           /\ \A f \in VerboseFeatures :
                /\ phase' = "Parsing" =>
                     (f \in config'.verboseFeatures <=> LastIn(arguments', SelectsSet(f), ClearsSet))
                /\ config'.firstVerboseFeature = f <=> FirstIn(arguments', f)
           /\ config'.firstVerboseFeature = "" <=> NoneIn(arguments')
<1>1. \A f : FirstSelected(f)' <=> FirstIn(arguments', f)
  BY FeaturesNext DEF FirstSelected, FirstIn
<1>2. NothingSelected' <=> NoneIn(arguments')
  BY FeaturesNext DEF NothingSelected, NoneIn
<1>3. \A f : Stands(Selects(f), Clears)' <=> LastIn(arguments', SelectsSet(f), ClearsSet)
  BY FeaturesNext DEF LastIn, Stands
<1> QED BY <1>1, <1>2, <1>3 DEF FeaturesStand, FeatureDecided

LEMMA FeaturesKept ==
  ASSUME config \in Configs, arguments \in Seq(Arguments), NEW a \in Arguments, Accepted(a, config'),
         Leaves(a, config, config'), Says(a, config, config'), phase = "Parsing", FeaturesStand
  PROVE  FeaturesStand'
<1>1. arguments' = Append(arguments, a) /\ arguments' \in Seq(Arguments) /\ phase' = "Parsing"
  BY OneMore DEF Accepted
<1>2. /\ \A f \in VerboseFeatures : /\ f \in config.verboseFeatures <=> LastIn(arguments, SelectsSet(f), ClearsSet)
                                    /\ config.firstVerboseFeature = f <=> FirstIn(arguments, f)
      /\ config.firstVerboseFeature = "" <=> NoneIn(arguments)
  BY FeaturesStandWhere
<1>3. "" \notin VerboseFeatures
  BY FeaturesNamed
<1>4. \A f : LastIn(arguments', SelectsSet(f), ClearsSet)
             <=> a \notin ClearsSet /\ (a \in SelectsSet(f) \/ LastIn(arguments, SelectsSet(f), ClearsSet))
  BY <1>1, LastWord
<1>5. \A f : /\ a \in ClearsSet => NoneIn(arguments') /\ ~FirstIn(arguments', f)
             /\ a \in VerboseSet =>
                  /\ ~NoneIn(arguments')
                  /\ FirstIn(arguments', f) <=> FirstIn(arguments, f) \/ (NoneIn(arguments) /\ a \in StartsSet(f))
             /\ a.name # "verbose" => /\ NoneIn(arguments') <=> NoneIn(arguments)
                                      /\ FirstIn(arguments', f) <=> FirstIn(arguments, f)
  BY <1>1, FirstWordOf
<1>6. SUFFICES /\ \A f \in VerboseFeatures :
                    /\ f \in config'.verboseFeatures <=> LastIn(arguments', SelectsSet(f), ClearsSet)
                    /\ config'.firstVerboseFeature = f <=> FirstIn(arguments', f)
               /\ config'.firstVerboseFeature = "" <=> NoneIn(arguments')
  BY <1>1, FeaturesStandNext
<1>7. CASE a.name # "verbose"
  <2>1. config'.verboseFeatures = config.verboseFeatures /\ config'.firstVerboseFeature = config.firstVerboseFeature
    BY <1>7 DEF Leaves
  <2>2. a \notin ClearsSet /\ \A f : a \notin SelectsSet(f)
    BY <1>7 DEF ClearsSet, SelectsSet, Named, NamedAs
  <2> QED BY <1>2, <1>4, <1>5, <1>7, <2>1, <2>2
<1>8. CASE a.name = "verbose" /\ a \in ClearsSet /\ config'.verboseFeatures = {} /\ config'.firstVerboseFeature = ""
  BY <1>3, <1>4, <1>5, <1>8
<1>9. ASSUME a.name = "verbose", a \in VerboseSet, config'.firstVerboseFeature \in VerboseFeatures,
             \A f \in VerboseFeatures :
               /\ f \in config'.verboseFeatures <=> f \in config.verboseFeatures \/ a \in SelectsSet(f)
               /\ config'.firstVerboseFeature = f
                  <=> IF config.firstVerboseFeature = "" THEN a \in StartsSet(f) ELSE config.firstVerboseFeature = f
      PROVE /\ \A f \in VerboseFeatures :
                 /\ f \in config'.verboseFeatures <=> LastIn(arguments', SelectsSet(f), ClearsSet)
                 /\ config'.firstVerboseFeature = f <=> FirstIn(arguments', f)
            /\ config'.firstVerboseFeature = "" <=> NoneIn(arguments')
  <2>1. a \notin ClearsSet
    BY <1>9 DEF VerboseSet
  <2>2. \A f \in VerboseFeatures : f \in config'.verboseFeatures <=> LastIn(arguments', SelectsSet(f), ClearsSet)
    BY <1>2, <1>4, <1>9, <2>1
  <2>3. \A f \in VerboseFeatures : config'.firstVerboseFeature = f <=> FirstIn(arguments', f)
    BY <1>2, <1>3, <1>5, <1>9
  <2>4. config'.firstVerboseFeature = "" <=> NoneIn(arguments')
    BY <1>3, <1>5, <1>9
  <2> QED BY <2>2, <2>3, <2>4
<1> QED BY <1>7, <1>8, <1>9, FeatureEffect

-----------------------------------------------------------------------------
(* The configuration. *)

LastInv == LastDecides /\ FeaturesStand

LEMMA NothingSaid ==
  ASSUME Init
  PROVE  LastInv
<1>1. /\ arguments = <<>> /\ config = HostDefaults
      /\ \A names : Said(names) = {}
      /\ \A name, values : SaidAs(name, values) = {}
  <2>1. arguments = <<>> /\ config = HostDefaults
    BY DEF Init
  <2>2. DOMAIN arguments = {}
    BY <2>1
  <2>3. \A names : Said(names) = {}
    BY <2>2 DEF Said
  <2> QED BY <2>1, <2>3 DEF SaidAs
<1>2. /\ config.warningsAreErrors = FALSE /\ config.optimisations = {} /\ config.target.extensions = {}
      /\ config.verboseFeatures = {} /\ config.firstVerboseFeature = ""
  BY <1>1 DEF HostDefaults, Target
<1>3. ~Stands({}, {}) /\ \A default : Decided({}, {}, default) <=> default
  BY DEF Stands, Decided
<1>4. WarningsDecided
  BY <1>1, <1>2 DEF WarningsDecided, Stands
<1>5. ASSUME NEW o PROVE OptimisationDecided(o)
  BY <1>1, <1>2 DEF OptimisationDecided, Stands
<1>6. ASSUME NEW field, NEW value PROVE TargetDecided(field, value)
  <2>1. SaysTarget(field) = {} /\ SaysTargetIs(field, value) = {}
    BY <1>1 DEF SaysTarget, SaysTargetIs, Complete
  <2> QED BY <1>1, <2>1 DEF TargetDecided, Decided, Stands
<1>7. ASSUME NEW bit PROVE ExtensionDecided(bit)
  BY <1>1, <1>2 DEF ExtensionDecided, Stands
<1>8. ASSUME NEW linker PROVE LinkerDecided(linker)
  BY <1>1 DEF LinkerDecided, Decided, Stands
<1>9. FeaturesStand
  <2>1. ASSUME NEW f \in VerboseFeatures PROVE FeatureDecided(f)
    <3>1. Selects(f) = {} /\ StartsWith(f) = {} /\ f # ""
      BY <1>1, FeaturesNamed DEF Selects, StartsWith
    <3> QED BY <1>2, <3>1 DEF FeatureDecided, FirstSelected, Stands
  <2>2. NothingSelected
    BY <1>1 DEF NothingSelected
  <2> QED BY <1>2, <2>1, <2>2 DEF FeaturesStand
<1> QED BY <1>4, <1>5, <1>6, <1>7, <1>8, <1>9 DEF LastInv, LastDecides, FeaturesStand

\* An argument that is taken.
LEMMA TakenKeeps ==
  ASSUME IInv, LastInv, phase = "Parsing", NEW a \in Arguments, Accepted(a, config'), config' \in Configs,
         Leaves(a, config, config'), Says(a, config, config')
  PROVE  LastInv'
<1>1. arguments \in Seq(Arguments) /\ config \in Configs
  BY DEF IInv, TypeOK
<1>2. WarningsDecided'
  <2>1. config.warningsAreErrors \in BOOLEAN /\ config'.warningsAreErrors \in BOOLEAN
    BY <1>1 DEF Configs
  <2> QED BY <1>1, <2>1, WarningsKept DEF LastInv, LastDecides
<1>3. \A o \in Optimisations : OptimisationDecided(o)'
  BY <1>1, OptimisationKept DEF LastInv, LastDecides
<1>4. /\ \A value \in ISAs : TargetDecided("isa", value)'
      /\ \A value \in Platforms : TargetDecided("platform", value)'
      /\ \A value \in SDKs : TargetDecided("sdk", value)'
      /\ \A value \in MicroArchs : TargetDecided("cpu", value)'
  <2>1. \A field \in {"isa", "platform", "sdk", "cpu"} : \A value :
          TargetDecided(field, value) => TargetDecided(field, value)'
    BY <1>1, TargetKept
  <2> QED BY <2>1 DEF LastInv, LastDecides
<1>5. \A bit \in DOMAIN X86Extensions : ExtensionDecided(bit)'
  BY <1>1, ExtensionKept DEF LastInv, LastDecides
<1>6. \A linker \in Linkers : LinkerDecided(linker)'
  BY <1>1, LinkerKept DEF LastInv, LastDecides
<1>7. FeaturesStand'
  BY <1>1, FeaturesKept DEF LastInv
<1> QED BY <1>2, <1>3, <1>4, <1>5, <1>6, <1>7 DEF LastInv, LastDecides, FeaturesStand

\* A step that takes none, and after which the command line is over or the
\* features are as they were.
LEMMA OthersKeep ==
  ASSUME LastInv, arguments' = arguments,
         config'.warningsAreErrors = config.warningsAreErrors, config'.optimisations = config.optimisations,
         config'.target = config.target, config'.linker = config.linker,
         config'.firstVerboseFeature = config.firstVerboseFeature,
         phase' # "Parsing" \/ (phase = "Parsing" /\ config'.verboseFeatures = config.verboseFeatures)
  PROVE  LastInv'
<1>1. /\ \A names : Said(names)' = Said(names)
      /\ \A name, values : SaidAs(name, values)' = SaidAs(name, values)
  BY DEF Said, SaidAs
<1>2. WarningsDecided'
  BY <1>1 DEF LastInv, LastDecides, WarningsDecided, Stands
<1>3. ASSUME NEW o \in Optimisations PROVE OptimisationDecided(o)'
  <2>1. OptimisationDecided(o)
    BY DEF LastInv, LastDecides
  <2> QED BY <1>1, <2>1 DEF OptimisationDecided, Stands
<1>4. ASSUME NEW field, NEW value, TargetDecided(field, value) PROVE TargetDecided(field, value)'
  <2>1. SaysTarget(field)' = SaysTarget(field)
    BY <1>1 DEF SaysTarget, Complete
  <2>2. SaysTargetIs(field, value)' = SaysTargetIs(field, value)
    BY <2>1 DEF SaysTargetIs
  <2> QED BY <1>4, <2>1, <2>2 DEF TargetDecided, Decided, Stands
<1>5. ASSUME NEW bit \in DOMAIN X86Extensions PROVE ExtensionDecided(bit)'
  <2>1. ExtensionDecided(bit)
    BY DEF LastInv, LastDecides
  <2> QED BY <1>1, <2>1 DEF ExtensionDecided, Stands, Complete
<1>6. ASSUME NEW linker \in Linkers PROVE LinkerDecided(linker)'
  <2>1. LinkerDecided(linker)
    BY DEF LastInv, LastDecides
  <2> QED BY <1>1, <2>1 DEF LinkerDecided, Decided, Stands
<1>7. FeaturesStand'
  <2>1. Clears' = Clears
    BY <1>1 DEF Clears
  <2>2. NothingSelected' <=> NothingSelected
    BY <1>1, <2>1 DEF NothingSelected
  <2>3. ASSUME NEW f \in VerboseFeatures PROVE FeatureDecided(f)'
    <3>1. Selects(f)' = Selects(f) /\ StartsWith(f)' = StartsWith(f)
      BY <1>1 DEF Selects, StartsWith
    <3>2. FirstSelected(f)' <=> FirstSelected(f)
      BY <1>1, <2>1, <3>1 DEF FirstSelected
    <3>3. Stands(Selects(f), Clears)' <=> Stands(Selects(f), Clears)
      BY <2>1, <3>1 DEF Stands
    <3>4. FeatureDecided(f)
      BY DEF LastInv, FeaturesStand
    <3> QED BY <3>2, <3>3, <3>4 DEF FeatureDecided
  <2> QED BY <2>2, <2>3 DEF LastInv, FeaturesStand
<1> QED BY <1>2, <1>3, <1>4, <1>5, <1>6, <1>7 DEF LastInv, LastDecides, FeaturesStand

(* Whatever the arguments, however many and in whatever order: the          *)
(* configuration is what the last of them to speak about a thing says.      *)
THEOREM TheLastDecides == Spec => []LastDecides
<1>1. Init => LastInv
  BY NothingSaid
<1>2. IInv /\ LastInv /\ [Next]_vars => LastInv'
  <2> SUFFICES ASSUME IInv, LastInv, [Next]_vars PROVE LastInv'
    OBVIOUS
  <2>0. config \in Configs /\ config' \in Configs
    <3>1. IInv'
      BY CommandLineKeeps, PreparationKeeps, StagesKeep, EndingKeeps, ThrowingKeeps, NothingKeeps
         DEF Next, Finish
    <3> QED BY <3>1 DEF IInv, TypeOK
  <2>1. CASE TakeArgument
    <3>1. PICK a \in Arguments : Taken(a)
      BY <2>1 DEF TakeArgument
    <3>2. CASE Refused
      BY <3>2, OthersKeep DEF Refused
    <3>3. CASE Accepted(a, config') /\ Leaves(a, config, config') /\ Says(a, config, config')
      BY <2>0, <2>1, <3>3, TakenKeeps DEF TakeArgument
    <3> QED BY <2>0, <3>1, <3>2, <3>3, TakenEffect
  <2>2. CASE EndOfCommandLine
    <3>1. CASE config' = config /\ phase' = "Over" /\ arguments' = arguments
      BY <3>1, OthersKeep
    <3>2. CASE /\ phase' = "Sources" /\ arguments' = arguments
               /\ config' = ConfigureOutputDefaults(ResolveDumpMode(config))
               /\ ~(config.dumpToFile /\ ~DumpModeValid(config))
      <4>1. /\ config'.warningsAreErrors = config.warningsAreErrors /\ config'.optimisations = config.optimisations
            /\ config'.target = config.target /\ config'.linker = config.linker
            /\ config'.firstVerboseFeature = config.firstVerboseFeature
        BY <2>0, <3>2, EndEffect
      <4> QED BY <3>2, <4>1, OthersKeep
    <3> QED BY <2>2, <3>1, <3>2 DEF EndOfCommandLine, Over
  <2>3. CASE \/ ReadSources \/ SelectTarget \/ OpenDumpFile \/ CompleteStage \/ StageThrows \/ FilesDone
             \/ SelectAndLink \/ WriteOutput \/ ReportAndDebug \/ MainThrows
    <3>1. arguments' = arguments /\ config' = config /\ phase' # "Parsing"
      BY <2>3 DEF ReadSources, SelectTarget, OpenDumpFile, CompleteStage, StageThrows, FilesDone, SelectAndLink,
                  WriteOutput, ReportAndDebug, MainThrows, Over
    <3> QED BY <3>1, OthersKeep
  <2>4. CASE UNCHANGED vars
    <3>1. arguments' = arguments /\ config' = config /\ phase' = phase
      BY <2>4 DEF vars
    <3> QED BY <3>1, OthersKeep
  <2> QED BY <2>1, <2>2, <2>3, <2>4 DEF Next, Finish
<1>3. LastInv => LastDecides
  BY DEF LastInv
<1> QED BY <1>1, <1>2, <1>3, RunsInvariant, PTL DEF Spec
=============================================================================
