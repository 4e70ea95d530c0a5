# A TLA+ development of the ECPPS compiler

ECPPS compiles a dialect of C++ to x86-64 object files and executables. These modules model the
parts of it whose correctness is hard to test: the path of an expression and of a statement from
the syntax tree to virtual instructions; register allocation and the encoder, which keeps several
tables in step, gives registers away on what it believes is the last use of a value and computes
values long after they were written down; the byte encodings; the way from encoded routines to
a file, checked by executing the bytes of the file; and the driver around it all, from the command
line to the way a run ends.

Paths below are relative to `src/compiler/ecpps/src`; *Core* is
`Machine/Encoders/Backends/x86_64/Core`.

## The system

A run of the compiler (`cli/main.cpp`) takes each source file through the phases in order, one
thread, no phase overlapping another. What can go wrong is therefore not interleaving of threads
but long protocols between objects that share state: who owns a register, how many readers a value
has left, which of two maps is stale.

| Component | State | Operations | What is hard, what makes it correct |
|---|---|---|---|
| Driver `cli/main.cpp`, `Shared/Config.cpp` | one configuration and one emitter for all files, string table, function table, diagnostics | options, presets and defaults; target selection; file iteration, link, write | options that set, add and reset the same things in any order; a run that ends early must say so; state shared by files |
| Preprocessor `Parsing/Preprocessor.cpp`, `SourceMap` | macro table, conditional stack, include stack | directives, expansion | nesting, recursion of macros, mapping back to lines |
| Tokeniser, Parser `Parsing/*` | position, speculation points | scan, parse, rewind | rewinding after a failed guess |
| Semantic analysis `Execution/IR*.cpp`, `Context.h` | scopes, entities, current function | one handler per AST node | lookups, conversions, overloads |
| Class layout `Execution/ClassInitialisation.cpp` | offsets, bases | layout, initialisation order | alignment, order |
| Expressions `Execution/IR.Expressions.cpp`, `TypeSystem/` | none: a syntax tree goes in, a typed tree comes out | one function per operator, conversions | promotions, scaled pointer offsets, who inserts which conversion |
| Lowering `Execution/IR.Lowering.cpp` | SSA nodes built, register counter, use count per register | one branch per kind of typed node | order of evaluation, the storage an assignment reaches, the extension a conversion needs |
| Code generation `CodeGeneration/PseudoAssembly.cpp` | allocation map of SSA registers, use counts, pending comparison, labels | one handler per SSA node, `FinaliseControlFlow` | a comparison kept back for its branch; a register given up before its last reader; jump threading |
| **Encoder** *Core* `encoder.cpp`, `Instructions/` | allocator, virtual register map (value and materialisation of each register), use counts and sites, evicted and evictable sets, locks, blocks | one encoder and one materialiser per instruction, `EnsureMaterialisation`, `EvictOne`, `TransferRegister`, `BeginBlock`, `FlushLiveOut` | everything below |
| **Physical register allocator** *Core* `encoder.h`, `MemoryOperations.h` | two inverse maps, preference, reservations, guards | `Allocate`, `Free`, `Reassign`, guards | two maps updated apart; eviction inside an allocation |
| **Liveness** *Core* `encoder.cpp` | sets per block | sweeps to a fixed point | order of visits, termination |
| Frame layout *Core* `Finalise`, `InsertPrologue` | slots, saved registers, reserves | `EnsureStackSlot`, `OutgoingSlot`, `Finalise` | slots are handed out before the size of the frame is known; the sum of frame, saved registers and return address must keep the stack aligned |
| Memory instructions *Core* `AddressOf`, `Indirect`, `Zero`, `MemoryOperations` | guards over registers, cursors | address of, load, store, fill, copy | a block is moved by overlapping words or a loop that advances its own pointers; who still owns a pointer that was taken |
| Emitter `CodeGeneration/Emitters/x86_64` | byte buffer; calls, jumps, labels and strings to patch | one encoding function per form, `EmitInstruction`, `PatchCalls`, `PatchJumps` | encodings that mean something else for some registers; patches counted from the right place, in a buffer that outlives routines and files |
| Linkers `Linker/*` | symbols, sections, imports, exports | add, import, relocate, write | offsets computed in one loop and written in another, over unordered maps; relative addresses |
| Containers `utilitieslib`, `Shared/BumpAllocator.cpp` | buffers | insert, grow, release | exceptions in the middle; capacity limits |
| Debugger, file system, diagnostics | operating system handles, text | | pure I/O and formatting, not modelled |

### How the encoder works

`Encode` cuts a function's virtual instructions into basic blocks, finds which virtual registers
are live at the edges, and encodes block by block. An instruction is *encoded* by materialising
its operands and recording what its destination **will** be (`Redefine`); the value is computed
only when something needs it (`EnsureMaterialisation`), or at once if the destination or an operand
is a variable. A physical register is obtained from the allocator; when none is free, the exhaustion
handler evicts the register whose next use is furthest (`EvictOne`), storing it to its slot unless
its uses are spent. A temporary read for the last time hands its register over to the result
(`TransferRegister`). `PassArgument` places an argument in the register of its position and locks
it: nothing owns it, only the lock protects it until the call. At the end of a block
everything live is stored (`FlushLiveOut`), and the next block starts from slots alone
(`BeginBlock`).

So one wrong use count, one forgotten set insertion, one eviction of a register already named in
an emitted instruction, gives wrong code in a function nobody wrote a test for. The tests of the
repository (`src/testing/compiler/tests`) compile and run whole programs; none exercises the
encoder's tables directly, and with 13 registers they seldom run out of them.

## Modules

| Module | Models | 
|---|---|
| `PhysicalRegisterAllocator` | the table of physical registers with its clients: virtual registers, locks, `ScratchRegister` guards |
| `PhysicalRegisterAllocator_proofs` | theorems about it |
| `LivePaths` | what *live* means, by paths: the abstract specification of the next module |
| `ComputeLiveness` | the sweeps of `ComputeLiveness` |
| `ComputeLiveness_proofs` | theorems about it |
| `Induction` | induction over the natural numbers, for proofs about functions defined by recursion |
| `EncoderState` | virtual instructions, `BuildControlFlowGraph`, `DestinationOf`, `SourceRegistersOf`, live sets (by `LivePaths`); the encoder's tables as a record and the small operations handlers are written with: one operator per method |
| `EncoderHandlers` | `EncoderImplementation` and `MaterialisationImplementation`, one operator per instruction |
| `EncoderSemantics` | what virtual instructions mean and what the emitted instructions do to registers, slots and memory (no code of the repository: the x86-64 side is what the emitted instructions rely on) |
| `Encoder` | `Encode`, `BeginBlock`, `EncodeSingle`, `FlushLiveOut`: the actions, run beside both meanings; the properties |
| `MCEncoder` | the instance of it: small sets of registers, and what the lowering may append next (`Straight`, `Looping`, ... ) |
| `Encoder_proofs` | theorems about its tables |
| `StatementSemantics` | what statements mean: where control goes in a body as it is written (abstract specification); condition codes and when they hold |
| `FinaliseControlFlow` | labels and jumps of virtual code; the clean-up of jumps: one pass with `OptimiseDeadJumps`, and the removal without |
| `Statements` | the statement handlers of `Execution/IR.Statements.cpp`, `ParsingContext::ParseNode` for what they write, `Invert`, `CompileRoutine`; where code goes |
| `Statements_proofs` | theorems about the three |
| `Expressions` | the types of expressions, `PromoteInteger`, `CommonWith`, the conversion a `ConvertNode` becomes; the functions of `Execution/IR.Expressions.cpp` and `ConvertTo`: syntax trees to typed trees |
| `LowerExpression` | `LowerExpression` and the statements around it: typed trees to SSA nodes |
| `SsaLowering` | `ParsingContext::ParseNode`, one action per SSA node and one per operator node: `AllocationMap`, use counts, the pending comparison, failing lookups |
| `SsaLowering_proofs` | theorems about it |
| `ExpressionMeaning` | what expressions mean in C++ (abstract specification), and a machine that runs virtual instructions |
| `CompileExpression` | the three together: a statement from its tree to virtual instructions, against its meaning |
| `Opcodes` | the byte encoders of `Opcodes.cpp` that exist once per width |
| `MemoryOpcodes` | those that take the width as a parameter and a `Memory` structure |
| `X86Decoder` | the instruction set, after the processor manuals (external): bytes to an instruction |
| `Operations` | `EmitInstruction` and the functions of `operations/`: a physical instruction to bytes |
| `Encoding` | every call of an encoder, with the instructions its bytes may be |
| `Frame` | slots, outgoing arguments, `Finalise`, prologue and epilogue |
| `Frame_proofs` | theorems about the slots and the finished frame |
| `Emission` | the emitter: a routine to bytes, the notes it takes and the patches it makes of them |
| `Coff` | `CoffLinker`: an object file |
| `PortableExecutable` | `WindowsLinker` and `PEImage`: an executable, its directories of exports and imports |
| `Words` | words of bytes; a file as items at offsets, which overwriting destroys |
| `Machine` | the linker and loader that complete an object file, the processor that executes the image, and library functions (external) |
| `Routines` | what the back end promises (abstract specification): routines executed instruction by instruction, without a stack, code or files |
| `Build` | the back half of `DoFileIteration` in `cli/main.cpp`, and the link: the actions |
| `Execution` | the built program loaded and executed; the refinement of `Routines`; the properties |
| `Driver` | `Shared/Config.cpp` and `cli/main.cpp` around the stages: the command line, the target, the source files, the dump, linking and writing as far as they fail |
| `Driver_proofs` | theorems about it |
| `MC...` | instances for TLC |

Correspondence of the state. A map of the code that may lack a key is a total function with the
value `None`. The encoder is one record `e` whose fields are named in `EncoderState`: `occupancy`
and `colour` are `_occupancy` and `_colourOf`, `uses` is `_remainingUses`, `sites` is `_useSites`,
`mat` and `val` the two states of the virtual register map, `err` the first assertion that failed.
A handler is an operator from record to record that follows the order of the C++ statements, since
the order of a consumption, an allocation and an emission decides which register is free. An
instruction's code goes to `code`, evictions made inside an allocation to `spills`, which is put
in front as `_pendingSpills` is. Widths are reduced to two: a register holds a number below
`Modulus`, an extension starts from the part below `Narrow`. Virtual indices, labels and immediates
are small numbers.

The processor `m` executes the code of each step as it is emitted, and `ref` executes the virtual
instruction; calls, returns and branches append what the outside sees to `seen`, so that
`SameObservations` is an end-to-end statement of correctness. At the beginning of a later block
`m` holds junk except what the encoder promised to every predecessor, so that
each block is checked for any path into it.

`Statements` grows a function body token by token. The recursion of `ParseNode` over a statement's
body is cut there: an open statement is a frame with the labels its handler made, `jumpStack` is
`_jumpStack`, `built` the list of nodes. `CompileRoutine` folds `ParseNode` of the back end over the
nodes, as its loop does, and each pass of `FinaliseControlFlow` is a step. A label is its name, where
the code numbers names in `labelIds`. `SameBehaviour` compares the first operation reached from the
beginning and from each operation on, for every outcome of the conditions: between two operations
nothing changes, so each condition has one outcome there.

`SsaLowering` walks the nodes of a routine, one node a step. `useCount` is the count
`CreateReferenceMap` takes before the walk; `window`, `ssaByVirtual` and `descriptors` are the three
vectors of `AllocationMap` (virtual registers from 1, 0 for `InvalidIndex`); `pendingCompare` is the
node of the comparison that waits for its branch. A lookup (`Source`) that fails is the exception
`ParseNode` catches: it reports *See earlier diagnostics*, keeps what the handler had done and goes
on, so that a mistake in the counts would show as a message about a mistake of the user's.
`CreateReferenceMap` lists the operands of every node a second time, away from the handlers; the
module keeps the two lists apart (`Counted` and `ReadsOf`) as the code does.

`Driver` takes the command line one argument a step: one action per option, with its check of the
value, its presets and what it sets or resets; then `EndOfCommandLine`, `ReadSources`,
`SelectTarget`, `OpenDumpFile`, a step per stage of a source file, `SelectAndLink`, `WriteOutput` and
`ReportAndDebug`. All of `main` is in one `try`, so an exception is an action of its own,
`MainThrows`, possible in every phase: the linkers, paths, the debugger and printing throw, before
the file is written and after. Within a stage it is `StageThrows`, which also prints. What a stage reports,
what throws and whether a file can be read or written is open, so the
module speaks about every program and every environment. It and `Build` model the same loop over
files for two questions: here, when it stops and what it says; there, what is in the file.

`Expressions` and `LowerExpression` are functions, as the code's are: they keep no state but the
nodes built and the next register. A syntax tree is a record of an operator and its operands; a
typed tree has a node, a type and a value category. `CompileExpression` starts the walk with the
nodes the two make of a statement (`return e;`, `e;`, `if (e) return 1; return 0;`) in a function
whose parameters are the variables. Where the walk has ended with nothing reported, `ValuePreserved`
runs the virtual instructions on a byte-addressed memory and compares the value returned, the memory
left and the calls made with the meaning of the tree. That is the refinement the front end owes: the
abstract specification is the C++ meaning, written from the language's own rules in
`ExpressionMeaning`, and nothing of the repository is in it. A meaning that is undefined or
unspecified in C++ (overflow, conflicting operands without an order, pointers that leave their
object) promises nothing.

Memory in the encoder's runs has bytes of one bit, so that a word of eight bytes is a value below
`Modulus` and slots, arrays and pointers are real addresses (`Address`): the variables a word each,
then the objects wider than a register (`Large`, sizes in `ObjectSize`), then the data of string
tables. Both sides keep the words of the variables and of the objects; a move has a width in bytes,
may be unaligned and may straddle two words. A guard is an owner from `Guards`
(`NextScratchOwner`); what C++ destroys at the end of a handler's scope is `DestroyGuards` at the end
of the operator. The loop `EmitMemoryBlock` emits is executed as a loop, label and `jne` included.

`Encoding` has one step: a call, that is the pair of bytes and possible meanings. Immediates and
words are sequences of bytes, since TLC's integers have 32 bits.

`Build` goes through the stages of `cli/main.cpp`. `CompileUnit` gives the routines of a file their
slots (`EnsureStackSlot` in the order of need), strings and frames (`Finalise`); `EmitRoutineNext`
emits one routine and patches it; `FinishUnit` is what `DoFileIteration` does behind the
loop, among it the assignment of the string section; `LinkCoff` and `LinkPe` are `SelectAndLink`. The
variables have the names of the code: `generatedMachineCode`, `functions`, `mainOffset`, `stringArray`,
the emitter's notes in the record `emitter`. `layouts` is history: which frame and code a routine got.
`Execution` then loads the file through its own pointers (`LoadObject` completes an object file
by relocations, `LoadExecutable` maps an executable), and executes it byte by byte
(`ExecuteInstruction`, decoded by `X86Decoder`; `LibraryFunction` returns any of `LibraryResults` and
overwrites what a callee may). `sites`, `last`, `frames` and `events` are history: the routine's
instruction at an address, the activations and the calls seen.

The refinement `Abstract == INSTANCE Routines WITH ...` maps the machine back: `Position` from the
instruction pointer, `Registers` (on the way out of a routine the callee-saved ones are those found at
its entry), `Activations` with the contents of variables read from the stack at the places `Finalise`
gave them, `Strings` read from the loaded section. Prologues, epilogues and pushes map to
stutters, every other instruction to the routine's instruction. A wrong displacement, patch,
relocation or saved register breaks a step.

Modules also hold operators marked *Mutant*: plausible mistakes in the code next to the definition
they would replace. Each property of a passing run is known to fail under at least one of them.

## What is checked

| Run | Instance | What it shows |
|---|---|---|
| `allocator` | 3 registers, 3 virtual registers, 2 guards; all interleavings of clients | `MapsAreInverse`, `ScratchIsHeld`, `ScratchIsReturned`, `ReservedStaysVacant` |
| `liveness` | all graphs of 3 blocks, 1 register | `Solved`, `FindsLivePaths`, `Terminates` |
| `functions` | 4 registers; all functions of 2 parameters and 4 instructions (constants with their sign in all bits, loads, stores, `sub`, `shl`, sign extension) plus a return; and functions with 2 instructions (`xor`, `shr` by turns, zero extension), a loop with a comparison and 2 instructions in it, and a return: 633,129 states | `Coherent`, `UsesCoverReaders`, `AllocatorAgrees`, `NoAssertionFails`, `SameObservations`, `LiveOutIsStored` |
| `calls` | 5 registers; 3 instructions, 3 arguments (2 in registers, 1 on the stack), a call with or without result, 1 instruction, with and without spilling of variables; and memory: a fill or an address of a variable or an array of 37 bytes, then 3 instructions on them and a return: 542,304 states | `ArgumentsIntact`, `MemoryAgrees`, `SameObservations` |
| `encoding` | every encoding function and every branch of `EmitInstruction`, registers of every encoding class, displacements and immediates on both sides of each bound: 274,919 states | `DecodesAsMeant` |
| `execution` | 5 programs of 2 or 3 routines in 1 or 2 files, with and without a frame pointer, object file or executable, each unordered map in an order and its reverse: 6,478 states | `BuildSucceeds`, `TextsStand`, `AlignedAtEntries`, `DirectoriesLead`, `RefinesRoutines` |
| `expressions` | every operator over every pair of 4 variables, a number and a string, and the trees of two operators, in 3 statement forms (4,600 programs) | `BodyWellFormed`, `NothingMissing`, `NeverBelowZero`, `AllocationMapAgrees`, `WidthsAgree`, `ValuePreserved` |
| `statements` | all bodies of up to 6 tokens of if, else, while, do, for, break, continue, return, expressions; all bodies of up to 5 tokens with goto, 2 labels, refused conditions, comparisons used as values, breaks anywhere | `SameBehaviour`, `DiagnosedExactly`, `JumpsHaveLabels` |
| `driver` | every command line of up to 3 of 31 arguments, on Windows; every report, an exception in every phase, every failure of files: 354,070 states | `LastDecides`, `OutcomeTells` |
| `unsigned_widening` | `return c;` for an unsigned char | violates `ValuePreserved` |
| `for_continue` | `for` statements with `continue` | violates `SameBehaviour` |
| `shift` | expression trees with a shift among arguments | violates `ArgumentsIntact` |

**Bounds.** The real pool has 13 registers; pools of 4 and 5 make exhaustion, eviction and reloading
happen within four instructions, and every decision of the allocator depends only on which
registers are free, locked and owned. Two parameter registers are enough for one argument to be
disturbed by the next. A pool can honestly be too small: a call with two locked registers, a
destination and two operands needs 5, a loop 4. One register is enough for the liveness of graphs,
since the equations treat registers separately. `Modulus` is 256 and `Narrow` 16, so that an
extension, a complement and a borrow all change bits of a number that is distinguishable from the
others. Operations are taken by turns (`Turn`) in the longer instances: the handlers of `add`,
`and`, `or`, `xor` have the same control flow.

Of the memory family, 37 bytes are beyond the limit of unrolling (`InlineLimit`, 16 here and 128 in
`Platform.h:65`, so that a loop has two rounds and not nine) and leave 5 bytes for an
overlapping word; 13 bytes are unrolled with one; 7 bytes, on a variable, take two overlapping half
words. Three instructions behind the first are enough to take an address, move it by a constant and
read or store through it, or to copy an array out and back through a pointer that is advanced. These
functions are encoded with variables in slots (`Spillages`), for the reason given among the defects below.

`encoding` has one register for each way the encoding treats registers (`MCEncoding`), and the
numbers 127, 128, -128, -129, the ends of 32 bits and those next to them: an encoder decides by
comparing with these. `execution` has few programs, since one is executed to its end byte by byte: every
kind of operand, a frame of more than 127 bytes, variables of 1, 4 and 8 bytes, calls back, forward,
recursive, across files, through the import table, 1 and 2 stack arguments, two texts in one routine.
Library results are 0 and -1, so both sides of the branches on them are taken.

`driver`: three arguments let a second one undo the first and a third one come after both, which
is what `LastDecides` speaks about, and let a file stand beside `/asm` and a stage. The
arguments have one representative for each way an option treats the configuration. The theorems say
the same for command lines of every length and any arguments.

Six tokens hold two loops in one another with a conditional break or an operation between, an if with an
else in a loop, and code after every kind of jump; five hold two gotos and two labels in every
order, hence chains and cycles of jumps and labels in and out of loops. Ten condition codes come by
turns (`MCCodes`), operands of the first comparison compare in all five ways; `InvertNegates` is the
proof for all codes. `MaxPasses` and `MaxHops` have the values of the code.

An expression of two operators has a value that is used and one that is discarded, an lvalue under
an operator and a temporary under an assignment, which are the cases `LowerExpression` tells apart:
deeper trees repeat them. Bytes have 2 bits and the kinds of integers 1, 2, 4, 4 and 8 bytes (so a
char has 2 bits and an int 8), which keeps their order of ranks and sizes, the int narrower than
the pointer difference and the char narrower than the int. The 3 samples of initial values have
negative numbers, the extremes of an int, and pointers to the variable and into the array. About 2,750 of the programs
have a defined meaning on a sample and go through the comparison; about 1,190 are diagnosed (products
of comparisons, `%`, comparisons used as values) and are there for what follows a diagnostic. One body (`MCBodies`) has the nodes no
statement in the instance makes.

**Fairness.** Only `liveness` has a liveness property. `WF_vars(Next)` there says that a
sequential loop goes on; no scheduler is involved. Runs stop where a function has been encoded or
the loop has ended, hence `CHECK_DEADLOCK FALSE`. A behaviour of `encoding` is one
call. `execution` has a step for the end (`Finish`), and deadlock is checked there: a machine that can execute nothing further has gone astray.

**What the passing runs leave out, on purpose.** Defects of the code were met while modelling; the
passing runs avoid the inputs that lead there so that they can speak about everything else. They
contain no products, do not zero-extend constants, sign-extend only constants like those of chars,
whose sign is in all their bits (`Chars`), do not shift between arguments by a register,
have no `continue` in a `for` (`ContinueIn`), no unsigned variables and a text in one file only.
The next sections list what is avoided and why. One limit more: an
argument whose temporary already sits in its argument register keeps owning it after
`PassArgument` (`PassArgument.cpp:131`), and a later last use transfers the locked register to
another result. The lowering of expression trees reads every temporary once, so this takes an
input that reads a temporary again after passing it; arguments in `calls` are roots of their
expressions (`Roots`).

### Three defects with a run

* *Shift between arguments* (`shift`). `f(7, 5 << x)`: 7 is placed in rcx and rcx is locked, then the
  count is moved to rcx, because `IsClobberable` asks whether a register has an owner with uses left
  and a locked argument register has no owner. The function is called with the count in place of 7.
* *Step of a for statement* (`for_continue`). `ParseForStatement` writes the step before the continue
  label, and `continue` jumps to the label: the step is skipped.
* *Widening of an unsigned char* (`unsigned_widening`). `LowerExpression` chooses the extension by the
  type converted to, so that an unsigned char becomes an int by a sign extension, against the comments
  of the enumeration that names the conversions.

### Defects of the driver without a run

* *Texts in two files.* `Compile` assigns the string section of a file to the one configuration of
  the run (`CodeGeneration/PseudoAssembly.cpp:1252`), and the emitter's notes of texts go on: the first
  file's code looks for its text among the second's. `execution` has a text in one file only.
* *Targets.* Only x86-64 under Windows or Linux, with no processor and no extensions named, is registered
  (`Registered` in `Driver`). The examples of the help text `/image:windows-x64 /cpu:haswell` and
  `/extensions:sse4.2,avx2`, and the presets windows-x86 and caosys, are accepted and then end the run as
  an internal error; `/image:windows-x86 /isa:x86_64` gives an x86-64 target with sizes of 4 bytes.
* `/warnings:none` and the names of single warnings change a map nothing else fills or reads.
* When standard output cannot be saved, `/asm` reports success over an empty dump (`StageOutput`); when
  closing the output file fails, the run reports success, since the stream is asked before
  (`WriteOutput`).
* After the file is written the same `try` goes on: making its path absolute (`cli/main.cpp:814`), printing, the
  debugger. What these throw ends the run as an internal error over a complete file (`:834`).

`OutcomeTells` says no more than what these leave true.

### Defects of the encoder without a run

* *Product of a product.* `x * 7 * y`: the temporary for the constant is allocated under the
  result's name; when that temporary is rdx a second register is requested for the same name, which
  the allocator asserts against (`Multiply.cpp:99`). To see it: `MCEncoder` with `MCEncoderFunctions.cfg` and `Pool` of five,
  `Looped = FALSE`, `Trees = TRUE`, `BodyLength = 5`, `StraightOperations = {"mul", "sub"}`.
* *Zero extension of a constant.* An operand that is an immediate is left one, and the
  materialiser of the zero extension then asks for its register (`ZeroExtend.cpp:101`). To see it: the same module with
  `WideLiterals = TRUE`, `BodyLength = 3`, `StraightOperations = {"add"}`, `StraightConversions = {"movzx"}`.
* *Sign extension of a constant.* Its handlers have a branch for constants, but it extends nothing: it passes
  `SignExtendImmediate` eight times the width (`SignExtend.cpp:46`, `:107`), and the width is in
  bits already (`encoder.h:108`), so that every constant counts as one of 64 bits or more (`ExtendedFrom`). A
  constant whose sign is in all its bits is right nevertheless, and that of a character literal is, where the
  compiler's host has a signed char (`Execution/IR.Expressions.cpp:2055`); any other, such as one cut
  to a char by a truncation, which the encoder takes for a copy (`encoder.cpp:591`), counts as
  positive. To see it: `MCEncoderFunctions.cfg` with `WideLiterals = TRUE`, `Looped = FALSE` violates
  `SameObservations` (9, a negative number of 4 bits, stays 9).
* *Address of a variable in a register.* `AddressOf` reserves the slot and takes its address, but stores
  nothing there. With variables in registers (`Moderate` or `Aggressive` spillage, no control
  flow) `int x = 42; int* p = &x; int y = *p;` reads a slot nobody wrote. The test at
  `src/testing/compiler/tests/e2e/test_comprehensive.cpp:187` expects 42 in `y`. To see it: `calls` with
  `"Moderate"` for the memory functions in `MCSpillages`.
* *Address of an evicted variable.* Materialising the address reloads the variable itself into a
  register, as any source of a pending value (`encoder.cpp:1248`); after a store through the pointer,
  `FlushLiveOut` or an eviction writes the stale copy back. The memory functions therefore store to a
  variable by name only after its address was used (`Named`). For an array the
  same reload has no width (`MapWidth` of more than 64 bits) and the emitter throws: arrays indexed
  in a loop.
* *Operands an indirect store takes.* `IndirectStore` moves the pointer's and the value's
  registers to guards, whatever uses they have left; the virtual register map still says they are
  materialised, and a later `Reassign` asserts. `(*p = a) + b` and `y = ++*p` come to this. The memory
  functions read nothing after it was taken (`Usable`, `Final`).
* Parameters on the stack are read from the routine's own frame, at a displacement in bits
  (`CopyParameter.cpp:46`).

### Defects of the emitter, the frame and the linkers

`encoding` leaves these forms out; `DefectiveCalls` has the first:

* `GenerateRegisterCall` has no REX prefix for r8 to r15 (`Opcodes.cpp:1821`; the test at
  `src/testing/compiler/tests/unit/test_x86_64_opcodes.cpp:371` asks only that r11 gives some bytes); `GenerateCwd` and `GenerateCbw` have no operand-size prefix;
* an immediate above the signed and below the unsigned 32-bit limit is stored to memory
  sign-extended, one beyond 32 bits is cut off when subtracted, and one that does not fit
  gives no bytes at all in the logical operations;
* the forms of `imul` that write to memory do not exist: one encoder loads instead;
* `movsx` and `movzx` from memory pass `MemBase` its arguments the wrong way round, to memory from a
  register they call themselves for ever.

Of the frame: `CollectCalleeSavedWrites` looks at `Mov`, `Add`, `Lea` and `Sub` only, and
`ResolveStackOperands` at those and `Cmp`; the routines of `execution` write callee-saved registers and
name slots in these. On a platform without shadow space a routine that calls but has no variables gets no
frame, and the stack is misaligned at the call; there is no linker for such a platform yet.

Of the linkers: the PE linker applies relocations in a pass that lengthens the code by 3 bytes each and
never resolves calls it should; calls forward to the program's own routines count as imports, and a
name declared as imported gets a prefix under which it is looked for in vain (`SelfContained` in
`Execution` keeps such images from being executed: of these the directories are checked, not the
behaviour). String slots of an executable are not relocated. The address of the exports
is fixed and wrong when the code is longer than a page, the image's name is overwritten by the export directory,
names are not sorted, the image's size is 512 bytes short. In an object file a symbol imported
under a name that is there already gets no entry (`CoffLinker.cpp:150`), and which of two comes
first depends on the order of an unordered map. In the string table, a text is never
found again when pooling is exact. No text of the repository states the contrary of these, or the
code is plainly unfinished, so they have no run.

### What expressions leave out

`ValuePreserved` is checked on the trees `Sound` admits. The following are lowered in a way that is
not the C++ meaning. No text of the repository says otherwise, or the code is plainly unfinished, so
they have no run of their own; `KnownDefect` in `MCCompileExpression` lists those that its
vocabulary could express, and removing a line from it makes TLC show the case:

* unary plus takes the path of unary minus (`Execution/IR.Expressions.cpp:917`);
* `++` and `--` add 1 to a pointer, not the size of what it points to
  (`Execution/IR.Expressions.cpp:620`, `:653`);
* the operand of `-c` and `~c` is promoted, the result has the type of `c` (a char or a bool), and the assertions on
  widths at `CodeGeneration/PseudoAssembly.cpp:429` and `:1263` then fail on what uses it;
* storing to the result of an assignment or of a step stores to the register it was read into
  (`Execution/IR.Lowering.cpp:493`, `:511`);
* `/=`, `<<=` and `>>=` convert the right operand to the type of the left one first, which can lose
  bits that matter;
* an unsigned char is promoted to unsigned int, two operands of the same width and of different
  sign are converted to the signed type (`TypeSystem/ArithmeticTypes.cpp:90`), and a shift
  right of a negative number fills with zeros: no unsigned variables and no such shifts occur.

An assignment evaluates its left operand before its right one; the meaning treats operands that
conflict as having none, so the run says nothing about that order. Class types, floating point,
`sizeof`, casts as syntax and overload resolution among several functions are not modelled.

## What is proved

`Statements_proofs`, for function bodies of any length and nesting, any conditions and both modes:

* `JumpsLeadToLabels`: `JumpsHaveLabels`, what the emitter's assertion on labels relies on. Code is
  well formed (`IsCode`) if it is a sequence of instructions in which each label occurs once.
  `CompiledIsRoutine`: the fold over the nodes makes such code and knows the labels in it, since
  `Place` refuses a label that is there. `ThreadedKeepsLabels`: threading changes where jumps lead and
  no label, whatever it is aimed at. `WithoutKeeps`: taking out instructions keeps the others and puts no
  label twice. `LiveJumpsLead`: a jump that stays keeps its label, in `EraseUndefined` because only
  jumps are taken out, in a pass because a label goes only when no instruction that stays names it. The
  invariant then is that the nodes are nodes, open statements have a kind `CloseNodes` knows, and the
  code is well formed after `CompileRoutine` and leads after the last pass;
* `DiagnosedIffIllFormed`: `DiagnosedExactly`. `IllFormed` speaks of the tokens alone, the code of its
  jump stack, its nodes and its tables of labels, so the invariant (`DInv`, `Diagnosis`) ties them:
  the frames are the statements that have not ended, each at its depth (`Nest`); the jump stack is the
  loops among them, in their order (`IsStack`); what was diagnosed so far is what `IllFormed` says of the
  tokens read, but for the condition of a do that is still open (`Blamed`); labels still to be placed
  are new and of one frame each (`Fresh`), so that only the programmer can place a label twice
  (`SaidOf`); and a jump without a label yet leads to an open statement or is a goto (`Leads`), unless
  something was diagnosed. A comparison stands before its branch (`Paired`), hence none is left over.
  One lemma for each part and each kind of step keeps it: a statement that opens and closes nothing
  (`SimpleDiagnosis`), one that opens (`OpenDiagnosis`), an else or an end that places labels
  (`PlaceDiagnosis`). `CompiledSays` then states what the fold over the nodes diagnoses, by the same
  induction as `CompiledIsRoutine`; `LoopsOpen`, that the loops around a token are those that were open;
* `InvertNegates`: the condition a branch jumps away on fails exactly when the source's holds.

`PhysicalRegisterAllocator_proofs`, for every pool, every set of owners and guards:

* `TypeCorrect`, and then `InverseMaps`: `MapsAreInverse` together with the types is inductive.
  `Claim` keeps it because the register was vacant and the owner had none; the exhaustion handler
  because it removes the victim from both maps; `Reassign` because of its two assertions.
* `ScratchOwnership` and `ScratchReturn`: `ScratchIsHeld` and `ScratchIsReturned` need that no guard's
  owner is ever evictable, which holds because guards are local to an instruction and the evictable
  set is computed at its start. That is the strengthening the inductive invariant adds.
* `ReservedNeverHandedOut`: an action property, from the same invariant: an allocation picks a
  register that is not reserved, and the register of a victim was not vacant.

`Encoder_proofs`, for every set of registers, every pool, and every set of functions the lowering may make
of well-formed instructions:

* `EncoderIsConsistent`: `Consistent`, the inductive invariant. After every step, unless an assertion of the
  code has failed, the tables have their types, the two maps of the allocator are inverse to each other,
  no guard holds a register, and no more uses of a register remain than it has sites in the code;
* `MapsStayInverse`: `MapsInverse`, that no register has two owners and no owner two registers;
* `AllocatorAgreesAlways`: `AllocatorAgrees`, that besides this the virtual register map and the allocator say
  the same of every virtual register.

Every handler is a composition of the small steps of `EncoderState` (a register allocated, a guard taken or
released, a victim moved to its slot, a use consumed, ...), and between two of these steps the tables
do not agree: a handler holds scratch registers, and has allocated a register for a result that is not
in the map yet. `Good(s, guards, pending)` says what holds there, with the guards held and the register
that is pending. Each small step has a lemma of what it does to `guards` and `pending`, each handler one
that it leads from `Good(s, {}, None)` back to it; what an operation that exhausts the pool does is in
the lemmas of `VacateOne` and `MakeOneRoom`. Handlers that repeat a step (the arguments of a call, the registers
saved around it, the chunks of a copy, the flush of a block) do so as folds; `TraceExists` gives such
a fold its intermediate states, and `Stepwise` carries `Good` along them. The blocks a step works on are those of
`BuildControlFlowGraph`, whose type needs that every jump leads to a label (`BlocksOfFacts`); what is live at
their ends is a set of registers (`LiveOutIsRegisters`, `EntryIsRegisters`). Then `Consistent` is
inductive over `Lower`, `Encode`, `BeginBlock`, `EncodeSingle`, `FlushLiveOut` and `Finish`.

What is assumed there. `LowersFunctions`: functions grow by instructions with the operands their
operation takes, and every jump of a complete one leads to a label; TLC found both true of both
instances of `MCEncoder`. `Strict`, for `AllocatorAgreesAlways` only: no `mul`, `div` and `IndirectStore` among
the instructions. There the code gives agreement up: a product or a quotient is
left in rax whoever owns rax, and an indirect store releases the registers of its operands, which stay
materialised in them. The run that checks the property has none of the
three. `OwnerAssumption`: finitely many virtual registers, and more names for
guards than registers, since `NextScratchOwner` only counts.

`Frame_proofs`, for every platform, whatever needs a slot, and in every order of requests:

* `NewFrameIsApart`, `NewSlotIsApart`, `PassedArgumentIsReserved`: the slots of a frame do not overlap
  and end inside its locals (`SlotsApart`, `SlotsEndInside`), at the beginning, and after each call of
  `EnsureStackSlot` and `PassOnStack` from a frame where they hold. `SlotsEndInside` is what makes it
  inductive: a new slot begins at or after the end of the locals;
* `FinishedFrameIsAligned`: the size `Finalise` computes has room for everything asked for and adds up,
  with what was pushed, to a multiple of the alignment (`AlignUpProperties`);
* `VariablesArePlacedApart`: from both, the bytes of a variable at its final address lie between the
  arguments passed on the stack and the saved registers, and belong to no other variable. That
  `CollectCalleeSavedWrites` gives a sequence is assumed: nothing is known to the provers of `SelectSeq`.

What they do not say: that every slot is asked for with the size its variable has (`RefinesRoutines`
shows that on the programs), and the induction over the requests of a whole routine.

`ComputeLiveness_proofs`, for every number of blocks and every set of registers:

* `TypeCorrect`; `SolvesEquations`: the inductive invariant says that, as long as the flag is
  clear, the equations hold for the blocks this sweep has visited, with the sets as they are now;
* `LeastSolution`: the sets stay below every solution of the equations;
* `FindsExactlyThePaths`: `FindsLivePaths`, what the loop ends with is what `LivePaths` defines by paths.
  `SolutionLooksAhead`: whatever is found looking some blocks ahead is in every solution, by induction over
  the number of blocks. `EntryIsClosed`: looking `N` blocks ahead is a solution itself, hence above the least
  one. It takes no more than `N`, because each block further finds a new block where the register is live or
  nothing ever again (`StaysAsItIs`, `NothingFurther`), and there are `N` of them.

`SsaLowering_proofs`, for every set of registers and every body the front end may hand over (`IsBody`):

* `TypeCorrect`, `MapsAgree`: the directions of the allocation map stay inverse through every
  release and every allocation. `HandlersHaveShape` first reduces the handlers to two: one
  that gives up some references, and one that gives up some and allocates a result
  (`OperatorNodesCompute` for the operator nodes);
* `CountsNeverNegative`: a count is never below the number of references not yet given up
  (`CountsCover`), those of the nodes to come and those of the comparison that waits. A node's
  handler dereferences at most what was counted for it, so the inequality survives the node;
* `NothingGoesMissing`: in a routine nothing was reported about, a register that has left the map
  is read by no later node (`ReleasedIsUnread`), because its count was zero and `CountsCover`. The
  result of a comparison is in no map at all, so the invariant also says that every comparison
  behind the walk has been consumed by its branch (`ComparesConsumed`): any other is reported.

* `AssertedWidthsAgree`: where the operands in a body have the widths their nodes ask for
  (`OperandWidths`, which `BodyWellFormed` checks of what the front end hands over), the handlers'
  assertions on widths hold. The invariant says that the descriptor of a virtual register has the
  width of the node that defined the SSA register it stands for (`WidthsKept`).

Neither `CountsCover` nor `ReleasedIsUnread` is preserved alone: the second needs the first, and
the first needs the comparison's operands counted until the branch (`PendingIsLast`).

`Driver_proofs`, for every set of arguments, command lines of every length and either host:

* `TypeCorrect`: whatever is on the command line, the configuration has the shape of one, and the
  stage in work belongs to a file there is;
* `TheLastDecides`: `LastDecides`. Every statement in it has one form: a thing is on exactly if among
  the arguments that set it one comes after all that reset it. `LastWord` proves for any two
  sets of arguments that the form survives the next argument; what is left for each option is
  what it sets and what it resets;
* `OutcomeIsTrue`: `OutcomeTells`, from an invariant that accounts for the files already done: each was
  printed, an erroneous one was noted, linking begins only after all of them and without an error, and the
  image is untouched before it is written. It holds with an exception in every phase:
  what is in the file is of a program without errors, put there by a success, by a run that ended as an
  internal error, or by a failed write, which is never complete; and every success has put something there.

`Induction` has the principle the proofs above use, `InductionOverNat`: a set that contains 0 and
the successor of each number it contains has them all. The library states it for an operator, which no prover
here can instantiate; for a set it follows from the pigeonhole principle of `FiniteSetTheorems`. A
recursive function is reasoned about in two steps: by induction the recursion has a solution
(`KeptExists`, `DoneExists`, `CompiledExists`, `TraceExists`), by another one every value of it has the property.

The assumptions are those of the modules: a body defines every register once, before it is read
(`BodiesAssumption`; `BodyWellFormed` checks on the front end's output that it says nothing
more than the front end does), the pool is a sequence of registers, `None` is none of
the values, guards' owners differ from virtual registers (`NextScratchOwner` counts down from the
largest index).

`UserLabelsAssumption`: a label of the programmer is none of the names `MakeLabelName` is asked for; those
have a dot in them.

The assumptions of `Driver` are on its arguments: an argument is a name and a sequence of words, and a
name of no option, taken for a source file, is one word.

**Only model-checked.** `Terminates`, since the prover does not do liveness under fairness (nor
ENABLED). Of the encoder, what relates its tables to the code it emits and to the
registers at run time: `Coherent`, `SameObservations`, `LiveOutIsStored`, `ArgumentsIntact` (they need what every emitted
instruction does, one after the other), `UsesCoverReaders` and `NoAssertionFails` (that the handlers of
a block ask for no register twice and for none that is gone, which depends on the order the lowering
gives its instructions), and its `TypeOK`, which also types that run. `SameBehaviour` and `ValuePreserved`, inductions over bodies, trees
and code at once; `BodyWellFormed`, which rests on the recursion over trees. `MemoryAgrees`, a fold over chunks and bytes. `DecodesAsMeant`, a statement about finitely
many forms and 64-bit numbers that TLC samples at the bounds. `RefinesRoutines` with the properties
around it (`BuildSucceeds`, `TextsStand`, `AlignedAtEntries`, `DirectoriesLead`): they speak of decoded
bytes, for which every form of every encoder would have to be decoded in the proof.

## Not modelled, and what could follow

* *Parameters the caller left on the stack* and *immediates beyond 32 bits* in the encoder.
* *Class types*: layout and initialisation (`Execution/ClassInitialisation.cpp`, `IR.Classes.cpp`),
  members in expressions and in the lowering, `this`, scopes and contexts, ranks of conversion
  sequences and overload resolution. The next thing to model: offsets, padding and order of bases
  against the rules of the language.
* *The table of used functions* and the strings arrive at `Build` as inputs.
* *Containers*: `SBOVector` with failing constructors, `BumpAllocator` (its end moves before the
  capacity is checked).
* *Preprocessor*: conditional and include stacks, macro expansion.
* *Tokeniser and parser*: the grammar of C++ is mostly data; speculation and rewinding would be worth a model.
* *Mangling, diagnostics, debugger, file system*: text, tables, and the operating system's interface.
* *Proofs*: `UsesCoverReaders` of the encoder, from the count of sites `Consistent` has; `SameBehaviour` for
  bodies without gotos, from the ties between frames and nodes that `DInv` has.
