---------------------------- MODULE MCExecution ----------------------------
(* Programs of a few routines: variables of every size, a pointer to a     *)
(* caller's variable, calls back, forward, across files and of oneself,    *)
(* of library functions directly and through the table, with arguments in  *)
(* registers and on the stack, texts, branches and loops; with and without *)
(* a frame pointer; as an object file and as an executable.                *)
EXTENDS Execution

Rdx == 2
Rdi == 7
R12 == 12

Reg(index) == RegisterOperand(index)
I(number) == IntegerOperand(Quadword(number))
V(v) == [kind |-> "Variable", variable |-> v]
A(slot) == [kind |-> "Argument", slot |-> slot]
P(index) == MemoryOperand(index, 0)
T(text) == [kind |-> "Text", text |-> text]

Mov(width, to, from) == [name |-> "Mov", width |-> width, destination |-> to, source |-> from]
Add(width, to, from) == [name |-> "Add", width |-> width, destination |-> to, source |-> from]
Sub(width, to, from) == [name |-> "Sub", width |-> width, destination |-> to, source |-> from]
Cmp(width, a, b) == [name |-> "Cmp", width |-> width, left |-> a, right |-> b]
Lea(to, from) == [name |-> "Lea", width |-> 64, destination |-> to, address |-> from]
CallOf(index) == [name |-> "Call", indexToTable |-> index]
Jmp(label) == [name |-> "Jmp", labelId |-> label]
Jcc(condition, label) == [name |-> "Jcc", condition |-> condition, labelId |-> label]
LabelOf(label) == [name |-> "Label", labelId |-> label]
RetI == [name |-> "Ret"]

Own(name) == [name |-> name, isDllImportExport |-> FALSE, dllImportName |-> ""]
Dll(name) == [name |-> name, isDllImportExport |-> TRUE, dllImportName |-> ""]
Renamed(name, other) == [name |-> name, isDllImportExport |-> FALSE, dllImportName |-> other]

RoutineOf(name, locals, functionTable, code) ==
    [name |-> name, locals |-> locals, functions |-> functionTable, code |-> code]

(* What a pointer points to grows by 5. *)
Grow == RoutineOf("grow", <<>>, <<>>,
    <<Mov(32, Reg(Rax), P(Rcx)), Add(32, Reg(Rax), I(5)), Mov(32, P(Rcx), Reg(Rax)), RetI>>)

(* 0 + 1 + ... + ecx, a callee-saved register kept over the call. *)
Count == RoutineOf("count", <<4>>, <<Own("count")>>,
    <<Mov(32, V(1), Reg(Rcx)), Mov(64, Reg(Rbx), Reg(Rcx)), Mov(32, Reg(Rax), I(0)),
      Cmp(32, V(1), I(0)), Jcc("Equal", 3),
      Sub(32, Reg(Rcx), I(1)), CallOf(0), Add(32, Reg(Rax), Reg(Rbx)),
      LabelOf(3), RetI>>)

(* A loop, down to 0, in memory more than a byte away, and two             *)
(* callee-saved registers.                                                 *)
Spin == RoutineOf("spin", <<1>> \o [v \in 1 .. 14 |-> 8], <<>>,
    <<Mov(64, V(15), Reg(Rcx)), Mov(8, V(1), I(200)), Mov(64, Reg(Rbx), I(0)), Lea(Reg(R12), V(1)),
      LabelOf(1), Cmp(64, V(15), I(0)), Jcc("Equal", 2),
      Sub(64, V(15), I(1)), Add(8, P(R12), I(100)), Add(32, Reg(Rbx), I(1)), Jmp(1),
      LabelOf(2), Mov(8, Reg(Rax), V(1)), Add(32, Reg(Rax), Reg(Rbx)), RetI>>)

(* The address of a variable goes to a routine emitted before, texts and   *)
(* stack arguments to library functions, a number to a routine behind.     *)
Main(functionTable) == RoutineOf("_EntryPoint", <<1, 4, 8, 1>>, functionTable,
    <<Mov(8, V(1), I(17)), Mov(32, V(2), I(7)), Mov(64, Reg(R12), I(-2)), Mov(64, V(3), Reg(R12)),
      Mov(8, V(4), I(3)),
      Lea(Reg(Rcx), V(2)), CallOf(0),
      Cmp(32, V(2), I(12)), Jcc("NotEqual", 3),
      Lea(Reg(Rcx), T(<<104, 105>>)), Mov(32, Reg(Rdx), V(2)), CallOf(1),
      Cmp(32, Reg(Rax), I(0)), Jcc("GreaterEqual", 3),
      Lea(Reg(Rcx), T(<<111>>)), Mov(64, Reg(Rdx), V(3)), Mov(64, A(2), Reg(R12)), Mov(32, A(1), I(9)), CallOf(2),
      LabelOf(3),
      Mov(64, Reg(Rcx), I(2)), CallOf(3),
      Add(64, V(3), Reg(R12)), RetI>>)

(* Recursion and a loop, nothing for the linker to complete. *)
Alone == RoutineOf("_EntryPoint", <<8>>, <<Own("count"), Own("spin")>>,
    <<Mov(64, V(1), I(1000)), Mov(32, Reg(Rcx), I(2)), CallOf(0), Mov(64, Reg(Rdi), Reg(Rax)),
      Mov(64, Reg(Rcx), I(2)), CallOf(1), Sub(64, V(1), Reg(Rdi)), RetI>>)

Calling == RoutineOf("_EntryPoint", <<>>, <<Own("grow"), Own("puts"), Renamed("say", "printf"), Own("exit")>>,
    <<CallOf(1), CallOf(2), CallOf(1), CallOf(3), RetI>>)

MainFunctions(helper) == <<Own("grow"), Dll("puts"), Renamed("say", "printf"), Own(helper)>>

Units ==
    {[units |-> u, linker |-> "Coff"] :
        u \in {<<<<Grow, Main(MainFunctions("count")), Count>>>>,
               <<<<Grow, Spin>>, <<Main(MainFunctions("spin"))>>>>}}
    \cup {[units |-> <<<<Count, Spin, Alone>>>>, linker |-> l] : l \in {"Coff", "Pe"}}
    \cup {[units |-> <<<<Grow>>, <<Calling>>>>, linker |-> "Pe"]}

MCPrograms ==
    {[units |-> p.units, linker |-> p.linker, omits |-> o,
      stackArguments |-> [f \in {"puts", "printf", "exit"} |-> IF f = "printf" THEN 2 ELSE 0]] :
        p \in Units, o \in BOOLEAN}

MCLibrary == <<"puts", "printf">>

MCAvailableExports ==
    [d \in {"c.dll", "os.dll"} |-> IF d = "c.dll" THEN {"puts", "printf"} ELSE {"exit", "grow"}]

MCLibraryResults == {WordOf(0), Filled(255, 8)}
=============================================================================
