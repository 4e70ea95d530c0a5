------------------------------- MODULE Machine -------------------------------
(***************************************************************************)
(* What turns an object file into a running program.  The linker and       *)
(* loader, after the format's documentation: they read the file through    *)
(* its pointers, bind each name to a definition in the file or to a        *)
(* function of a library, and add the distance to each field that asks for *)
(* it; the image is a function from addresses to bytes.  The processor     *)
(* that runs the image, after the processor manuals, and the functions of  *)
(* the libraries, after the calling convention of Windows; its state is a  *)
(* record: the instruction pointer, the registers, the operands of the     *)
(* last comparison or subtraction, and the bytes of the stack written.     *)
(***************************************************************************)
EXTENDS Integers, Sequences, FiniteSets, X86Decoder, Words

CONSTANT Library     \* the names of the functions of the libraries, in order

SectionBase(index) == 4096 * index
TableBase == 4096 * 8                       \* the table of addresses
LibraryBase == 4096 * 12

LibraryIndex(name) == CHOOSE k \in DOMAIN Library : Library[k] = name
FunctionAddress(name) == LibraryBase + 16 * LibraryIndex(name)
TableSlot(name) == TableBase + 8 * LibraryIndex(name)

(* The bytes of a number of 32 bits. *)
FourBytes(n) == [i \in 1 .. 4 |-> (n \div 256 ^ (i - 1)) % 256]

-----------------------------------------------------------------------------
(* Reading the file. *)

FileHeader(file) == CellAt(file, 0)
SectionHeader(file, index) == CellAt(file, 20 + 40 * (index - 1))
SymbolAt(file, k) == CellAt(file, FileHeader(file).pointerToSymbolTable + 18 * k)
StringTable(file) == FileHeader(file).pointerToSymbolTable + 18 * FileHeader(file).numberOfSymbols
RelocationAt(file, index, k) == CellAt(file, SectionHeader(file, index).pointerToRelocations + 10 * k)

NameOf(file, symbol) ==
    IF symbol.name.zero THEN CellAt(file, StringTable(file) + symbol.name.offset)
    ELSE symbol.name.shortName

(* Every pointer leads to what it should. *)
WellFormed(file) ==
    /\ HasCell(file, 0, 20)
    /\ \A index \in 1 .. FileHeader(file).numberOfSections :
        /\ HasCell(file, 20 + 40 * (index - 1), 40)
        /\ LET section == SectionHeader(file, index)
           IN  /\ section.sizeOfRawData > 0 =>
                    HasCell(file, section.pointerToRawData, section.sizeOfRawData)
               /\ \A k \in 0 .. section.numberOfRelocations - 1 :
                    /\ HasCell(file, section.pointerToRelocations + 10 * k, 10)
                    /\ RelocationAt(file, index, k).symbolTableIndex < FileHeader(file).numberOfSymbols
    /\ \A k \in 0 .. FileHeader(file).numberOfSymbols - 1 :
        /\ HasCell(file, FileHeader(file).pointerToSymbolTable + 18 * k, 18)
        /\ SymbolAt(file, k).name.zero =>
            StringTable(file) + SymbolAt(file, k).name.offset \in DOMAIN file
        /\ SymbolAt(file, k).sectionNumber <= FileHeader(file).numberOfSections

-----------------------------------------------------------------------------
(* Names. *)

Symbols(file) == {SymbolAt(file, k) : k \in 0 .. FileHeader(file).numberOfSymbols - 1}

DefinitionsOf(file, name) ==
    {s \in Symbols(file) : s.sectionNumber > 0 /\ s.storageClass = "External" /\ NameOf(file, s) = name}

LibraryNames == {Library[k] : k \in DOMAIN Library}

AddressOfSymbol(symbol) == SectionBase(symbol.sectionNumber) + symbol.value

(* Places a name may stand for: one is right. *)
Meanings(file, symbol) ==
    IF symbol.sectionNumber > 0 THEN {AddressOfSymbol(symbol)}
    ELSE {AddressOfSymbol(s) : s \in DefinitionsOf(file, NameOf(file, symbol))}
          \cup {FunctionAddress(n) : n \in {m \in LibraryNames : m = NameOf(file, symbol)}}
          \cup {TableSlot(n) : n \in {m \in LibraryNames : "__imp_" \o m = NameOf(file, symbol)}}

Bound(file) ==
    \A index \in 1 .. FileHeader(file).numberOfSections :
        \A k \in 0 .. SectionHeader(file, index).numberOfRelocations - 1 :
            Cardinality(Meanings(file, SymbolAt(file, RelocationAt(file, index, k).symbolTableIndex))) = 1

Meaning(file, symbol) == CHOOSE a \in Meanings(file, symbol) : TRUE

-----------------------------------------------------------------------------
(* The image. *)

FieldOf(data, at) ==
    data[at] + 256 * data[at + 1] + 65536 * data[at + 2]
        + 16777216 * (IF data[at + 3] >= 128 THEN data[at + 3] - 256 ELSE data[at + 3])

(* A REL32 field holds the distance from the end of the field. *)
Relocated(file, index, data) ==
    LET fields == {[at |-> RelocationAt(file, index, k).virtualAddress,
                    to |-> Meaning(file, SymbolAt(file, RelocationAt(file, index, k).symbolTableIndex))] :
                     k \in 0 .. SectionHeader(file, index).numberOfRelocations - 1}
        Distance(f) == f.to + FieldOf(data, f.at + 1) - (SectionBase(index) + f.at + 4)
    IN  [p \in DOMAIN data |->
           IF \E f \in fields : p \in f.at + 1 .. f.at + 4
           THEN LET f == CHOOSE g \in fields : p \in g.at + 1 .. g.at + 4
                IN  FourBytes(Distance(f))[p - f.at]
           ELSE data[p]]

SectionBytes(file, index) ==
    IF SectionHeader(file, index).sizeOfRawData = 0 THEN <<>>
    ELSE Relocated(file, index, CellAt(file, SectionHeader(file, index).pointerToRawData))

(* A section at its base, and in the table the address of each function.   *)
Placed(base, bytes) == [a \in base .. base + Len(bytes) - 1 |-> bytes[a - base + 1]]

TableBytes ==
    [a \in TableBase + 8 .. TableBase + 8 * Len(Library) + 7 |->
       IF a % 8 < 4 THEN FourBytes(LibraryBase + 16 * ((a - TableBase) \div 8))[(a % 8) + 1] ELSE 0]

Beside(f, g) == [a \in DOMAIN f \cup DOMAIN g |-> IF a \in DOMAIN f THEN f[a] ELSE g[a]]

LoadedImage(file) ==
    Beside(Placed(SectionBase(1), SectionBytes(file, 1)),
           Beside(Placed(SectionBase(2), SectionBytes(file, 2)), TableBytes))

(* Where the program begins: the function of that name. *)
EntryPoint(file, name) == AddressOfSymbol(CHOOSE s \in DefinitionsOf(file, name) : TRUE)

-----------------------------------------------------------------------------
(* The directories of an executable image, by RVA.  Tables end with 0.     *)

Containing(executable, rva) ==
    {k \in DOMAIN executable.sections :
        LET s == executable.sections[k] IN rva \in s.virtualAddress .. s.virtualAddress + s.size - 1}

HasAt(executable, rva, size) ==
    \E k \in Containing(executable, rva) :
        HasCell(executable.sections[k].cells, rva - executable.sections[k].virtualAddress, size)

At(executable, rva) ==
    LET k == CHOOSE j \in Containing(executable, rva) : TRUE
    IN  CellAt(executable.sections[k].cells, rva - executable.sections[k].virtualAddress)

(* The items of a table up to its 0, at most limit. *)
TableLength(executable, rva, size, end, limit) ==
    CHOOSE n \in 0 .. limit :
        /\ \A k \in 0 .. n - 1 : HasAt(executable, rva + size * k, size) /\ At(executable, rva + size * k) # end
        /\ n = limit \/ ~HasAt(executable, rva + size * n, size) \/ At(executable, rva + size * n) = end

Table(executable, rva, size, end, limit) ==
    [k \in 1 .. TableLength(executable, rva, size, end, limit) |-> At(executable, rva + size * (k - 1))]

Terminated(executable, rva, size, end, limit) ==
    LET last == rva + size * TableLength(executable, rva, size, end, limit)
    IN  HasAt(executable, last, size) /\ At(executable, last) = end

IsName(executable, rva) == \E n \in 1 .. 64 : HasAt(executable, rva, n) /\ Len(At(executable, rva)) = n - 1

-----------------------------------------------------------------------------
(* The processor. *)

StackTop == 4096 * 16
StackSize == 4096
Unwritten == 170          \* what a byte of the stack holds before

StackPointer == 4
Fault == -1

InStack(a) == a \in StackTop - StackSize .. StackTop - 1
StackByte(m, a) == IF a \in DOMAIN m.stack THEN m.stack[a] ELSE Unwritten

Readable(image, a) == InStack(a) \/ a \in DOMAIN image
LoadBytes(image, m, at, n) ==
    [k \in 1 .. n |-> IF InStack(at + k - 1) THEN StackByte(m, at + k - 1) ELSE image[at + k - 1]]

StoreBytes(m, at, bytes) ==
    [m EXCEPT !.stack =
       [a \in DOMAIN @ \cup at .. at + Len(bytes) - 1 |->
          IF a \in at .. at + Len(bytes) - 1 THEN bytes[a - at + 1] ELSE @[a]]]

-----------------------------------------------------------------------------
(* Operands.  next is the address behind the instruction. *)

AddressOf(m, operand, next) ==
    operand.disp + (IF operand.base = RipBase THEN next ELSE AddressIn(m.registers[operand.base]))

Addressable(m, operand) ==
    /\ operand.index = NoBase
    /\ operand.base # NoBase
    /\ operand.base # RipBase => IsAddress(m.registers[operand.base])

CanRead(image, m, operand, n, next) ==
    operand.kind = "mem" =>
        /\ Addressable(m, operand)
        /\ \A k \in 0 .. n - 1 : Readable(image, AddressOf(m, operand, next) + k)

CanWrite(m, operand, n, next) ==
    operand.kind = "mem" =>
        /\ Addressable(m, operand)
        /\ InStack(AddressOf(m, operand, next)) /\ InStack(AddressOf(m, operand, next) + n - 1)

ValueOf(image, m, operand, n, next) ==
    CASE operand.kind = "reg" -> SubSeq(m.registers[operand.reg], 1, n)
      [] operand.kind = "imm" -> operand.bytes
      [] operand.kind = "mem" -> LoadBytes(image, m, AddressOf(m, operand, next), n)

Assign(m, operand, bytes, next) ==
    IF operand.kind = "reg"
    THEN [m EXCEPT !.registers[operand.reg] = Written(@, bytes)]
    ELSE StoreBytes(m, AddressOf(m, operand, next), bytes)

-----------------------------------------------------------------------------
(* Instructions *)

Conditioned(m, condition) ==
    LET a == m.flags[1]
        b == m.flags[2]
    IN  CASE condition = "je" -> a = b
          [] condition = "jne" -> a # b
          [] condition = "jl" -> Less(a, b)
          [] condition = "jge" -> ~Less(a, b)
          [] condition = "jle" -> Less(a, b) \/ a = b
          [] condition = "jg" -> ~Less(a, b) /\ a # b
          [] condition = "jb" -> Below(a, b)
          [] condition = "jae" -> ~Below(a, b)
          [] condition = "jbe" -> Below(a, b) \/ a = b
          [] condition = "ja" -> ~Below(a, b) /\ a # b

ConditionalJumps == {"je", "jne", "jl", "jge", "jle", "jg", "jb", "jae", "jbe", "ja"}

Pushed(m, word) ==
    LET top == AddressIn(m.registers[StackPointer]) - 8
    IN  StoreBytes([m EXCEPT !.registers[StackPointer] = WordOf(top)], top, word)

TopOfStack(image, m) == LoadBytes(image, m, AddressIn(m.registers[StackPointer]), 8)

Dropped(m) == [m EXCEPT !.registers[StackPointer] = WordOf(AddressIn(@) + 8)]

Target(image, m, operand, next) ==
    IF operand.kind = "rel" THEN next + operand.offset
    ELSE AddressIn(ValueOf(image, m, operand, 8, next))

(* After an instruction whose operands can be read and written. *)
Performed(image, m, i, next) ==
    LET n == i.width \div 8
        left == ValueOf(image, m, i.args[1], n, next)
        right == ValueOf(image, m, i.args[2], n, next)
        on == [m EXCEPT !.rip = next]
    IN  CASE i.op = "mov" -> Assign(on, i.args[1], right, next)
          [] i.op = "add" -> [Assign(on, i.args[1], Plus(left, right), next) EXCEPT !.flags = <<>>]
          [] i.op = "sub" -> [Assign(on, i.args[1], Minus(left, right), next) EXCEPT !.flags = <<left, right>>]
          [] i.op = "cmp" -> [on EXCEPT !.flags = <<left, right>>]
          [] i.op = "lea" -> Assign(on, i.args[1], WordOf(AddressOf(m, i.args[2], next)), next)
          [] i.op = "push" -> Pushed(on, left)
          [] i.op = "pop" -> Assign(Dropped(on), i.args[1], TopOfStack(image, m), next)
          [] i.op = "nop" -> on
          [] i.op = "ret" -> [Dropped(m) EXCEPT !.rip = AddressIn(TopOfStack(image, m))]
          [] i.op = "jmp" -> [m EXCEPT !.rip = Target(image, m, i.args[1], next)]
          [] i.op = "call" -> [Pushed(m, WordOf(next)) EXCEPT !.rip = Target(image, m, i.args[1], next)]
          [] i.op \in ConditionalJumps ->
               [m EXCEPT !.rip = IF Conditioned(m, i.op) THEN Target(image, m, i.args[1], next) ELSE next]

(* Two operands, or one, or none, and what may be done with them. *)
Defined(image, m, i, next) ==
    LET n == i.width \div 8
    IN  CASE i.op \in {"mov", "add", "sub"} ->
               CanWrite(m, i.args[1], n, next) /\ CanRead(image, m, i.args[2], n, next)
          [] i.op = "cmp" -> \A k \in 1 .. 2 : CanRead(image, m, i.args[k], n, next)
          [] i.op = "lea" -> Addressable(m, i.args[2]) /\ AddressOf(m, i.args[2], next) >= 0
          [] i.op \in {"push", "pop"} -> i.args[1].kind = "reg"
          [] i.op \in {"nop", "ret"} -> i.args = <<>>
          [] i.op \in {"jmp", "call"} -> CanRead(image, m, i.args[1], 8, next)
          [] i.op \in ConditionalJumps -> m.flags # <<>>
          [] OTHER -> FALSE

Fetched(image, rip) ==
    [k \in 1 .. 15 |-> IF rip + k - 1 \in DOMAIN image THEN image[rip + k - 1] ELSE 0]

StackIsUsable(m) ==
    /\ IsAddress(m.registers[StackPointer])
    /\ InStack(AddressIn(m.registers[StackPointer]) - 8) /\ InStack(AddressIn(m.registers[StackPointer]) + 7)

Stopped(m) == [m EXCEPT !.rip = Fault]

After(image, m, decoded) ==
    LET next == m.rip + decoded.next - 1
    IN  IF StackIsUsable(m) /\ Defined(image, m, decoded.instr, next)
        THEN Performed(image, m, decoded.instr, next) ELSE Stopped(m)

Step(image, m) ==
    IF m.rip \notin DOMAIN image THEN Stopped(m)
    ELSE After(image, m, Decode(Fetched(image, m.rip)))

-----------------------------------------------------------------------------
(* A function of a library returns; it may have overwritten the registers  *)
(* it need not keep, the shadow space and its stack arguments.             *)

CallerSaved == {1, 2, 8, 9, 10, 11}
ShadowSpace == 32

LibraryReturn(image, m, result, stackArguments) ==
    LET top == AddressIn(m.registers[StackPointer])
        junk == Filled(187, ShadowSpace + 8 * stackArguments)
        back == [Dropped(m) EXCEPT !.rip = AddressIn(TopOfStack(image, m)), !.flags = <<>>]
    IN  StoreBytes([back EXCEPT !.registers =
                      [r \in DOMAIN @ |-> IF r = 0 THEN result
                                          ELSE IF r \in CallerSaved THEN Filled(204, 8) ELSE @[r]]],
                   top + 8, junk)
=============================================================================
