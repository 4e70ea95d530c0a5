-------------------------------- MODULE Coff --------------------------------
(***************************************************************************)
(* CoffLinker: from code, relocations, exports and imports to an object    *)
(* file that another linker completes.                                     *)
(*                                                                         *)
(* The state of the linker is a record; an operation of it gives the next  *)
(* record.  The file is Cells: headers, section contents, relocations,     *)
(* symbols and long names, each at its offset.                             *)
(***************************************************************************)
EXTENDS Emission, Words

LOCAL Seqs == INSTANCE SequencesExt

HeaderBytes == 20
SectionHeaderBytes == 40
RelocationBytes == 10
SymbolBytes == 18
ShortName == 8

RdataSymbolName == "__ecpps_rdata"

NewCoff(stringRelocations) ==
    [sections |-> <<>>, relocations |-> <<>>, symbols |-> <<>>,
     symbolOffsets |-> [s \in {} |-> 0],    \* counted from 0
     stringRelocations |-> stringRelocations,
     failed |-> FALSE]                      \* an exception was thrown

(* A function of that import name that is there already ends the call,     *)
(* before the symbol's own name is known.                                  *)
CoffImportFunction(coff, symbolName, importName) ==
    IF importName \in DOMAIN coff.symbolOffsets THEN coff
    ELSE [coff EXCEPT
            !.symbols = Append(@, [name |-> importName, value |-> 0, sectionIndex |-> 0, storageClass |-> "External"]),
            !.symbolOffsets = With(With(@, symbolName, Len(coff.symbols)), importName, Len(coff.symbols))]

CoffExportFunction(coff, name, address) ==
    [coff EXCEPT
       !.symbols = Append(@, [name |-> name, value |-> address, sectionIndex |-> 1, storageClass |-> "External"]),
       !.symbolOffsets = With(@, name, Len(coff.symbols))]

-----------------------------------------------------------------------------
(* CodeSection *)

Overwrite(data, pos, bytes) ==
    [k \in DOMAIN data |-> IF k \in pos + 1 .. pos + Len(bytes) THEN bytes[k - pos] ELSE data[k]]

(* The bytes behind the first two of a call are its empty field. *)
CleanCall(bytes) == [k \in DOMAIN bytes |-> IF k > 2 THEN 0 ELSE bytes[k]]

RelocateCall(state, relocation) ==
    IF \/ relocation.symbolName \notin DOMAIN state.coff.symbolOffsets
    THEN [state EXCEPT !.coff.failed = TRUE]
    ELSE LET call == ApplyImport(relocation.isIndirect)
             symbol == state.coff.symbols[state.coff.symbolOffsets[relocation.symbolName] + 1]
         IN  [data |-> Overwrite(state.data, relocation.where, CleanCall(call)),
              coff |-> [state.coff EXCEPT !.relocations = Append(@,
                [offset |-> relocation.where + (IF Len(call) = 6 THEN 2 ELSE 1),
                 symbolName |-> symbol.name, sectionIndex |-> 0])]]

RelocateString(state, slotOffset) ==
    IF slotOffset + 4 > Len(state.data) THEN state
    ELSE [state EXCEPT !.coff.relocations = Append(@,
            [offset |-> slotOffset, symbolName |-> RdataSymbolName, sectionIndex |-> 0])]

(* relocations: in the order of the relocation map, which is any. *)
CoffCodeSection(coff, data, relocations) ==
    LET calls == Seqs!FoldLeft(RelocateCall, [coff |-> coff, data |-> data], relocations)
        all == Seqs!FoldLeft(RelocateString, calls, coff.stringRelocations)
    IN  [all.coff EXCEPT !.sections = Append(@, [name |-> ".text", data |-> all.data])]

-----------------------------------------------------------------------------
(* ToBytes *)

WithRdata(coff, stringData) ==
    [coff EXCEPT
       !.sections = Append(@, [name |-> ".rdata", data |-> stringData]),
       !.symbols = Append(@, [name |-> RdataSymbolName, value |-> 0,
                              sectionIndex |-> Len(coff.sections) + 1, storageClass |-> "Static"]),
       !.symbolOffsets = With(@, RdataSymbolName, Len(coff.symbols))]

SectionRelocations(coff, index) ==
    LET here == SelectSeq(coff.relocations, LAMBDA r : r.sectionIndex = index - 1)
    IN  [k \in DOMAIN here |->
           [virtualAddress |-> here[k].offset, symbolTableIndex |-> coff.symbolOffsets[here[k].symbolName]]]

(* Where the contents and the relocations of a section go: the offset      *)
(* advances over both, section after section.                              *)
LayOutSection(state, index) ==
    LET relocations == SectionRelocations(state.coff, index)
        section == state.coff.sections[index]
        size == Len(section.data)
    IN  [state EXCEPT
           !.headers = Append(@, [name |-> section.name, sizeOfRawData |-> size,
                                  pointerToRawData |-> state.offset,
                                  pointerToRelocations |-> state.offset + size,
                                  numberOfRelocations |-> Len(relocations) % 65536]),
           !.offset = @ + size + RelocationBytes * Len(relocations)]

LayOutSections(coff) ==
    Seqs!FoldLeft(LayOutSection,
                  [coff |-> coff, headers |-> <<>>,
                   offset |-> HeaderBytes + SectionHeaderBytes * Len(coff.sections)],
                  [k \in DOMAIN coff.sections |-> k])

(* Long names go to the string table, behind its own size. *)
RawSymbol(state, symbol) ==
    LET long == Len(symbol.name) > ShortName
    IN  [raw |-> Append(state.raw,
           [name |-> IF long THEN [zero |-> TRUE, shortName |-> "", offset |-> state.strSize]
                     ELSE [zero |-> FALSE, shortName |-> symbol.name, offset |-> 0],
            value |-> symbol.value, sectionNumber |-> symbol.sectionIndex,
            storageClass |-> symbol.storageClass]),
         names |-> IF long THEN Append(state.names, symbol.name) ELSE state.names,
         strSize |-> IF long THEN state.strSize + Len(symbol.name) + 1 ELSE state.strSize]

RawSymbols(symbols) == Seqs!FoldLeft(RawSymbol, [raw |-> <<>>, names |-> <<>>, strSize |-> 4], symbols)

(* The file grows at its end. *)
AppendItem(file, size, item) ==
    [cells |-> WriteCell(file.cells, file.length, size, item), length |-> file.length + size]

AppendItems(file, size, items) ==
    Seqs!FoldLeft(LAMBDA f, item : AppendItem(f, size, item), file, items)

AppendSection(file, coff, index) ==
    IF coff.sections[index].data = <<>> THEN file
    ELSE AppendItems(AppendItem(file, Len(coff.sections[index].data), coff.sections[index].data),
                     RelocationBytes, SectionRelocations(coff, index))

AppendNames(file, raw) ==
    Seqs!FoldLeft(LAMBDA f, name : AppendItem(f, Len(name) + 1, name),
                  AppendItem(file, 4, raw.strSize), raw.names)

WriteCoff(coff, layout, raw) ==
    LET header == [numberOfSections |-> Len(coff.sections), pointerToSymbolTable |-> layout.offset,
                   numberOfSymbols |-> Len(coff.symbols)]
        empty == [cells |-> EmptyCells, length |-> 0]
        headers == AppendItems(AppendItem(empty, HeaderBytes, header), SectionHeaderBytes, layout.headers)
        sections == Seqs!FoldLeft(LAMBDA f, k : AppendSection(f, coff, k), headers,
                                  [k \in DOMAIN coff.sections |-> k])
    IN  AppendNames(AppendItems(sections, SymbolBytes, raw.raw), raw)

(* Every relocation finds its symbol, or ToBytes throws. *)
Resolved(coff) ==
    \A k \in DOMAIN coff.relocations : coff.relocations[k].symbolName \in DOMAIN coff.symbolOffsets

CoffToBytes(coff, stringData) ==
    LET whole == WithRdata(coff, stringData)
    IN  WriteCoff(whole, LayOutSections(whole), RawSymbols(whole.symbols)).cells
=============================================================================
