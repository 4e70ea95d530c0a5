------------------------- MODULE PortableExecutable -------------------------
(***************************************************************************)
(* WindowsLinker and PEImage: an executable image with its code, the       *)
(* directory of its exports (.edata), of its imports (.idata) and its      *)
(* strings (.rdata).  A relative virtual address (RVA) counts from the     *)
(* base of the loaded image.  The contents of a section are Cells.         *)
(*                                                                         *)
(* Exports and imports are kept in unordered maps: the order in which they *)
(* are written is a parameter.                                             *)
(***************************************************************************)
EXTENDS Emission, Words

LOCAL Seqs == INSTANCE SequencesExt

ExportDisplacement == 4096
SectionAlignment == 4096
FileAlignment == 512
ExportRva == AlignUp(8192, 4096)
ExportDirectoryBytes == 40
DescriptorBytes == 20
ThunkBytes == 8
SectionHeadersOffset == AlignUp(64, 4) + 264     \* DosHeader, NtHeaders
SectionHeaderSize == 40

NewPe == [sections |-> <<>>, exports |-> [n \in {} |-> 0], imports |-> [d \in {} |-> <<>>],
          importNameMap |-> [n \in {} |-> ""], sizeOfCode |-> 0]

(* emplace: the first export of a name stays. *)
PeExportAt(pe, name, address) ==
    IF name \in DOMAIN pe.exports THEN pe
    ELSE [pe EXCEPT !.exports = With(@, name, address)]

PeExportFunction(pe, name, address) == PeExportAt(pe, name, ExportDisplacement + address)

PeImportFunction(pe, symbolName, importName, dll) ==
    [pe EXCEPT !.imports = With(@, dll, (IF dll \in DOMAIN @ THEN @[dll] ELSE <<>>) \o <<importName>>),
               !.importNameMap = With(@, symbolName, importName)]

BytesSection(name, bytes) ==
    [name |-> name, size |-> Len(bytes), cells |-> WriteCell(EmptyCells, 0, Len(bytes), bytes)]

AddSection(pe, section) == [pe EXCEPT !.sections = Append(@, section)]

-----------------------------------------------------------------------------
(* CodeSection: from the last relocation to the first, a direct call       *)
(* without its target, whose bytes beyond the second are inserted.         *)

InsertCall(data, relocation) ==
    LET call == ApplyImport(FALSE)
        pos == relocation.where
        written == [k \in DOMAIN data |-> IF k \in pos + 1 .. pos + Len(call) THEN call[k - pos] ELSE data[k]]
        next == pos + relocation.applyOutputSize
    IN  SubSeq(written, 1, next) \o SubSeq(call, relocation.applyOutputSize + 1, Len(call))
            \o SubSeq(written, next + 1, Len(written))

PeCodeSection(pe, data, relocationSet) ==
    LET descending == Seqs!SetToSortSeq(relocationSet, LAMBDA r, s : r.where > s.where)
        code == Seqs!FoldLeft(InsertCall, data, descending)
    IN  AddSection([pe EXCEPT !.sizeOfCode = Len(code)], BytesSection(".text", code))

-----------------------------------------------------------------------------
(* The export directory. *)

Total(lengths) == Seqs!FoldLeft(LAMBDA a, b : a + b, 0, lengths)

ExportDirectory(imageName, count) ==
    LET name == ExportRva + ExportDirectoryBytes
        functions == name + Len(imageName) + 1
    IN  [Name |-> name, NumberOfFunctions |-> count, NumberOfNames |-> count,
         AddressOfFunctions |-> functions, AddressOfNames |-> functions + 4 * count,
         AddressOfNameOrdinals |-> functions + 8 * count]

FirstName(directory) == directory.AddressOfNameOrdinals + 2 * directory.NumberOfNames

(* Where each exported name is put, in the order of the exports. *)
NameRva(directory, order, k) ==
    FirstName(directory) + Total([j \in 1 .. k - 1 |-> Len(order[j]) + 1])

ExportSize(directory, order) == NameRva(directory, order, Len(order) + 1) - ExportRva

WriteExport(cells, directory, exports, order, k) ==
    LET At(rva) == rva - ExportRva
        c1 == WriteCell(cells, At(directory.AddressOfFunctions) + 4 * (k - 1), 4, exports[order[k]])
        c2 == WriteCell(c1, At(directory.AddressOfNames) + 4 * (k - 1), 4, NameRva(directory, order, k))
        c3 == WriteCell(c2, At(NameRva(directory, order, k)), Len(order[k]) + 1, order[k])
    IN  WriteCell(c3, At(directory.AddressOfNameOrdinals) + 2 * (k - 1), 2, k - 1)

(* The directory is written last, over the name of the image. *)
ExportSection(imageName, exports, order) ==
    LET directory == ExportDirectory(imageName, Len(order))
        named == WriteCell(EmptyCells, 0, Len(imageName) + 1, imageName)
        filled == Seqs!FoldLeft(LAMBDA c, k : WriteExport(c, directory, exports, order, k),
                                named, [k \in DOMAIN order |-> k])
    IN  [name |-> ".edata", size |-> ExportSize(directory, order),
         cells |-> WriteCell(filled, 0, ExportDirectoryBytes, directory)]

-----------------------------------------------------------------------------
(* BuildIdataBuffer: descriptors, the table of names, the table the loader *)
(* fills, and the names.                                                   *)

(* Mutant: no room for the 0 at the end of a library's table. *)
TotalThunksWithoutEnd(imports, order) == Total([k \in DOMAIN order |-> Len(imports[order[k]])])

TotalThunks(imports, order) == Total([k \in DOMAIN order |-> Len(imports[order[k]]) + 1])
IntOffset(order) == AlignUp((Len(order) + 1) * DescriptorBytes, 8)
IatOffset(imports, order) == IntOffset(order) + TotalThunks(imports, order) * ThunkBytes
NameOffset(imports, order) ==
    AlignUp(IatOffset(imports, order) + TotalThunks(imports, order) * ThunkBytes, 2)

WriteThunks(state, value) ==
    [state EXCEPT !.cells = WriteCell(WriteCell(@, state.ilt, ThunkBytes, value), state.iat, ThunkBytes, value),
                  !.ilt = @ + ThunkBytes, !.iat = @ + ThunkBytes]

WriteImport(state, base, name) ==
    LET thunks == WriteThunks(state, base + state.names)
        hint == WriteCell(thunks.cells, state.names, 2, 0)
    IN  [thunks EXCEPT !.cells = WriteCell(hint, state.names + 2, Len(name) + 1, name),
                       !.names = AlignUp(@ + 2 + Len(name) + 1, 2)]

WriteLibrary(state, base, dll, functions) ==
    LET descriptor == [OriginalFirstThunk |-> base + state.ilt, FirstThunk |-> base + state.iat]
        written == WriteThunks(Seqs!FoldLeft(LAMBDA s, f : WriteImport(s, base, f), state, functions), 0)
        named == WriteCell(written.cells, written.names, Len(dll) + 1, dll)
    IN  [written EXCEPT
           !.cells = WriteCell(named, state.descriptors, DescriptorBytes,
                               [OriginalFirstThunk |-> descriptor.OriginalFirstThunk,
                                FirstThunk |-> descriptor.FirstThunk, Name |-> base + written.names]),
           !.names = AlignUp(@ + Len(dll) + 1, 2),
           !.descriptors = @ + DescriptorBytes]

NoDescriptor == [OriginalFirstThunk |-> 0, FirstThunk |-> 0, Name |-> 0]

ImportSection(base, imports, order) ==
    LET start == [cells |-> EmptyCells, descriptors |-> 0, ilt |-> IntOffset(order),
                  iat |-> IatOffset(imports, order), names |-> NameOffset(imports, order)]
        all == Seqs!FoldLeft(LAMBDA s, dll : WriteLibrary(s, base, dll, imports[dll]), start, order)
    IN  [name |-> ".idata", size |-> all.names,
         cells |-> WriteCell(all.cells, all.descriptors, DescriptorBytes, NoDescriptor)]

-----------------------------------------------------------------------------
(* Where the sections go: in memory behind the headers, page by page, and  *)
(* in the file at multiples of the file alignment.                         *)

HeadersSize(count) ==
    AlignUp(SectionHeadersOffset + count * SectionHeaderSize, FileAlignment)

PlaceSection(state, section) ==
    [placed |-> Append(state.placed,
       [name |-> section.name, size |-> section.size, cells |-> section.cells,
        virtualAddress |-> state.rva, pointerToRawData |-> state.offset]),
     rva |-> AlignUp(state.rva + AlignUp(section.size, SectionAlignment), SectionAlignment),
     offset |-> AlignUp(state.offset + section.size, FileAlignment)]

PlaceSections(sections) ==
    Seqs!FoldLeft(PlaceSection,
                  [placed |-> <<>>, rva |-> AlignUp(HeadersSize(Len(sections)), SectionAlignment),
                   offset |-> HeadersSize(Len(sections))],
                  sections)

SizeOfImage(sections) ==
    HeadersSize(Len(sections))
        + Total([k \in DOMAIN sections |-> AlignUp(sections[k].size, SectionAlignment)])

PeToBytes(pe, imageName, entryPoint, stringData, exportOrder, importOrder) ==
    LET edata == ExportSection(imageName, pe.exports, exportOrder)
        importRva == AlignUp(AlignUp(ExportRva + edata.size, SectionAlignment), SectionAlignment)
        idata == ImportSection(importRva, pe.imports, importOrder)
        sections == pe.sections \o <<edata, idata, BytesSection(".rdata", stringData)>>
        placed == PlaceSections(sections)
    IN  [addressOfEntryPoint |-> ExportDisplacement + entryPoint,
         sizeOfCode |-> pe.sizeOfCode,
         sizeOfImage |-> SizeOfImage(sections),
         exportDirectory |-> [VirtualAddress |-> ExportRva, Size |-> edata.size],
         importDirectory |-> [VirtualAddress |-> importRva, Size |-> idata.size],
         iatDirectory |-> [VirtualAddress |-> importRva + IatOffset(pe.imports, importOrder),
                           Size |-> TotalThunks(pe.imports, importOrder) * ThunkBytes],
         fileSize |-> placed.offset,
         sections |-> placed.placed]
=============================================================================
