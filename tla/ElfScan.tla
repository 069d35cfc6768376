------------------------------- MODULE ElfScan -------------------------------
(***************************************************************************)
(* One measurement, byte by byte: the VMM maps the guest's memory onto the *)
(* dataport (RamDataport), IntrospectManager copies the dataport, finds    *)
(* the headers of ELF images in the copy, reads their tables, finds the    *)
(* names of the sections (ElfNames) and prints the contents of .rodata.    *)
(* What it reports is compared with what was laid in the guest's memory.   *)
(* The guest is still here: IntrospectManager has the stores it may make   *)
(* during the copy, the heap, and the limits of the tables.                *)
(***************************************************************************)
EXTENDS ElfNames, RamDataport, FiniteSetsExt, SequencesExt

CONSTANTS
  Magic,              (* magicBytes                                        *)
  Rodata,             (* the bytes of ".rodata", its 0 included            *)
  Copied,             (* bytes the memcpy copies (1024*1000*100)           *)
  ListSize,           (* list[100] of a table                              *)
  HeadersUpperBound,  (* headersUpperBound: 100                            *)
  Rams                (* the memories a guest may have: their bytes, from  *)
                      (* linux_ram_base on, and the images laid in them    *)

ASSUME ScanAssumption ==
  /\ Magic \in Seq(Nat) /\ Len(Magic) = 16
  /\ Rodata \in Seq(Nat)
  /\ Copied \in Nat /\ Copied + 64 < MemSize /\ Copied <= linux_ram_size
  /\ ListSize \in Nat /\ HeadersUpperBound \in Nat
  /\ 1 \in DOMAIN Rams
  /\ \A r \in DOMAIN Rams :
       Rams[r].bytes \in [0 .. linux_ram_size - 1 -> 0 .. ByteRange - 1]

VARIABLES
  ram,            (* which of Rams the guest has                           *)
  LinuxMem,       (* Linux_Mem, from 0 on as in C                          *)
  spc,            (* where the pass is                                     *)
  cursor,         (* j of the scan, i of the loops over the ELFs           *)
  ELFList,        (* the headers found                                     *)
  tables,         (* their header tables                                   *)
  rodata,         (* contents printed of the image at hand                 *)
  report          (* what was printed of the images before it              *)

scanVars  == <<mapped, ram, LinuxMem, spc, cursor, ELFList, tables, rodata, report, namesVars>>

ScanInit ==
  /\ RamInit
  /\ ram = 1
  /\ LinuxMem = [a \in 0 .. MemSize - 1 |-> 0]
  /\ spc = "boot"
  /\ cursor = 0
  /\ ELFList = <<>> /\ tables = <<>> /\ rodata = <<>> /\ report = <<>>
  /\ image = [bytes |-> [n \in 0 .. 8 |-> 0], startIndex |-> 0, names |-> <<>>]
  /\ i = 0 /\ found = <<>> /\ outcome = "good"
-----------------------------------------------------------------------------
(* Byte a of memdev: the guest's store to the page whose frame holds it.   *)
memdev(r, a) ==
  LET holders == {page \in DOMAIN mapped : mapped[page] = a \div PageSize}
  IN IF holders = {} THEN 0
     ELSE Rams[r].bytes[(CHOOSE page \in holders : TRUE) + (a % PageSize) - linux_ram_base]

MapPage ==
  /\ spc = "boot"
  /\ \E page \in Pages : dataport_memory_iterator(page)
  /\ UNCHANGED <<ram, LinuxMem, spc, cursor, ELFList, tables, rodata, report, namesVars>>

(* ready_wait() and the memcpy.                                            *)
Copy ==
  /\ spc = "boot" /\ DOMAIN mapped = Pages
  /\ ram' \in DOMAIN Rams
  /\ LinuxMem' = [a \in 0 .. MemSize - 1 |-> IF a < Copied THEN memdev(ram', a) ELSE 0]
  /\ spc' = "scan"
  /\ UNCHANGED <<mapped, cursor, ELFList, tables, rodata, report, namesVars>>

readHalf(m, s) == m[s] + ByteRange * m[s + 1]

matchELFHeader(m, s) == \A n \in 0 .. 15 : m[s + n] = Magic[n + 1]

LegalType(eType) == ~(5 < eType /\ eType < (ByteRange - 2) * ByteRange)

ELF64Header(m, s) ==
  [startIndex |-> s, type |-> readHalf(m, s + 16),
   phoff |-> readWord(m, s + 32), shoff |-> readWord(m, s + 40),
   phentsize |-> readHalf(m, s + 54), phnum |-> readHalf(m, s + 56),
   shentsize |-> readHalf(m, s + 58), shnum |-> readHalf(m, s + 60),
   shstrndx |-> readHalf(m, s + 62)]

(* What tryReadELF takes for an image.                                     *)
Accepted(m, s) == matchELFHeader(m, s) /\ LegalType(readHalf(m, s + 16))

Halt ==
  /\ spc' = "halted"
  /\ UNCHANGED <<mapped, ram, LinuxMem, cursor, ELFList, tables, report>>

(* (slip: the last of the headers allocated is not used)                   *)
ListFullEarly == Len(ELFList) + 1 >= HeadersUpperBound
ListFull == Len(ELFList) >= HeadersUpperBound

(* The next byte that is 0x7f, and tryReadELF there: its header is written *)
(* to on a match, which may lie beyond those allocated.                    *)
Candidates == {j \in cursor .. Copied - 1 : LinuxMem[j] = Magic[1]}

tryReadELF ==
  /\ spc = "scan" /\ Candidates # {}
  /\ LET j == Min(Candidates)
     IN IF matchELFHeader(LinuxMem, j) /\ ListFull
        THEN Halt
        ELSE /\ cursor' = j + 1
             /\ ELFList' = IF Accepted(LinuxMem, j)
                           THEN Append(ELFList, ELF64Header(LinuxMem, j)) ELSE ELFList
             /\ UNCHANGED <<mapped, ram, LinuxMem, spc, tables, report>>
  /\ UNCHANGED <<rodata, namesVars>>

ScanEnds ==
  /\ spc = "scan" /\ Candidates = {}
  /\ spc' = "tables"
  /\ cursor' = 1
  /\ UNCHANGED <<mapped, ram, LinuxMem, ELFList, tables, rodata, report, namesVars>>
-----------------------------------------------------------------------------
SectionHeader(m, s) ==
  [name |-> readWord(m, s), offset |-> readAddr(m, s + 24), size |-> readAddr(m, s + 32)]

ProgramHeader(m, s) ==
  [type |-> readWord(m, s), offset |-> readAddr(m, s + 8), filesz |-> readAddr(m, s + 32)]

NumEntries(n) == n % ByteRange   (* a uint8_t *)

(* (slip: the offset is taken from the start of the memory)                *)
SectionAtAbsolute(h, n) == AsInt(h.shoff + n * h.shentsize)
SectionAt(h, n) == AsInt(h.startIndex + h.shoff + n * h.shentsize)
ProgramAt(h, n) == AsInt(h.startIndex + h.phoff) + n * h.phentsize

(* Entry n of a table goes to list[n]; readAddr reads the byte after it.   *)
TablesFit(h) ==
  /\ \A n \in 0 .. NumEntries(h.shnum) - 1 :
       n < ListSize /\ SectionAt(h, n) \in 0 .. MemSize - 65
  /\ \A n \in 0 .. NumEntries(h.phnum) - 1 :
       n < ListSize /\ ProgramAt(h, n) \in 0 .. MemSize - 57

(* getSectionHeaderTable and getProgramHeaderTable for one ELF: the        *)
(* printing functions call them again and read the same.                   *)
TablesOf(m, h) ==
  [sections |-> [n \in 1 .. NumEntries(h.shnum) |-> SectionHeader(m, SectionAt(h, n - 1))],
   programs |-> [n \in 1 .. NumEntries(h.phnum) |-> ProgramHeader(m, ProgramAt(h, n - 1))]]

ReadTables ==
  /\ spc = "tables" /\ cursor <= Len(ELFList)
  /\ IF ~TablesFit(ELFList[cursor])
     THEN Halt
     ELSE /\ tables' = Append(tables, TablesOf(LinuxMem, ELFList[cursor]))
          /\ cursor' = cursor + 1
          /\ UNCHANGED <<mapped, ram, LinuxMem, spc, ELFList, report>>
  /\ UNCHANGED <<rodata, namesVars>>

TablesRead ==
  /\ spc = "tables" /\ cursor > Len(ELFList)
  /\ spc' = "print"
  /\ cursor' = 1
  /\ UNCHANGED <<mapped, ram, LinuxMem, ELFList, tables, rodata, report, namesVars>>

Printed(good) ==
  /\ report' = Append(report, [names |-> found', rodata |-> rodata', good |-> good])
  /\ cursor' = cursor + 1
  /\ spc' = "print"
  /\ UNCHANGED <<mapped, ram, LinuxMem, ELFList, tables>>

(* What the names of the sections are looked up with.                      *)
ImageOf(m, h, sections) ==
  [bytes |-> [n \in 0 .. 8 |-> m[SectionAt(h, h.shstrndx) + 24 + n]],
   startIndex |-> h.startIndex,
   names |-> [n \in DOMAIN sections |-> sections[n].name]]

(* printAllSectionHeaders: an empty table is good; list[shstrndx] of one   *)
(* with fewer entries is no header.                                        *)
BeginPrint ==
  /\ spc = "print" /\ cursor <= Len(ELFList)
  /\ rodata' = <<>>
  /\ LET h == ELFList[cursor]
         sections == tables[cursor].sections
     IN \/ /\ sections = <<>>
           /\ found' = <<>>
           /\ Printed(TRUE)
           /\ UNCHANGED <<image, i, outcome>>
        \/ /\ sections # <<>> /\ h.shstrndx >= Len(sections)
           /\ Halt
           /\ UNCHANGED namesVars
        \/ /\ h.shstrndx < Len(sections)
           /\ image' = ImageOf(LinuxMem, h, sections)
           /\ i' = 0 /\ found' = <<>> /\ outcome' = "printing"
           /\ spc' = "sections"
           /\ UNCHANGED <<mapped, ram, LinuxMem, cursor, ELFList, tables, report>>

(* strcmp(sectionName, ".rodata") == 0                                     *)
IsRodata(m, name) == \A n \in 1 .. Len(Rodata) :
  name + n - 1 < MemSize /\ m[name + n - 1] = Rodata[n]

(* What printSectionContents prints of a section.                          *)
(* (slip: the offset is taken from the start of the memory)                *)
PayloadAbsolute(s) == AsInt(s.offset) .. AsInt(s.offset) + AsInt(s.size) - 1
Payload(s) ==
  LET payloadOffset == AsInt((image.startIndex + s.offset) % Double)
  IN payloadOffset .. payloadOffset + AsInt(s.size) - 1

Contents(m, places) == [n \in 1 .. Cardinality(places) |-> m[Min(places) + n - 1]]

(* printSectionHeader of the next section.                                 *)
PrintSection ==
  /\ spc = "sections"
  /\ PrintSectionHeader
  /\ LET payload == Payload(tables[cursor].sections[i + 1])
         name == found'[i + 1]
         isRodata == outcome' = "printing" /\ name # 0 /\ IsRodata(LinuxMem, name)
     IN \/ /\ isRodata /\ ~(payload \subseteq DOMAIN LinuxMem)
           /\ Halt
           /\ UNCHANGED rodata
        \/ /\ isRodata => payload \subseteq DOMAIN LinuxMem
           /\ rodata' = IF isRodata THEN Append(rodata, Contents(LinuxMem, payload)) ELSE rodata
           /\ UNCHANGED <<mapped, ram, LinuxMem, spc, cursor, ELFList, tables, report>>

EndPrint ==
  /\ spc = "sections"
  /\ \/ AllPrinted
     \/ outcome = "busted" /\ UNCHANGED namesVars
  /\ UNCHANGED rodata
  /\ Printed(outcome' = "good")

PassEnds ==
  /\ spc = "print" /\ cursor > Len(ELFList)
  /\ spc' = "done"
  /\ UNCHANGED <<mapped, ram, LinuxMem, cursor, ELFList, tables, rodata, report, namesVars>>

ScanNext ==
  \/ MapPage \/ Copy \/ tryReadELF \/ ScanEnds \/ ReadTables \/ TablesRead
  \/ BeginPrint \/ PrintSection \/ EndPrint \/ PassEnds

ScanSpec == ScanInit /\ [][ScanNext]_scanVars
-----------------------------------------------------------------------------
Laid == Rams[ram].laid

(* Of an image laid in the guest's memory: its header, or all of it, is    *)
(* among the bytes copied.                                                 *)
HeaderCopied(im) == im.at + 64 <= Copied
AllCopied(im)    == im.at + im.extent <= Copied

(* What readAddr reads as it is: no byte it passes over counts.            *)
Readable(value) == value < ByteRange * ByteRange

(* ... its section headers are too, and its counts are not cut off.        *)
SectionPlace(im, n) == im.at + im.shoff + (n - 1) * im.shentsize

Tabled(im) ==
  /\ HeaderCopied(im)
  /\ DOMAIN im.sections = 1 .. im.shnum /\ im.shnum < ByteRange
  /\ DOMAIN im.programs = 1 .. im.phnum /\ im.phnum < ByteRange
  /\ \A n \in DOMAIN im.sections : SectionPlace(im, n) + 64 <= Copied

Whole(im) == Tabled(im) /\ AllCopied(im)

(* The header k of ELFList is the one of im.                               *)
IsImage(k, im) == ELFList[k].startIndex = im.at /\ Whole(im)

AllReadable(im) ==
  \A n \in DOMAIN im.sections :
    Readable(im.sections[n].offset) /\ Readable(im.sections[n].size)
-----------------------------------------------------------------------------
(* What it means that im is laid in a memory m: its header, its tables and *)
(* the names of its sections are where the ELF format has them (addresses  *)
(* and offsets are fields of 64 bits there; the images are smaller than    *)
(* 2^32), and its extent spans them.                                       *)
HeaderLaid(m, im) ==
  /\ matchELFHeader(m, im.at)
  /\ im.type = readHalf(m, im.at + 16) /\ im.legal = LegalType(im.type)
  /\ im.phoff = Field(m, im.at + 32) /\ im.phoff < Word
  /\ im.shoff = Field(m, im.at + 40) /\ im.shoff < Word
  /\ im.phentsize = readHalf(m, im.at + 54) /\ im.phnum = readHalf(m, im.at + 56)
  /\ im.shentsize = readHalf(m, im.at + 58) /\ im.shnum = readHalf(m, im.at + 60)
  /\ im.shstrndx = readHalf(m, im.at + 62)

SectionLaid(m, a, s) ==
  s.name = readWord(m, a) /\ s.offset = Field(m, a + 24) /\ s.size = Field(m, a + 32)

ProgramLaid(m, a, p) ==
  p.type = readWord(m, a) /\ p.offset = Field(m, a + 8) /\ p.filesz = Field(m, a + 32)

SectionsLaid(m, im) ==
  \A n \in DOMAIN im.sections : SectionLaid(m, SectionPlace(im, n), im.sections[n])

TablesLaid(m, im) ==
  /\ im.extent \in Nat /\ 64 <= im.extent
  /\ im.phoff + im.phnum * im.phentsize <= im.extent
  /\ \A n \in DOMAIN im.programs :
       ProgramLaid(m, im.at + im.phoff + (n - 1) * im.phentsize, im.programs[n])

(* Where in the image the name of a section is.                            *)
NameAt(im, s) == im.sections[im.shstrndx + 1].offset + s.name

NameCopied(im, s) == im.at + NameAt(im, s) + Len(Rodata) <= Copied

NamesLaid(m, im) ==
  im.shstrndx < im.shnum =>
    \A n \in DOMAIN im.sections : LET s == im.sections[n]
      IN /\ NameAt(im, s) <= Word
         /\ Whole(im) \/ NameCopied(im, s) =>
              s.rodata = (s.name # 0 /\ IsRodata(m, im.at + NameAt(im, s)))
         /\ s.rodata /\ Readable(s.offset) /\ Readable(s.size)
              => s.offset + s.size <= im.extent

LaidIn(m, im) ==
  /\ im.at \in Nat
  /\ HeaderCopied(im) => HeaderLaid(m, im)
  /\ Tabled(im) => SectionsLaid(m, im) /\ NamesLaid(m, im)
  /\ Whole(im) => TablesLaid(m, im)

(* The bytes that are copied, in a memory that is 0 beyond them.           *)
CopyOf(r) == [a \in 0 .. MemSize - 1 |-> IF a < Copied THEN Rams[r].bytes[a] ELSE 0]

(* The images laid in a memory are all that can be taken for images in it. *)
ASSUME LaidAssumption ==
  \A r \in DOMAIN Rams : LET m == CopyOf(r)
    IN /\ IsFiniteSet(Rams[r].laid)
       /\ \A im \in Rams[r].laid : LaidIn(m, im)
       /\ \A s \in 0 .. Copied - 1 :
            matchELFHeader(m, s) => \E im \in Rams[r].laid : im.at = s
-----------------------------------------------------------------------------
ScanTypeOK ==
  /\ RamTypeOK /\ NamesTypeOK
  /\ ram \in DOMAIN Rams
  /\ LinuxMem \in [0 .. MemSize - 1 -> 0 .. ByteRange - 1]
  /\ spc \in {"boot", "scan", "tables", "print", "sections", "done", "halted"}
  /\ Len(report) <= Len(tables) /\ Len(tables) <= Len(ELFList)
  /\ Len(ELFList) <= HeadersUpperBound

(* What the guest laid in its memory is what is measured: the scan ends    *)
(* with the headers of the images that have a legal type, at their place   *)
(* in the guest's memory and each once, with the fields laid; bytes that   *)
(* only resemble a header are passed over, and only a header cut by the    *)
(* end of the copy may appear besides.                                     *)
HeadersExact ==
  spc \in {"tables", "print", "done"} =>
    LET starts == [k \in DOMAIN ELFList |-> ELFList[k].startIndex]
    IN /\ \A k \in 2 .. Len(starts) : starts[k - 1] < starts[k]
       /\ \A k \in DOMAIN starts : \E im \in Laid :
            /\ im.at = starts[k]
            /\ HeaderCopied(im) => \A f \in DOMAIN ELFList[k] \ {"startIndex"} :
                                     ELFList[k][f] = im[f]
       /\ {im.at : im \in {x \in Laid : HeaderCopied(x) /\ x.legal}} \subseteq Range(starts)

(* The entries of the tables are those laid, in spite of what readAddr     *)
(* passes over, of the conversions between 64 bits and an int, and of the  *)
(* strides taken from the header.                                          *)
TablesExact ==
  \A k \in DOMAIN tables : \A im \in Laid : IsImage(k, im) =>
    LET Same(entry, laid, fields) ==
          \A f \in fields : Readable(laid[f]) => entry[f] % Word = laid[f]
    IN /\ Len(tables[k].sections) = im.shnum /\ Len(tables[k].programs) = im.phnum
       /\ \A n \in 1 .. im.shnum : LET s == tables[k].sections[n]
            IN s.name = im.sections[n].name /\ Same(s, im.sections[n], {"offset", "size"})
       /\ \A n \in 1 .. im.phnum : LET p == tables[k].programs[n]
            IN p.type = im.programs[n].type /\ Same(p, im.programs[n], {"offset", "filesz"})

(* The sections of im that are called ".rodata", the bytes of one of them, *)
(* and that what was printed of header k is these bytes, in their order.   *)
RodataSections(im) == {n \in DOMAIN im.sections : im.sections[n].rodata}

BytesOf(im, s) == [b \in 1 .. s.size |-> Rams[ram].bytes[im.at + s.offset + b - 1]]

PrintsRodata(k, im) ==
  /\ Len(report[k].rodata) = Cardinality(RodataSections(im))
  /\ \A n \in RodataSections(im) :
       report[k].rodata[Cardinality({x \in RodataSections(im) : x <= n})] =
         BytesOf(im, im.sections[n])

RodataPrinted(conditions(_)) ==
  spc = "done" =>
    \A k \in DOMAIN report : \A im \in Laid :
      IsImage(k, im) /\ report[k].good /\ conditions(im) => PrintsRodata(k, im)

(* All read-only data of a good image is printed and nothing else, when    *)
(* the places and sizes of its sections are below 2^16.                    *)
RodataReadable == RodataPrinted(AllReadable)

(* "We found some read-only data! Here it is": what is printed of a good   *)
(* image is its read-only data, wherever it is in the file.                *)
RodataExact ==
  RodataPrinted(LAMBDA im : \A n \in DOMAIN im.sections :
                  im.sections[n].rodata \/ Readable(im.sections[n].offset))

(* An image the pass may not survive: more entries than a table has, a     *)
(* program header outside the memory, no string table, places readAddr     *)
(* misreads, or read-only data outside the memory; a section whose name    *)
(* the end of the copy cuts may be taken for read-only data.               *)
BeyondLimits(im) ==
  \/ im.shnum > ListSize \/ im.phnum > ListSize
  \/ im.shnum > 0 /\ im.shstrndx >= im.shnum
  \/ \E n \in 1 .. im.phnum : im.at + im.phoff + (n - 1) * im.phentsize + 57 > MemSize
  \/ ~AllReadable(im)
  \/ \E n \in DOMAIN im.sections : LET s == im.sections[n]
       IN /\ s.rodata \/ (s.name # 0 /\ ~NameCopied(im, s))
          /\ im.at + s.offset + s.size >= MemSize

(* The pass ends unless more identities than ELFList has headers are in    *)
(* what is copied, or such an image, or one whose header or section        *)
(* headers the end of the copy cuts.                                       *)
HaltedForCause ==
  spc = "halted" =>
    \/ Cardinality({im \in Laid : im.at < Copied}) > HeadersUpperBound
    \/ \E im \in Laid : im.at < Copied /\ (~Tabled(im) \/ BeyondLimits(im))
=============================================================================
