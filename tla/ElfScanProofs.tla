---------------------------- MODULE ElfScanProofs ----------------------------
(***************************************************************************)
(* A measurement is right for every memory of the guest, every size of its *)
(* pages and every limit of the tables: the copy has each byte where the   *)
(* guest has it, whatever the order the pages were mapped in; the scan     *)
(* lists the images laid in it; and what readAddr leaves out of the fields *)
(* does no harm below 2^16.                                                *)
(***************************************************************************)
EXTENDS ElfScan, FiniteSetTheorems, NumberLemmas

(* The pages mapped so far are mapped to the frames at their own offset.   *)
PagesPlaced ==
  /\ DOMAIN mapped \subseteq Pages
  /\ \A page \in DOMAIN mapped : mapped[page] = (page - linux_ram_base) \div PageSize

(* ... so that the copy has every byte where the guest has it.             *)
CopyInPlace == spc # "boot" => LinuxMem = CopyOf(ram)

MemoryInv ==
  /\ PagesPlaced
  /\ ram \in DOMAIN Rams
  /\ LinuxMem \in [0 .. MemSize - 1 -> 0 .. ByteRange - 1]
  /\ CopyInPlace

(* The loops: how far each has come, by where the pass is.                 *)
LoopInv ==
  /\ spc \in {"boot", "scan", "tables", "print", "sections", "done", "halted"}
  /\ spc = "boot" => ELFList = <<>> /\ cursor = 0
  /\ spc = "scan" => cursor \in 0 .. Copied
  /\ spc \in {"boot", "scan"} => tables = <<>>
  /\ spc \in {"boot", "scan", "tables"} => report = <<>>
  /\ spc = "tables" => Len(tables) = cursor - 1
  /\ spc \in {"tables", "print", "sections", "done"} => cursor \in 1 .. Len(ELFList) + 1
  /\ spc \in {"print", "sections", "done"} =>
       Len(tables) = Len(ELFList) /\ Len(report) = cursor - 1
  /\ spc = "sections" => cursor <= Len(ELFList)
  /\ Len(report) <= Len(tables) /\ Len(tables) <= Len(ELFList)
  /\ Len(ELFList) <= HeadersUpperBound

(* What the scan has come across.                                          *)
AcceptedBelow(n) == {s \in 0 .. n - 1 : Accepted(LinuxMem, s)}
HeadersHere == {ELF64Header(LinuxMem, s) : s \in AcceptedBelow(Copied)}
Starts == {ELFList[k].startIndex : k \in DOMAIN ELFList}

ListInv ==
  /\ ELFList \in Seq(HeadersHere)
  /\ \A k, l \in DOMAIN ELFList : k < l => ELFList[k].startIndex < ELFList[l].startIndex
  /\ spc = "scan" => Starts = AcceptedBelow(cursor)
  /\ spc \in {"tables", "print", "sections", "done"} => Starts = AcceptedBelow(Copied)

(* The tables read are those of the headers and lie in the memory.         *)
TablesHere == {TablesOf(LinuxMem, h) : h \in {x \in HeadersHere : TablesFit(x)}}

TablesInv ==
  /\ tables \in Seq(TablesHere)
  /\ \A k \in DOMAIN tables :
       TablesFit(ELFList[k]) /\ tables[k] = TablesOf(LinuxMem, ELFList[k])

(* What a name found or missed says, without regard to where it should be. *)
Looked ==
  /\ Len(found) <= i
  /\ \A k \in 1 .. Len(found) :
        image.names[k] # 0 => found[k] = NameOffset(image.names[k])
  /\ outcome = "busted" =>
        /\ i < Len(image.names)
        /\ ~InImage(NameOffset(image.names[i + 1]))

(* The image at hand is the one at the cursor.                             *)
ImageInv ==
  spc = "sections" =>
    LET h == ELFList[cursor]
        sections == tables[cursor].sections
    IN /\ h.shstrndx < Len(sections)
       /\ image = ImageOf(LinuxMem, h, sections)
       /\ Len(found) = i
-----------------------------------------------------------------------------
(* The sections that are taken for read-only data, by the names found; the *)
(* contents printed are theirs, in their order.                            *)
RodataNames(m, names) == {n \in DOMAIN names : names[n] # 0 /\ IsRodata(m, names[n])}

OffsetIn(img, name) == AsInt((img.startIndex + readAddr(img.bytes, 0) + name) % Double)

PayloadAt(start, s) ==
  LET payloadOffset == AsInt((start + s.offset) % Double)
  IN payloadOffset .. payloadOffset + AsInt(s.size) - 1

NamesFrom(m, h, sections, names) ==
  \A n \in DOMAIN names :
    LET offset == OffsetIn(ImageOf(m, h, sections), sections[n].name)
    IN /\ h.startIndex < offset /\ offset < MemSize
       /\ names[n] = IF sections[n].name = 0 THEN 0 ELSE offset

RodataFrom(m, h, sections, names, contents) ==
  /\ Len(contents) = Cardinality(RodataNames(m, names))
  /\ \A n \in RodataNames(m, names) :
       /\ PayloadAt(h.startIndex, sections[n]) \subseteq 0 .. MemSize - 1
       /\ contents[Cardinality({x \in RodataNames(m, names) : x <= n})] =
            Contents(m, PayloadAt(h.startIndex, sections[n]))

ReportType == [names : Seq(0 .. MemSize - 1), rodata : Seq(Seq(0 .. ByteRange - 1)),
               good : BOOLEAN]

(* What is printed of an image to its end.                                 *)
ReportedFrom(m, h, sections, entry) ==
  /\ Len(entry.names) = Len(sections)
  /\ sections # <<>> => h.shstrndx < Len(sections)
  /\ NamesFrom(m, h, sections, entry.names)
  /\ RodataFrom(m, h, sections, entry.names, entry.rodata)

ReportInv ==
  /\ rodata \in Seq(Seq(0 .. ByteRange - 1))
  /\ report \in Seq(ReportType)
  /\ spc = "sections" =>
       /\ NamesFrom(LinuxMem, ELFList[cursor], tables[cursor].sections, found)
       /\ RodataFrom(LinuxMem, ELFList[cursor], tables[cursor].sections, found, rodata)
  /\ \A k \in DOMAIN report : report[k].good =>
       ReportedFrom(LinuxMem, ELFList[k], tables[k].sections, report[k])

ScanInv ==
  /\ MemoryInv /\ LoopInv /\ ListInv /\ TablesInv
  /\ NamesTypeOK /\ Looked /\ ImageInv /\ ReportInv

-----------------------------------------------------------------------------
(* The pages and the copy.                                                 *)

(* A page is a whole number of pages into the region.                      *)
LEMMA PagePlace ==
  ASSUME NEW page \in Pages
  PROVE  \E q \in 0 .. (linux_ram_size \div PageSize) - 1 :
           page = linux_ram_base + PageSize * q /\ (page - linux_ram_base) \div PageSize = q
<1> DEFINE D == PageSize
           base == linux_ram_base
           size == linux_ram_size
<1>1. PICK addr \in Region : page = addr - (addr % D)
  BY DEF Pages, RoundDown
<1>2. D \in Nat \ {0} /\ base \in Nat /\ size \in Nat /\ base % D = 0 /\ size % D = 0
  BY RamAssumption
<1>3. addr \in Nat /\ base <= addr /\ addr < base + size
  BY <1>1, <1>2 DEF Region
<1> HIDE DEF D, base, size
<1>4. PICK a \in Int : base = D * a
  <2>1. base = D * (base \div D) + (base % D) /\ base \div D \in Int
    BY <1>2, Division
  <2> QED
    BY <1>2, <2>1
<1>5. PICK n \in Int : size = D * n /\ n = size \div D
  BY <1>2, Division
<1>6. PICK q \in Int, s \in 0 .. D - 1 : addr = D * q + s /\ s = addr % D
  <2>1. addr = D * (addr \div D) + (addr % D) /\ addr \div D \in Int /\ addr % D \in 0 .. D - 1
    BY <1>2, <1>3, Division
  <2> QED
    BY <2>1
<1>7. a <= q
  <2>1. CASE q + 1 <= a
    <3>1. D * (q + 1) <= D * a
      BY <1>2, <2>1, MultiplesInOrder
    <3>2. D * (q + 1) = D * q + D
      BY <1>2
    <3> QED
      BY <1>2, <1>3, <1>4, <1>6, <3>1, <3>2
  <2> QED
    BY <2>1
<1>8. q < a + n
  <2>1. CASE a + n <= q
    <3>1. D * (a + n) <= D * q
      BY <1>2, <2>1, MultiplesInOrder
    <3>2. D * (a + n) = D * a + D * n
      BY <1>2
    <3> QED
      BY <1>2, <1>3, <1>4, <1>5, <1>6, <3>1, <3>2
  <2> QED
    BY <2>1
<1>9. page = base + D * (q - a) /\ q - a \in 0 .. n - 1
  <2>1. page = D * q /\ D * (q - a) = D * q - D * a
    BY <1>1, <1>2, <1>6
  <2> QED
    BY <1>4, <1>7, <1>8, <2>1
<1>10. (page - base) \div D = q - a
  <2>1. page - base = D * (q - a) + 0
    BY <1>2, <1>9
  <2> QED
    BY <1>2, <2>1, UniqueQuotient
<1> QED
  BY <1>5, <1>9, <1>10 DEF D, base, size

(* The page of an offset into the region.                                  *)
LEMMA PageOf ==
  ASSUME NEW a \in 0 .. linux_ram_size - 1
  PROVE  linux_ram_base + PageSize * (a \div PageSize) \in Pages
<1>1. /\ PageSize \in Nat \ {0} /\ linux_ram_base \in Nat /\ linux_ram_size \in Nat
      /\ linux_ram_base % PageSize = 0
  BY RamAssumption
<1>2. PICK b \in Int : linux_ram_base = PageSize * b
  BY <1>1, Division
<1>3. (linux_ram_base + a) % PageSize = a % PageSize
  <2>1. (a + PageSize * b) % PageSize = a % PageSize
    <3> DEFINE D == PageSize
    <3>1. D \in Nat \ {0} /\ a \in Int
      BY <1>1
    <3> HIDE DEF D
    <3>2. (a + D * b) % D = a % D
      BY <1>2, <3>1, Congruent
    <3> QED
      BY <3>2 DEF D
  <2>2. linux_ram_base + a = a + PageSize * b
    BY <1>1, <1>2
  <2> QED
    BY <2>1, <2>2
<1>4. a = PageSize * (a \div PageSize) + (a % PageSize)
  BY <1>1, Division
<1>5. linux_ram_base + a \in Region
  BY <1>1 DEF Region
<1>6. RoundDown(linux_ram_base + a) = linux_ram_base + PageSize * (a \div PageSize)
  <2>1. a % PageSize \in Int /\ PageSize * (a \div PageSize) \in Int
    BY <1>1, Division
  <2> QED
    BY <1>1, <1>3, <1>4, <2>1 DEF RoundDown
<1> QED
  BY <1>5, <1>6 DEF Pages

(* With all pages in their frames, memdev has the guest's bytes in order.  *)
LEMMA MemdevRight ==
  ASSUME PagesPlaced, DOMAIN mapped = Pages, NEW r \in DOMAIN Rams,
         NEW a \in 0 .. linux_ram_size - 1
  PROVE  memdev(r, a) = Rams[r].bytes[a]
<1> DEFINE holders == {page \in DOMAIN mapped : mapped[page] = a \div PageSize}
           p == linux_ram_base + PageSize * (a \div PageSize)
<1>1. PageSize \in Nat \ {0} /\ linux_ram_base \in Nat /\ linux_ram_size \in Nat
  BY RamAssumption
<1>2. a = PageSize * (a \div PageSize) + (a % PageSize) /\ a \div PageSize \in Int
        /\ a % PageSize \in Int
  BY <1>1, Division
<1>3. ASSUME NEW page \in Pages
      PROVE  mapped[page] = a \div PageSize <=> page = p
  <2>1. PICK q \in 0 .. (linux_ram_size \div PageSize) - 1 :
          page = linux_ram_base + PageSize * q /\ (page - linux_ram_base) \div PageSize = q
    BY PagePlace
  <2>2. mapped[page] = q /\ q \in Int
    BY <2>1 DEF PagesPlaced
  <2>3. CASE page = p
    <3>1. page - linux_ram_base = PageSize * (a \div PageSize) + 0
      BY <1>1, <1>2, <2>3
    <3>2. (page - linux_ram_base) \div PageSize = a \div PageSize
      BY <1>1, <1>2, <3>1, UniqueQuotient
    <3> QED
      BY <2>1, <2>2, <2>3, <3>2
  <2> QED
    BY <2>1, <2>2, <2>3
<1>4. holders = {p}
  BY <1>3, PageOf
<1>5. (CHOOSE page \in holders : TRUE) = p
  BY <1>4
<1>6. p + (a % PageSize) - linux_ram_base = a
  <2>1. PageSize * (a \div PageSize) \in Int
    BY <1>1, <1>2
  <2> QED
    BY <1>1, <1>2, <2>1
<1> HIDE DEF p, holders
<1>7. memdev(r, a) = Rams[r].bytes[(CHOOSE page \in holders : TRUE) + (a % PageSize)
                                      - linux_ram_base]
  BY <1>4 DEF memdev, holders
<1> QED
  BY <1>5, <1>6, <1>7

(* A page is its own start, and its frame one of memdev.                   *)
LEMMA FrameRight ==
  ASSUME NEW page \in Pages
  PROVE  /\ RoundDown(page) = page
         /\ Frame(page) = (page - linux_ram_base) \div PageSize
         /\ (page - linux_ram_base) \div PageSize \in Frames
<1>1. PICK q \in 0 .. (linux_ram_size \div PageSize) - 1 :
        page = linux_ram_base + PageSize * q /\ (page - linux_ram_base) \div PageSize = q
  BY PagePlace
<1>2. /\ PageSize \in Nat \ {0} /\ linux_ram_base \in Nat /\ linux_ram_size \in Nat
      /\ linux_ram_base % PageSize = 0 /\ linux_ram_size % PageSize = 0
  BY RamAssumption
<1>3. linux_ram_size = PageSize * (linux_ram_size \div PageSize)
        /\ linux_ram_size \div PageSize \in Int
  BY <1>2, Division
<1>4. page % PageSize = 0
  <2> DEFINE D == PageSize
  <2>1. D \in Nat \ {0} /\ q \in Int /\ linux_ram_base \in Int
    BY <1>1, <1>2, <1>3
  <2> HIDE DEF D
  <2>2. (linux_ram_base + D * q) % D = linux_ram_base % D
    BY <2>1, Congruent
  <2> QED
    BY <1>1, <1>2, <2>2 DEF D
<1>5. linux_ram_base <= page /\ page <= linux_ram_base + linux_ram_size /\ page \in Int
  <2>1. PageSize * 0 <= PageSize * q /\ PageSize * q \in Int
    BY <1>1, <1>2, <1>3, MultiplesInOrder
  <2>2. PageSize * q <= PageSize * (linux_ram_size \div PageSize)
    BY <1>1, <1>2, <1>3, MultiplesInOrder
  <2> QED
    BY <1>1, <1>2, <1>3, <2>1, <2>2
<1>6. RoundDown(page) = page
  BY <1>4, <1>5 DEF RoundDown
<1>7. Frame(page) = (page - linux_ram_base) \div PageSize
  BY <1>2, <1>5 DEF Frame
<1> QED
  BY <1>1, <1>6, <1>7 DEF Frames

LEMMA CopyTyped ==
  ASSUME NEW r \in DOMAIN Rams
  PROVE  CopyOf(r) \in [0 .. MemSize - 1 -> 0 .. ByteRange - 1]
<1>1. /\ Rams[r].bytes \in [0 .. linux_ram_size - 1 -> 0 .. ByteRange - 1]
      /\ Copied \in Nat /\ Copied <= linux_ram_size
      /\ linux_ram_size \in Nat /\ MemSize \in Nat /\ ByteRange \in Nat \ {0}
  BY ScanAssumption, RamAssumption, NamesAssumption
<1> QED
  BY <1>1 DEF CopyOf

LEMMA MemoryInit == ScanInit => MemoryInv
<1> SUFFICES ASSUME ScanInit PROVE MemoryInv
  OBVIOUS
<1>1. PagesPlaced
  BY DEF ScanInit, RamInit, PagesPlaced
<1>2. LinuxMem \in [0 .. MemSize - 1 -> 0 .. ByteRange - 1]
  BY NamesAssumption DEF ScanInit
<1> QED
  BY <1>1, <1>2, ScanAssumption DEF ScanInit, MemoryInv, CopyInPlace

(* The actions after the copy leave the memory alone.                      *)
Measuring ==
  \/ tryReadELF \/ ScanEnds \/ ReadTables \/ TablesRead
  \/ BeginPrint \/ PrintSection \/ EndPrint \/ PassEnds

LEMMA MemoryLeftAlone ==
  Measuring => UNCHANGED <<mapped, ram, LinuxMem>> /\ spc # "boot" /\ spc' # "boot"
<1> SUFFICES ASSUME Measuring
             PROVE  UNCHANGED <<mapped, ram, LinuxMem>> /\ spc # "boot" /\ spc' # "boot"
  OBVIOUS
<1> USE DEF Halt, Printed
<1>1. CASE tryReadELF
  BY <1>1 DEF tryReadELF
<1>2. CASE ScanEnds
  BY <1>2 DEF ScanEnds
<1>3. CASE ReadTables
  BY <1>3 DEF ReadTables
<1>4. CASE TablesRead
  BY <1>4 DEF TablesRead
<1>5. CASE BeginPrint
  BY <1>5 DEF BeginPrint
<1>6. CASE PrintSection
  BY <1>6 DEF PrintSection
<1>7. CASE EndPrint
  BY <1>7 DEF EndPrint
<1>8. CASE PassEnds
  BY <1>8 DEF PassEnds
<1> QED
  BY <1>1, <1>2, <1>3, <1>4, <1>5, <1>6, <1>7, <1>8 DEF Measuring

LEMMA MemoryKept == MemoryInv /\ [ScanNext]_scanVars => MemoryInv'
<1> SUFFICES ASSUME MemoryInv, [ScanNext]_scanVars
             PROVE  MemoryInv'
  OBVIOUS
<1>1. CASE MapPage
  <2>1. PICK page \in Pages : dataport_memory_iterator(page)
    BY <1>1 DEF MapPage
  <2>2. /\ RoundDown(page) = page
        /\ Frame(page) = (page - linux_ram_base) \div PageSize
    BY FrameRight
  <2>3. mapped' = [p \in DOMAIN mapped \cup {page} |->
                     IF p = page THEN Frame(p) ELSE mapped[p]]
    BY <2>1, <2>2 DEF dataport_memory_iterator
  <2>4. PagesPlaced'
    BY <2>2, <2>3 DEF MemoryInv, PagesPlaced
  <2> QED
    BY <1>1, <2>4 DEF MapPage, MemoryInv, CopyInPlace
<1>2. CASE Copy
  <2>1. ram' \in DOMAIN Rams /\ mapped' = mapped /\ DOMAIN mapped = Pages
    BY <1>2 DEF Copy
  <2>2. \A a \in 0 .. MemSize - 1 : a < Copied => memdev(ram', a) = Rams[ram'].bytes[a]
    <3> SUFFICES ASSUME NEW a \in 0 .. MemSize - 1, a < Copied
                 PROVE  memdev(ram', a) = Rams[ram'].bytes[a]
      OBVIOUS
    <3>1. a \in 0 .. linux_ram_size - 1
      BY ScanAssumption, RamAssumption, NamesAssumption
    <3> QED
      BY <2>1, <3>1, MemdevRight DEF MemoryInv
  <2>3. LinuxMem' = CopyOf(ram')
    BY <1>2, <2>2 DEF Copy, CopyOf
  <2>4. PagesPlaced'
    BY <2>1 DEF MemoryInv, PagesPlaced
  <2>5. CopyInPlace'
    BY <2>3 DEF CopyInPlace, CopyOf
  <2> QED
    BY <2>1, <2>3, <2>4, <2>5, CopyTyped DEF MemoryInv
<1>3. CASE Measuring
  BY <1>3, MemoryLeftAlone DEF MemoryInv, PagesPlaced, CopyInPlace, CopyOf
<1>4. CASE UNCHANGED scanVars
  BY <1>4 DEF scanVars, MemoryInv, PagesPlaced, CopyInPlace, CopyOf
<1> QED
  BY <1>1, <1>2, <1>3, <1>4 DEF ScanNext, Measuring

(* Whatever the order the pages were mapped in, the copy has every byte    *)
(* of the guest's memory where the guest has it (init_dataport_ram.c:26-43 *)
(* and the memcpy of run()).                                               *)
THEOREM CopyRight == ScanSpec => []CopyInPlace
<1>1. ScanSpec => []MemoryInv
  BY MemoryInit, MemoryKept, PTL DEF ScanSpec
<1> QED
  BY <1>1, PTL DEF MemoryInv

-----------------------------------------------------------------------------
(* The scan.                                                               *)
Memory == [0 .. MemSize - 1 -> 0 .. ByteRange - 1]

LEMMA WordOK ==
  /\ Word \in Nat \ {0} /\ Double \in Nat \ {0}
  /\ ByteRange \in Nat \ {0, 1} /\ MemSize \in Nat
<1>1. ByteRange \in Nat \ {0}
  BY NamesAssumption
<1>2. \A a, b \in Nat \ {0} : a * b \in Nat \ {0}
  OBVIOUS
<1>3. Word \in Nat \ {0} /\ Double \in Nat \ {0}
  BY <1>1, <1>2, Zenon DEF Word, Double
<1> QED
  BY <1>3, NamesAssumption

LEMMA ByteAt ==
  ASSUME NEW m \in Memory, NEW a \in 0 .. MemSize - 1
  PROVE  m[a] \in 0 .. ByteRange - 1 /\ m[a] \in Nat
  BY WordOK DEF Memory

LEMMA LittleEndianInt ==
  ASSUME NEW a \in Nat, NEW b \in Nat, NEW c \in Nat, NEW d \in Nat
  PROVE  LittleEndian(a, b, c, d) \in Nat
<1> DEFINE B == ByteRange
           B2 == ByteRange * ByteRange
           B3 == ByteRange * ByteRange * ByteRange
<1>1. B \in Nat /\ B2 \in Nat /\ B3 \in Nat
  BY WordOK
<1> HIDE DEF B, B2, B3
<1>2. a + B * b + B2 * c + B3 * d \in Nat
  BY <1>1
<1> QED
  BY <1>2 DEF LittleEndian, B, B2, B3

LEMMA LittleEndianWord ==
  ASSUME NEW a \in 0 .. ByteRange - 1, NEW b \in 0 .. ByteRange - 1,
         NEW c \in 0 .. ByteRange - 1, NEW d \in 0 .. ByteRange - 1
  PROVE  LittleEndian(a, b, c, d) \in 0 .. Word - 1
<1> DEFINE B == ByteRange
           B2 == ByteRange * ByteRange
           B3 == ByteRange * ByteRange * ByteRange
<1>1. B \in Nat /\ B2 \in Nat /\ B3 \in Nat
  BY WordOK
<1>2. B * (B - 1) = B2 - B
  BY <1>1
<1>3. B2 * (B - 1) = B3 - B2 /\ B3 * (B - 1) = Word - B3
  BY <1>1 DEF Word
<1>4. a \in Nat /\ b \in Nat /\ c \in Nat /\ d \in Nat
        /\ a <= B - 1 /\ b <= B - 1 /\ c <= B - 1 /\ d <= B - 1 /\ B - 1 \in Int
  BY <1>1
<1>5. LittleEndian(a, b, c, d) = a + B * b + B2 * c + B3 * d
  BY DEF LittleEndian
<1> HIDE DEF B, B2, B3
<1>6. B * b <= B2 - B /\ B2 * c <= B3 - B2 /\ B3 * d <= Word - B3
  BY <1>1, <1>2, <1>3, <1>4, MultiplesInOrder
<1>7. B * b \in Nat /\ B2 * c \in Nat /\ B3 * d \in Nat
  BY <1>1, <1>4
<1> QED
  BY <1>1, <1>4, <1>5, <1>6, <1>7, WordOK

LEMMA readWordTyped ==
  ASSUME NEW m \in Memory, NEW s \in Nat, s + 3 < MemSize
  PROVE  readWord(m, s) \in 0 .. Word - 1
<1>1. s \in 0 .. MemSize - 1 /\ s + 1 \in 0 .. MemSize - 1 /\ s + 2 \in 0 .. MemSize - 1
        /\ s + 3 \in 0 .. MemSize - 1
  BY WordOK
<1> QED
  BY <1>1, ByteAt, LittleEndianWord DEF readWord

LEMMA readHalfTyped ==
  ASSUME NEW m \in Memory, NEW s \in Nat, s + 1 < MemSize
  PROVE  readHalf(m, s) \in Nat
<1>1. s \in 0 .. MemSize - 1 /\ s + 1 \in 0 .. MemSize - 1
  BY WordOK
<1>2. m[s] \in Nat /\ m[s + 1] \in Nat
  BY <1>1, ByteAt
<1>3. ByteRange * m[s + 1] \in Nat
  BY <1>2, WordOK
<1> QED
  BY <1>2, <1>3 DEF readHalf

HeaderType ==
  [startIndex : 0 .. Copied - 1, type : Nat, phoff : Nat, shoff : Nat, phentsize : Nat,
   phnum : Nat, shentsize : Nat, shnum : Nat, shstrndx : Nat]

LEMMA HeaderTyped ==
  ASSUME NEW m \in Memory, NEW s \in 0 .. Copied - 1
  PROVE  ELF64Header(m, s) \in HeaderType
<1>1. Copied \in Nat /\ Copied + 64 < MemSize /\ s \in Nat
  BY ScanAssumption
<1>2. \A n \in 0 .. 62 : readHalf(m, s + n) \in Nat
  BY <1>1, WordOK, readHalfTyped
<1>3. \A n \in 0 .. 60 : readWord(m, s + n) \in Nat
  <2> SUFFICES ASSUME NEW n \in 0 .. 60 PROVE readWord(m, s + n) \in Nat
    OBVIOUS
  <2>1. readWord(m, s + n) \in 0 .. Word - 1
    BY <1>1, WordOK, readWordTyped
  <2> QED
    BY <2>1, WordOK
<1> QED
  BY <1>2, <1>3 DEF ELF64Header, HeaderType

LEMMA HeadersTyped ==
  ASSUME MemoryInv, NEW h \in HeadersHere
  PROVE  /\ h \in HeaderType
         /\ h = ELF64Header(LinuxMem, h.startIndex)
         /\ h.startIndex \in AcceptedBelow(Copied)
<1>1. PICK s \in AcceptedBelow(Copied) : h = ELF64Header(LinuxMem, s)
  BY DEF HeadersHere
<1>2. h.startIndex = s
  BY <1>1 DEF ELF64Header
<1>3. s \in 0 .. Copied - 1 /\ LinuxMem \in Memory
  BY <1>1 DEF AcceptedBelow, MemoryInv, Memory
<1> QED
  BY <1>1, <1>2, <1>3, HeaderTyped

LEMMA MinRight ==
  ASSUME NEW S \in SUBSET Nat, S # {}
  PROVE  Min(S) \in S /\ \A x \in S : Min(S) <= x
<1>1. \E m \in S : \A k \in S : m <= k
  BY LeastElement
<1> QED
  BY <1>1 DEF Min

(* The byte the scan goes on to is the next that can begin an identity.    *)
LEMMA NextCandidate ==
  ASSUME MemoryInv, cursor \in 0 .. Copied, Candidates # {}
  PROVE  LET j == Min(Candidates)
         IN /\ j \in cursor .. Copied - 1
            /\ \A s \in cursor .. j - 1 : ~Accepted(LinuxMem, s)
<1> DEFINE j == Min(Candidates)
<1>1. Copied \in Nat
  BY ScanAssumption
<1>2. Candidates \in SUBSET Nat
  BY <1>1 DEF Candidates
<1>3. j \in Candidates /\ \A x \in Candidates : j <= x
  BY <1>2, MinRight
<1>4. j \in cursor .. Copied - 1
  BY <1>3 DEF Candidates
<1> HIDE DEF j
<1>5. ASSUME NEW s \in cursor .. j - 1
      PROVE  ~Accepted(LinuxMem, s)
  <2>1. s \in cursor .. Copied - 1 /\ ~(j <= s) /\ s \in Int
    BY <1>1, <1>4
  <2>2. LinuxMem[s] # Magic[1]
    BY <1>3, <2>1 DEF Candidates
  <2>3. s + 0 = s /\ 0 + 1 = 1 /\ 0 \in 0 .. 15
    BY <2>1
  <2>4. ~matchELFHeader(LinuxMem, s)
    BY <2>2, <2>3 DEF matchELFHeader
  <2> QED
    BY <2>4 DEF Accepted
<1> QED
  BY <1>4, <1>5 DEF j

LEMMA NoCandidate ==
  ASSUME cursor \in 0 .. Copied, Candidates = {}, NEW s \in cursor .. Copied - 1
  PROVE  ~Accepted(LinuxMem, s)
<1>1. LinuxMem[s] # Magic[1]
  BY DEF Candidates
<1>2. s + 0 = s /\ 0 + 1 = 1 /\ 0 \in 0 .. 15
  BY ScanAssumption
<1>3. ~matchELFHeader(LinuxMem, s)
  BY <1>1, <1>2 DEF matchELFHeader
<1> QED
  BY <1>3 DEF Accepted

LEMMA ListInit == ScanInit => ListInv
<1> SUFFICES ASSUME ScanInit PROVE ListInv
  OBVIOUS
<1>1. ELFList \in Seq(HeadersHere)
  BY DEF ScanInit
<1> QED
  BY <1>1 DEF ScanInit, ListInv

(* ListInv looks at nothing but the memory, the list and where the scan is.*)
LEMMA ListSame ==
  ASSUME ListInv, UNCHANGED <<LinuxMem, ELFList>>,
         \/ spc' = "halted"
         \/ UNCHANGED <<spc, cursor>>
         \/ /\ spc \in {"tables", "print", "sections", "done"}
            /\ spc' \in {"tables", "print", "sections", "done"}
  PROVE  ListInv'
<1>1. /\ AcceptedBelow(Copied)' = AcceptedBelow(Copied)
      /\ HeadersHere' = HeadersHere /\ Starts' = Starts
  BY DEF AcceptedBelow, HeadersHere, Starts
<1>2. UNCHANGED <<spc, cursor>> => AcceptedBelow(cursor)' = AcceptedBelow(cursor)
  BY DEF AcceptedBelow
<1> QED
  BY <1>1, <1>2 DEF ListInv

LEMMA ListKept == MemoryInv /\ LoopInv /\ ListInv /\ [ScanNext]_scanVars => ListInv'
<1> SUFFICES ASSUME MemoryInv, LoopInv, ListInv, [ScanNext]_scanVars
             PROVE  ListInv'
  OBVIOUS
<1>1. CASE MapPage
  BY <1>1, ListSame DEF MapPage
<1>2. CASE Copy
  <2>1. ELFList = <<>> /\ ELFList' = <<>> /\ cursor' = 0 /\ spc' = "scan"
    BY <1>2 DEF Copy, LoopInv
  <2>2. ELFList' \in Seq(HeadersHere')
    BY <2>1
  <2>3. AcceptedBelow(cursor)' = {} /\ Starts' = {}
    BY <2>1 DEF AcceptedBelow, Starts
  <2> QED
    BY <2>1, <2>2, <2>3 DEF ListInv
<1>3. CASE tryReadELF
  <2> DEFINE j == Min(Candidates)
  <2>1. spc = "scan" /\ cursor \in 0 .. Copied /\ Copied \in Nat
    BY <1>3, ScanAssumption DEF tryReadELF, LoopInv
  <2>2. CASE matchELFHeader(LinuxMem, j) /\ ListFull
    BY <1>3, <2>2, ListSame DEF tryReadELF, Halt
  <2>3. CASE ~(matchELFHeader(LinuxMem, j) /\ ListFull)
    <3>1. /\ j \in cursor .. Copied - 1
          /\ \A s \in cursor .. j - 1 : ~Accepted(LinuxMem, s)
      BY <1>3, <2>1, NextCandidate DEF tryReadELF
    <3>2. /\ cursor' = j + 1 /\ UNCHANGED <<LinuxMem, spc>>
          /\ ELFList' = IF Accepted(LinuxMem, j)
                        THEN Append(ELFList, ELF64Header(LinuxMem, j)) ELSE ELFList
      BY <1>3, <2>3 DEF tryReadELF
    <3> HIDE DEF j
    <3>3. HeadersHere' = HeadersHere /\ j \in 0 .. Copied - 1 /\ j \in Nat
      BY <2>1, <3>1, <3>2 DEF HeadersHere, AcceptedBelow
    <3>4. ASSUME NEW s \in Int
          PROVE  s \in AcceptedBelow(cursor)' <=>
                   s \in AcceptedBelow(cursor) \/ (s = j /\ Accepted(LinuxMem, j))
      BY <2>1, <3>1, <3>2, <3>3 DEF AcceptedBelow
    <3>5. AcceptedBelow(cursor)' =
            AcceptedBelow(cursor) \cup (IF Accepted(LinuxMem, j) THEN {j} ELSE {})
      <4>1. AcceptedBelow(cursor)' \subseteq Int /\ AcceptedBelow(cursor) \subseteq Int
        BY <2>1, <3>2, <3>3 DEF AcceptedBelow
      <4> QED
        BY <3>3, <3>4, <4>1
    <3>6. CASE ~Accepted(LinuxMem, j)
      <4>1. ELFList' = ELFList /\ Starts' = Starts
        BY <3>2, <3>6 DEF Starts
      <4> QED
        BY <2>1, <3>2, <3>3, <3>5, <3>6, <4>1 DEF ListInv
    <3>7. CASE Accepted(LinuxMem, j)
      <4> DEFINE h == ELF64Header(LinuxMem, j)
      <4>1. h \in HeadersHere /\ h.startIndex = j
        BY <3>3, <3>7 DEF HeadersHere, AcceptedBelow, ELF64Header
      <4> HIDE DEF h
      <4>2. /\ ELFList' = Append(ELFList, h) /\ ELFList \in Seq(HeadersHere)
            /\ Len(ELFList) \in Nat
        BY <3>2, <3>7 DEF h, ListInv
      <4>3. /\ ELFList' \in Seq(HeadersHere) /\ Len(ELFList') = Len(ELFList) + 1
            /\ \A k \in 1 .. Len(ELFList) : ELFList'[k] = ELFList[k]
            /\ ELFList'[Len(ELFList) + 1] = h
        BY <4>1, <4>2
      <4>4. DOMAIN ELFList = 1 .. Len(ELFList) /\ DOMAIN ELFList' = 1 .. Len(ELFList) + 1
        BY <4>2, <4>3
      <4>5. \A k \in DOMAIN ELFList : ELFList[k].startIndex < j /\ ELFList[k].startIndex \in Int
        <5>1. Starts = AcceptedBelow(cursor)
          BY <2>1 DEF ListInv
        <5>2. \A x \in AcceptedBelow(cursor) : x < j /\ x \in Int
          BY <2>1, <3>1 DEF AcceptedBelow
        <5> QED
          BY <5>1, <5>2 DEF Starts
      <4>6. \A k, l \in DOMAIN ELFList' : k < l => ELFList'[k].startIndex < ELFList'[l].startIndex
        <5> SUFFICES ASSUME NEW k \in 1 .. Len(ELFList) + 1, NEW l \in 1 .. Len(ELFList) + 1,
                            k < l
                     PROVE  ELFList'[k].startIndex < ELFList'[l].startIndex
          BY <4>4
        <5>1. CASE l = Len(ELFList) + 1
          BY <4>1, <4>2, <4>3, <4>4, <4>5, <5>1
        <5>2. CASE l # Len(ELFList) + 1
          BY <4>2, <4>3, <4>4, <5>2 DEF ListInv
        <5> QED
          BY <5>1, <5>2
      <4>7. Starts' = Starts \cup {j}
        BY <4>1, <4>2, <4>3, <4>4 DEF Starts
      <4> QED
        BY <2>1, <3>2, <3>3, <3>5, <3>7, <4>3, <4>6, <4>7 DEF ListInv
    <3> QED
      BY <3>6, <3>7
  <2> QED
    BY <2>2, <2>3
<1>4. CASE ScanEnds
  <2>1. /\ spc = "scan" /\ cursor \in 0 .. Copied /\ Copied \in Nat /\ Candidates = {}
        /\ spc' = "tables" /\ UNCHANGED <<LinuxMem, ELFList>>
    BY <1>4, ScanAssumption DEF ScanEnds, LoopInv
  <2>2. AcceptedBelow(cursor) = AcceptedBelow(Copied)
    BY <2>1, NoCandidate DEF AcceptedBelow
  <2>3. /\ AcceptedBelow(Copied)' = AcceptedBelow(Copied)
        /\ HeadersHere' = HeadersHere /\ Starts' = Starts
    BY <2>1 DEF AcceptedBelow, HeadersHere, Starts
  <2> QED
    BY <2>1, <2>2, <2>3 DEF ListInv
<1>5. CASE ReadTables
  BY <1>5, ListSame DEF ReadTables, Halt
<1>6. CASE TablesRead
  BY <1>6, ListSame DEF TablesRead
<1>7. CASE BeginPrint
  BY <1>7, ListSame DEF BeginPrint, Halt, Printed
<1>8. CASE PrintSection
  BY <1>8, ListSame DEF PrintSection, Halt
<1>9. CASE EndPrint
  BY <1>9, ListSame DEF EndPrint, Printed
<1>10. CASE PassEnds
  BY <1>10, ListSame DEF PassEnds
<1>11. CASE UNCHANGED scanVars
  BY <1>11, ListSame DEF scanVars
<1> QED
  BY <1>1, <1>2, <1>3, <1>4, <1>5, <1>6, <1>7, <1>8, <1>9, <1>10, <1>11 DEF ScanNext

-----------------------------------------------------------------------------
(* The tables, and how far the loops have come.                            *)
LEMMA TablesSame ==
  ASSUME TablesInv, UNCHANGED <<LinuxMem, ELFList, tables>>
  PROVE  TablesInv'
<1>1. TablesHere' = TablesHere
  BY DEF TablesHere, HeadersHere, AcceptedBelow
<1>2. \A k \in DOMAIN tables' : TablesFit(ELFList'[k])
  BY DEF TablesInv
<1> QED
  BY <1>1, <1>2 DEF TablesInv

LEMMA NoTables ==
  /\ tables = <<>> => TablesInv
  /\ tables' = <<>> => TablesInv'
<1>1. \A S : <<>> \in Seq(S) /\ DOMAIN <<>> = {}
  OBVIOUS
<1> QED
  BY <1>1 DEF TablesInv

LEMMA TablesKept ==
  LoopInv /\ ListInv /\ TablesInv /\ [ScanNext]_scanVars => TablesInv'
<1> SUFFICES ASSUME LoopInv, ListInv, TablesInv, [ScanNext]_scanVars
             PROVE  TablesInv'
  OBVIOUS
<1>0. tables' = <<>> => TablesInv'
  BY NoTables
<1>1. CASE MapPage
  BY <1>1, TablesSame DEF MapPage
<1>2. CASE Copy
  BY <1>0, <1>2 DEF Copy, LoopInv
<1>3. CASE tryReadELF
  BY <1>0, <1>3 DEF tryReadELF, Halt, LoopInv
<1>4. CASE ScanEnds
  BY <1>4, TablesSame DEF ScanEnds
<1>5. CASE ReadTables
  <2> DEFINE h == ELFList[cursor]
             t == TablesOf(LinuxMem, h)
  <2>1. CASE ~TablesFit(h)
    BY <1>5, <2>1, TablesSame DEF ReadTables, Halt
  <2>2. CASE TablesFit(h)
    <3>1. tables' = Append(tables, t) /\ UNCHANGED <<LinuxMem, ELFList>>
      BY <1>5, <2>2 DEF ReadTables
    <3>2. Len(tables) = cursor - 1 /\ cursor \in 1 .. Len(ELFList) /\ ELFList \in Seq(HeadersHere)
      BY <1>5 DEF ReadTables, LoopInv, ListInv
    <3>3. h \in HeadersHere /\ t \in TablesHere
      BY <2>2, <3>2 DEF TablesHere
    <3>4. TablesHere' = TablesHere
      BY <3>1 DEF TablesHere, HeadersHere, AcceptedBelow
    <3>5. TablesOf(LinuxMem', h) = t
      BY <3>1
    <3> HIDE DEF t
    <3>6. /\ tables' \in Seq(TablesHere) /\ DOMAIN tables' = 1 .. cursor
          /\ tables'[cursor] = t
          /\ \A k \in 1 .. cursor - 1 : tables'[k] = tables[k] /\ k \in DOMAIN tables
      BY <3>1, <3>2, <3>3 DEF TablesInv
    <3>7. ASSUME NEW k \in DOMAIN tables'
          PROVE  TablesFit(ELFList'[k]) /\ tables'[k] = TablesOf(LinuxMem', ELFList'[k])
      <4>1. CASE k = cursor
        BY <2>2, <3>1, <3>5, <3>6, <4>1
      <4>2. CASE k # cursor
        <5>1. tables'[k] = tables[k] /\ k \in DOMAIN tables
          BY <3>2, <3>6, <3>7, <4>2
        <5> QED
          BY <3>1, <5>1 DEF TablesInv
      <4> QED
        BY <4>1, <4>2
    <3> QED
      BY <3>4, <3>6, <3>7 DEF TablesInv
  <2> QED
    BY <2>1, <2>2
<1>6. CASE TablesRead
  BY <1>6, TablesSame DEF TablesRead
<1>7. CASE BeginPrint
  BY <1>7, TablesSame DEF BeginPrint, Halt, Printed
<1>8. CASE PrintSection
  BY <1>8, TablesSame DEF PrintSection, Halt
<1>9. CASE EndPrint
  BY <1>9, TablesSame DEF EndPrint, Printed
<1>10. CASE PassEnds
  BY <1>10, TablesSame DEF PassEnds
<1>11. CASE UNCHANGED scanVars
  BY <1>11, TablesSame DEF scanVars
<1> QED
  BY <1>1, <1>2, <1>3, <1>4, <1>5, <1>6, <1>7, <1>8, <1>9, <1>10, <1>11 DEF ScanNext

LEMMA LoopInit == ScanInit => LoopInv
<1> SUFFICES ASSUME ScanInit PROVE LoopInv
  OBVIOUS
<1>1. HeadersUpperBound \in Nat
  BY ScanAssumption
<1>2. Len(<<>>) = 0
  OBVIOUS
<1> QED
  BY <1>1, <1>2 DEF ScanInit, LoopInv

LEMMA LoopKept ==
  LoopInv /\ ListInv /\ TablesInv /\ ReportInv /\ [ScanNext]_scanVars => LoopInv'
<1> SUFFICES ASSUME LoopInv, ListInv, TablesInv, ReportInv, [ScanNext]_scanVars
             PROVE  LoopInv'
  OBVIOUS
<1>0. /\ ELFList \in Seq(HeadersHere) /\ Len(ELFList) \in Nat
      /\ tables \in Seq(TablesHere) /\ Len(tables) \in Nat
      /\ report \in Seq(ReportType) /\ Len(report) \in Nat
      /\ Copied \in Nat /\ HeadersUpperBound \in Nat
  BY ScanAssumption DEF ListInv, TablesInv, ReportInv
<1>1. CASE MapPage
  BY <1>1 DEF MapPage, LoopInv
<1>2. CASE Copy
  BY <1>0, <1>2 DEF Copy, LoopInv
<1>3. CASE tryReadELF
  <2> DEFINE j == Min(Candidates)
  <2>1. CASE matchELFHeader(LinuxMem, j) /\ ListFull
    BY <1>3, <2>1 DEF tryReadELF, Halt, LoopInv
  <2>2. CASE ~(matchELFHeader(LinuxMem, j) /\ ListFull)
    <3>1. spc = "scan" /\ spc' = "scan" /\ cursor' = j + 1 /\ UNCHANGED <<tables, report>>
      BY <1>3, <2>2 DEF tryReadELF
    <3>2. Len(ELFList') <= HeadersUpperBound /\ Len(ELFList') \in Nat
      <4>1. CASE Accepted(LinuxMem, j)
        <5>1. ELFList' = Append(ELFList, ELF64Header(LinuxMem, j))
          BY <1>3, <2>2, <4>1 DEF tryReadELF
        <5>2. ~ListFull
          BY <2>2, <4>1 DEF Accepted
        <5>3. Len(ELFList') = Len(ELFList) + 1
          BY <1>0, <5>1
        <5> QED
          BY <1>0, <5>2, <5>3 DEF ListFull
      <4>2. CASE ~Accepted(LinuxMem, j)
        BY <1>0, <1>3, <2>2, <4>2 DEF tryReadELF, LoopInv
      <4> QED
        BY <4>1, <4>2
    <3>3. j \in 0 .. Copied - 1
      <4>1. Candidates \in SUBSET Nat /\ Candidates # {} /\ Candidates \subseteq 0 .. Copied - 1
        BY <1>0, <1>3, <3>1 DEF tryReadELF, Candidates, LoopInv
      <4> QED
        BY <4>1, MinRight
    <3>4. tables' = <<>> /\ report' = <<>> /\ Len(<<>>) = 0
      BY <3>1 DEF LoopInv
    <3> HIDE DEF j
    <3> QED
      BY <1>0, <3>1, <3>2, <3>3, <3>4 DEF LoopInv
  <2> QED
    BY <2>1, <2>2
<1>4. CASE ScanEnds
  <2>1. Len(<<>>) = 0
    OBVIOUS
  <2> QED
    BY <1>0, <1>4, <2>1 DEF ScanEnds, LoopInv
<1>5. CASE ReadTables
  <2>1. CASE ~TablesFit(ELFList[cursor])
    BY <1>5, <2>1 DEF ReadTables, Halt, LoopInv
  <2>2. CASE TablesFit(ELFList[cursor])
    <3>1. /\ tables' = Append(tables, TablesOf(LinuxMem, ELFList[cursor]))
          /\ cursor' = cursor + 1 /\ UNCHANGED <<spc, ELFList, report>>
          /\ spc = "tables" /\ cursor <= Len(ELFList)
      BY <1>5, <2>2 DEF ReadTables
    <3>2. Len(tables') = Len(tables) + 1
      BY <1>0, <3>1
    <3> QED
      BY <1>0, <3>1, <3>2 DEF LoopInv
  <2> QED
    BY <2>1, <2>2
<1>6. CASE TablesRead
  <2>1. Len(<<>>) = 0
    OBVIOUS
  <2> QED
    BY <1>0, <1>6, <2>1 DEF TablesRead, LoopInv
<1>7. CASE BeginPrint
  <2>1. CASE Printed(TRUE)
    <3>1. Len(report') = Len(report) + 1
      BY <1>0, <2>1 DEF Printed
    <3> QED
      BY <1>0, <1>7, <2>1, <3>1 DEF BeginPrint, Printed, LoopInv
  <2>2. CASE Halt
    BY <1>7, <2>2 DEF Halt, LoopInv
  <2>3. CASE spc' = "sections" /\ UNCHANGED <<cursor, ELFList, tables, report>>
    BY <1>0, <1>7, <2>3 DEF BeginPrint, LoopInv
  <2> QED
    BY <1>7, <2>1, <2>2, <2>3 DEF BeginPrint
<1>8. CASE PrintSection
  BY <1>0, <1>8 DEF PrintSection, Halt, LoopInv
<1>9. CASE EndPrint
  <2>1. PICK good \in BOOLEAN : Printed(good)
    BY <1>9 DEF EndPrint
  <2>2. Len(report') = Len(report) + 1
    BY <1>0, <2>1 DEF Printed
  <2> QED
    BY <1>0, <1>9, <2>1, <2>2 DEF EndPrint, Printed, LoopInv
<1>10. CASE PassEnds
  BY <1>0, <1>10 DEF PassEnds, LoopInv
<1>11. CASE UNCHANGED scanVars
  BY <1>11 DEF scanVars, LoopInv
<1> QED
  BY <1>1, <1>2, <1>3, <1>4, <1>5, <1>6, <1>7, <1>8, <1>9, <1>10, <1>11 DEF ScanNext

-----------------------------------------------------------------------------
(* The names.                                                              *)
LEMMA AsIntInt ==
  ASSUME NEW x \in Int
  PROVE  AsInt(x) \in Int
<1>1. x % Word \in Int
  BY WordOK, Division
<1> QED
  BY <1>1, WordOK DEF AsInt

LEMMA readAddrTyped ==
  ASSUME NEW n \in Nat, NEW m \in [0 .. n - 1 -> 0 .. ByteRange - 1],
         NEW s \in Nat, s + 8 < n
  PROVE  readAddr(m, s) \in Nat
<1>0. \A a \in 0 .. n - 1 : m[a] \in Nat
  BY WordOK
<1>1. /\ m[s] \in Nat /\ m[s+1] \in Nat /\ m[s+3] \in Nat /\ m[s+4] \in Nat
      /\ m[s+5] \in Nat /\ m[s+6] \in Nat /\ m[s+7] \in Nat /\ m[s+8] \in Nat
  BY <1>0
<1>2. /\ LittleEndian(m[s], m[s+1], m[s+3], m[s+4]) \in Nat
      /\ LittleEndian(m[s+5], m[s+6], m[s+7], m[s+8]) \in Nat
  BY <1>1, LittleEndianInt
<1>3. \A x, y \in Nat : x + Word * y \in Nat
  BY WordOK
<1> HIDE DEF LittleEndian
<1> QED
  BY <1>2, <1>3 DEF readAddr

SectionType == [name : 0 .. Word - 1, offset : Nat, size : Nat]

(* What the section table of header k holds.                               *)
LEMMA SectionsRight ==
  ASSUME MemoryInv, LoopInv, ListInv, TablesInv, NEW k \in DOMAIN tables
  PROVE  LET h == ELFList[k]
             sections == tables[k].sections
         IN /\ k \in DOMAIN ELFList /\ h \in HeadersHere /\ h \in HeaderType
            /\ sections \in Seq(SectionType)
            /\ Len(sections) = NumEntries(h.shnum)
            /\ NumEntries(h.shnum) \in 0 .. ByteRange - 1
            /\ \A n \in 1 .. Len(sections) :
                 /\ sections[n] = SectionHeader(LinuxMem, SectionAt(h, n - 1))
                 /\ SectionAt(h, n - 1) \in 0 .. MemSize - 65
<1> DEFINE h == ELFList[k]
           sections == tables[k].sections
           N == NumEntries(h.shnum)
<1>1. k \in DOMAIN ELFList
  BY DEF LoopInv, ListInv, TablesInv
<1>2. h \in HeadersHere
  BY <1>1 DEF ListInv
<1>3. h \in HeaderType
  BY <1>2, HeadersTyped
<1>4. N \in 0 .. ByteRange - 1
  <2>1. h.shnum \in Nat
    BY <1>3 DEF HeaderType
  <2>2. h.shnum \in Int /\ ByteRange \in Nat \ {0}
    BY <2>1, WordOK
  <2>3. h.shnum % ByteRange \in 0 .. ByteRange - 1
    BY <2>2, Division
  <2> QED
    BY <2>3 DEF NumEntries
<1>5. TablesFit(h) /\ tables[k] = TablesOf(LinuxMem, h)
  BY DEF TablesInv
<1>6. sections = [n \in 1 .. N |-> SectionHeader(LinuxMem, SectionAt(h, n - 1))]
  BY <1>5 DEF TablesOf
<1>7. ASSUME NEW n \in 1 .. N
      PROVE  SectionAt(h, n - 1) \in 0 .. MemSize - 65
  <2>1. n - 1 \in 0 .. NumEntries(h.shnum) - 1
    BY <1>4
  <2> QED
    BY <1>5, <2>1 DEF TablesFit
<1>8. ASSUME NEW n \in 1 .. N
      PROVE  SectionHeader(LinuxMem, SectionAt(h, n - 1)) \in SectionType
  <2> DEFINE a == SectionAt(h, n - 1)
  <2>1. a \in Nat /\ a + 64 < MemSize /\ LinuxMem \in Memory
    BY <1>7, <1>8, WordOK DEF MemoryInv, Memory
  <2> HIDE DEF a
  <2>2. readWord(LinuxMem, a) \in 0 .. Word - 1
    BY <2>1, WordOK, readWordTyped
  <2>3. readAddr(LinuxMem, a + 24) \in Nat /\ readAddr(LinuxMem, a + 32) \in Nat
    BY <2>1, WordOK, readAddrTyped DEF Memory
  <2> QED
    BY <2>2, <2>3 DEF SectionHeader, SectionType, a
<1> HIDE DEF h, sections, N
<1>9. sections \in Seq(SectionType) /\ Len(sections) = N
  BY <1>4, <1>6, <1>8
<1>10. \A n \in 1 .. Len(sections) : sections[n] = SectionHeader(LinuxMem, SectionAt(h, n - 1))
  BY <1>6, <1>9
<1> QED
  BY <1>1, <1>2, <1>3, <1>4, <1>7, <1>9, <1>10 DEF h, sections, N

(* The image at hand has the types that the search for its names expects.  *)
LEMMA ImageRight ==
  ASSUME MemoryInv, LoopInv, ListInv, TablesInv, NEW k \in DOMAIN tables,
         ELFList[k].shstrndx < Len(tables[k].sections)
  PROVE  ImageOf(LinuxMem, ELFList[k], tables[k].sections) \in ImageType
<1> DEFINE h == ELFList[k]
           sections == tables[k].sections
           a == SectionAt(h, h.shstrndx)
<1>1. /\ h \in HeaderType /\ sections \in Seq(SectionType) /\ Len(sections) \in Nat
      /\ \A n \in 1 .. Len(sections) : SectionAt(h, n - 1) \in 0 .. MemSize - 65
  BY SectionsRight
<1>2. h.shstrndx \in Nat /\ h.startIndex \in 0 .. Copied - 1
  BY <1>1 DEF HeaderType
<1>3. h.shstrndx + 1 \in 1 .. Len(sections) /\ (h.shstrndx + 1) - 1 = h.shstrndx
  BY <1>1, <1>2
<1>4. a \in 0 .. MemSize - 65
  BY <1>1, <1>3
<1>5. h.startIndex \in 0 .. MemSize - 1
  BY <1>2, ScanAssumption, WordOK
<1>6. \A n \in 0 .. 8 : LinuxMem[a + 24 + n] \in 0 .. ByteRange - 1
  <2> SUFFICES ASSUME NEW n \in 0 .. 8
               PROVE  LinuxMem[a + 24 + n] \in 0 .. ByteRange - 1
    OBVIOUS
  <2>1. a + 24 + n \in 0 .. MemSize - 1
    BY <1>4, WordOK
  <2> QED
    BY <2>1, ByteAt DEF MemoryInv, Memory
<1>7. [n \in DOMAIN sections |-> sections[n].name] \in Seq(0 .. Word - 1)
  <2> HIDE DEF sections
  <2>1. DOMAIN sections = 1 .. Len(sections)
    BY <1>1
  <2>2. \A n \in 1 .. Len(sections) : sections[n].name \in 0 .. Word - 1
    <3>1. \A n \in 1 .. Len(sections) : sections[n] \in SectionType
      BY <1>1
    <3> QED
      BY <3>1 DEF SectionType
  <2> QED
    BY <1>1, <2>1, <2>2
<1> HIDE DEF a, h, sections
<1>8. ImageOf(LinuxMem, h, sections) =
        [bytes |-> [n \in 0 .. 8 |-> LinuxMem[a + 24 + n]],
         startIndex |-> h.startIndex,
         names |-> [n \in DOMAIN sections |-> sections[n].name]]
  BY DEF ImageOf, a
<1>9. [n \in 0 .. 8 |-> LinuxMem[a + 24 + n]] \in [0 .. 8 -> 0 .. ByteRange - 1]
  BY <1>6
<1>10. ImageOf(LinuxMem, h, sections) \in ImageType
  BY <1>5, <1>7, <1>8, <1>9 DEF ImageType
<1> QED
  BY <1>10 DEF h, sections

LEMMA SeqWider ==
  ASSUME NEW A, NEW B, A \subseteq B, NEW s \in Seq(A)
  PROVE  s \in Seq(B)
<1>1. Len(s) \in Nat /\ s \in [1 .. Len(s) -> A]
  OBVIOUS
<1>2. s \in [1 .. Len(s) -> B]
  BY <1>1
<1> QED
  BY <1>1, <1>2

LEMMA ImageTyped ==
  ASSUME image \in ImageType
  PROVE  /\ image.startIndex \in Nat /\ image.names \in Seq(Nat)
         /\ image.bytes \in [0 .. 9 - 1 -> 0 .. ByteRange - 1]
<1>1. /\ image.names \in Seq(0 .. Word - 1) /\ image.startIndex \in 0 .. MemSize - 1
      /\ image.bytes \in [0 .. 8 -> 0 .. ByteRange - 1]
  BY DEF ImageType
<1>2. 0 .. Word - 1 \subseteq Nat
  BY WordOK
<1>3. image.names \in Seq(Nat)
  BY <1>1, <1>2, SeqWider
<1> QED
  BY <1>1, <1>3, WordOK

(* Wherever the bytes lead, the offset is an integer.                      *)
LEMMA NameOffsetInt ==
  ASSUME image \in ImageType, NEW name \in Nat
  PROVE  NameOffset(name) \in Int
<1>1. readAddr(image.bytes, 0) \in Nat
  <2> DEFINE m == image.bytes
  <2>1. m \in [0 .. 9 - 1 -> 0 .. ByteRange - 1] /\ 9 \in Nat /\ 0 \in Nat /\ 0 + 8 < 9
    BY ImageTyped
  <2> HIDE DEF m
  <2>2. readAddr(m, 0) \in Nat
    BY <2>1, readAddrTyped
  <2> QED
    BY <2>2 DEF m
<1>2. image.startIndex + readAddr(image.bytes, 0) + name \in Int
  <2>1. image.startIndex \in Nat
    BY ImageTyped
  <2> QED
    BY <1>1, <2>1
<1>3. (image.startIndex + readAddr(image.bytes, 0) + name) % Double \in Int
  BY <1>2, WordOK, Division
<1> QED
  BY <1>3, AsIntInt DEF NameOffset

LEMMA NamesSame ==
  ASSUME NamesTypeOK, Looked, UNCHANGED namesVars
  PROVE  NamesTypeOK' /\ Looked'
BY DEF namesVars, NamesTypeOK, Looked, NameOffset, InImage

LEMMA NamesPrinted ==
  ASSUME NamesTypeOK, Looked, Len(found) = i, PrintSectionHeader
  PROVE  NamesTypeOK' /\ Looked'
<1> DEFINE name == image.names[i + 1]
           offset == NameOffset(name)
           cell == IF name = 0 THEN 0 ELSE offset
<1>1. /\ image \in ImageType /\ image.startIndex \in Nat /\ image.names \in Seq(Nat)
      /\ MemSize \in Nat /\ found \in Seq(0 .. MemSize - 1) /\ i \in Nat
  BY ImageTyped, WordOK DEF NamesTypeOK
<1>2. i + 1 \in 1 .. Len(image.names) /\ name \in Nat
  BY <1>1 DEF PrintSectionHeader
<1>3. offset \in Int
  BY <1>1, <1>2, NameOffsetInt
<1>4. CASE InImage(offset)
  <2>1. i' = i + 1 /\ found' = Append(found, cell) /\ UNCHANGED <<image, outcome>>
           /\ outcome = "printing"
    BY <1>4 DEF PrintSectionHeader
  <2>2. cell \in 0 .. MemSize - 1
    <3> HIDE DEF offset, name
    <3> QED
      BY <1>1, <1>2, <1>3, <1>4 DEF InImage
  <2>3. \A x \in Nat : NameOffset(x)' = NameOffset(x)
    BY <2>1 DEF NameOffset
  <2> DEFINE c == cell
  <2>4. image.names[i + 1] # 0 => c = NameOffset(image.names[i + 1])
    OBVIOUS
  <2>5. found' = Append(found, c) /\ c \in 0 .. MemSize - 1
    BY <2>1, <2>2
  <2> HIDE DEF c, offset, name, cell
  <2>6. /\ found' \in Seq(0 .. MemSize - 1) /\ Len(found') = i + 1
        /\ found'[i + 1] = c /\ \A k \in 1 .. i : found'[k] = found[k]
    BY <1>1, <2>5
  <2>7. ASSUME NEW k \in 1 .. i + 1, image.names[k] # 0
        PROVE  found'[k] = NameOffset(image.names[k])
    <3>1. CASE k = i + 1
      BY <2>4, <2>6, <2>7, <3>1
    <3>2. CASE k # i + 1
      BY <1>1, <2>6, <2>7, <3>2 DEF Looked
    <3> QED
      BY <3>1, <3>2
  <2>8. ASSUME NEW k \in 1 .. i + 1, image.names[k] # 0
        PROVE  found'[k] = NameOffset(image.names[k])'
    <3>1. image.names[k] \in Nat
      BY <1>1, <1>2
    <3>2. NameOffset(image.names[k])' = NameOffset(image.names[k])
      BY <2>1 DEF NameOffset
    <3> QED
      BY <2>7, <2>8, <3>2
  <2>9. Looked'
    BY <1>1, <2>1, <2>6, <2>8 DEF Looked
  <2> QED
    BY <1>1, <1>2, <2>1, <2>6, <2>9 DEF NamesTypeOK
<1>5. CASE ~InImage(offset)
  <2>1. outcome' = "busted" /\ UNCHANGED <<image, i, found>> /\ i < Len(image.names)
    BY <1>5 DEF PrintSectionHeader
  <2> QED
    BY <1>5, <2>1 DEF NamesTypeOK, Looked, NameOffset, InImage
<1> QED
  BY <1>4, <1>5

LEMMA NamesInit == ScanInit => NamesTypeOK /\ Looked
<1> SUFFICES ASSUME ScanInit PROVE NamesTypeOK /\ Looked
  OBVIOUS
<1>1. /\ image = [bytes |-> [n \in 0 .. 8 |-> 0], startIndex |-> 0, names |-> <<>>]
      /\ i = 0 /\ found = <<>> /\ outcome = "good"
  BY DEF ScanInit
<1>2. /\ <<>> \in Seq(0 .. Word - 1) /\ <<>> \in Seq(0 .. MemSize - 1) /\ Len(<<>>) = 0
      /\ [n \in 0 .. 8 |-> 0] \in [0 .. 8 -> 0 .. ByteRange - 1]
  BY WordOK
<1>3. 0 \in 0 .. MemSize - 1
  BY ScanAssumption, WordOK
<1>4. image \in ImageType
  BY <1>1, <1>2, <1>3 DEF ImageType
<1> QED
  BY <1>1, <1>2, <1>4 DEF NamesTypeOK, Looked

LEMMA NamesKept ==
  /\ MemoryInv /\ LoopInv /\ ListInv /\ TablesInv
  /\ NamesTypeOK /\ Looked /\ ImageInv /\ [ScanNext]_scanVars
  => NamesTypeOK' /\ Looked'
<1> SUFFICES ASSUME MemoryInv, LoopInv, ListInv, TablesInv,
                    NamesTypeOK, Looked, ImageInv, [ScanNext]_scanVars
             PROVE  NamesTypeOK' /\ Looked'
  OBVIOUS
<1>1. CASE BeginPrint
  <2> DEFINE h == ELFList[cursor]
             sections == tables[cursor].sections
  <2>0. <<>> \in Seq(0 .. MemSize - 1) /\ Len(<<>>) = 0
    OBVIOUS
  <2>1. CASE UNCHANGED <<image, i, outcome>> /\ found' = <<>>
    <3>1. i \in 0 .. Len(image.names) /\ Len(image.names) \in Nat
      BY ImageTyped DEF NamesTypeOK
    <3>2. \A x : NameOffset(x)' = NameOffset(x) /\ InImage(x)' = InImage(x)
      BY <2>1 DEF NameOffset, InImage
    <3>3. NamesTypeOK'
      BY <2>0, <2>1 DEF NamesTypeOK
    <3>4. outcome' = "busted" => (i < Len(image.names) /\ ~InImage(NameOffset(image.names[i + 1])))'
      BY <2>1 DEF Looked, NameOffset, InImage
    <3>5. Len(found') <= i'
      BY <2>0, <2>1, <3>1
    <3> QED
      BY <2>0, <2>1, <3>3, <3>4, <3>5 DEF Looked
  <2>2. CASE UNCHANGED namesVars
    BY <2>2, NamesSame
  <2>3. CASE /\ h.shstrndx < Len(sections)
             /\ image' = ImageOf(LinuxMem, h, sections)
             /\ i' = 0 /\ found' = <<>> /\ outcome' = "printing"
    <3>1. cursor \in DOMAIN tables
      BY <1>1 DEF BeginPrint, LoopInv, TablesInv
    <3>2. image' \in ImageType
      BY <2>3, <3>1, ImageRight
    <3>3. Len(image'.names) \in Nat
      BY <3>2 DEF ImageType
    <3> QED
      BY <2>0, <2>3, <3>2, <3>3 DEF NamesTypeOK, Looked
  <2> QED
    BY <1>1, <2>1, <2>2, <2>3 DEF BeginPrint
<1>2. CASE PrintSection
  BY <1>2, NamesPrinted DEF PrintSection, ImageInv
<1>3. CASE EndPrint
  <2>1. CASE AllPrinted
    <3>1. outcome' = "good" /\ UNCHANGED <<image, i, found>>
      BY <2>1 DEF AllPrinted
    <3> QED
      BY <3>1 DEF NamesTypeOK, Looked, NameOffset
  <2>2. CASE UNCHANGED namesVars
    BY <2>2, NamesSame
  <2> QED
    BY <1>3, <2>1, <2>2 DEF EndPrint
<1>4. CASE UNCHANGED namesVars
  BY <1>4, NamesSame
<1>5. CASE MapPage \/ Copy \/ tryReadELF \/ ScanEnds \/ ReadTables \/ TablesRead \/ PassEnds
  BY <1>4, <1>5 DEF MapPage, Copy, tryReadELF, ScanEnds, ReadTables, TablesRead, PassEnds
<1> QED
  BY <1>1, <1>2, <1>3, <1>4, <1>5 DEF ScanNext, scanVars

LEMMA ImageKept ==
  NamesTypeOK /\ ImageInv /\ [ScanNext]_scanVars => ImageInv'
<1> SUFFICES ASSUME NamesTypeOK, ImageInv, [ScanNext]_scanVars
             PROVE  ImageInv'
  OBVIOUS
<1>1. CASE BeginPrint
  <2>1. CASE spc' # "sections"
    BY <2>1 DEF ImageInv
  <2>2. CASE spc' = "sections"
    <3>1. /\ UNCHANGED <<LinuxMem, cursor, ELFList, tables>>
          /\ i' = 0 /\ found' = <<>>
          /\ ELFList[cursor].shstrndx < Len(tables[cursor].sections)
          /\ image' = ImageOf(LinuxMem, ELFList[cursor], tables[cursor].sections)
      BY <1>1, <2>2 DEF BeginPrint, Printed, Halt
    <3>2. Len(<<>>) = 0
      OBVIOUS
    <3> QED
      BY <3>1, <3>2 DEF ImageInv
  <2> QED
    BY <2>1, <2>2
<1>2. CASE PrintSection
  <2>1. CASE spc' # "sections"
    BY <2>1 DEF ImageInv
  <2>2. CASE spc' = "sections"
    <3>1. UNCHANGED <<LinuxMem, cursor, ELFList, tables, image>> /\ spc = "sections"
            /\ Len(found) = i /\ PrintSectionHeader
      BY <1>2, <2>2 DEF PrintSection, PrintSectionHeader, Halt, ImageInv
    <3>2. Len(found') = i'
      BY <3>1 DEF PrintSectionHeader, NamesTypeOK
    <3> QED
      BY <3>1, <3>2 DEF ImageInv
  <2> QED
    BY <2>1, <2>2
<1>3. CASE EndPrint
  BY <1>3 DEF EndPrint, Printed, ImageInv
<1>4. CASE MapPage \/ Copy \/ tryReadELF \/ ScanEnds \/ ReadTables \/ TablesRead \/ PassEnds
  BY <1>4 DEF MapPage, Copy, tryReadELF, ScanEnds, ReadTables, TablesRead, PassEnds, Halt, ImageInv
<1>5. CASE UNCHANGED scanVars
  BY <1>5 DEF scanVars, namesVars, ImageInv
<1> QED
  BY <1>1, <1>2, <1>3, <1>4, <1>5 DEF ScanNext

-----------------------------------------------------------------------------
(* The contents.                                                           *)
LEMMA ContentsRight ==
  ASSUME NEW m \in Memory, NEW a \in Int, NEW b \in Int, a .. b \subseteq 0 .. MemSize - 1
  PROVE  /\ Contents(m, a .. b) = [n \in 1 .. (IF a > b THEN 0 ELSE b - a + 1) |-> m[a + n - 1]]
         /\ Contents(m, a .. b) \in Seq(0 .. ByteRange - 1)
<1> DEFINE N == IF a > b THEN 0 ELSE b - a + 1
<1>1. Cardinality(a .. b) = N /\ N \in Nat
  BY FS_Interval
<1>2. a <= b => Min(a .. b) = a
  <2> SUFFICES ASSUME a <= b PROVE Min(a .. b) = a
    OBVIOUS
  <2>1. a \in a .. b /\ \A y \in a .. b : a <= y
    OBVIOUS
  <2>2. \A x \in a .. b : (\A y \in a .. b : x <= y) => x = a
    BY <2>1
  <2> QED
    BY <2>1, <2>2 DEF Min
<1>3. Contents(m, a .. b) = [n \in 1 .. N |-> m[a + n - 1]]
  <2>1. CASE a <= b
    BY <1>1, <1>2, <2>1 DEF Contents
  <2>2. CASE a > b
    <3>1. N = 0 /\ 1 .. N = {}
      BY <2>2
    <3> HIDE DEF N
    <3> QED
      BY <1>1, <3>1 DEF Contents
  <2> QED
    BY <2>1, <2>2
<1>4. \A n \in 1 .. N : m[a + n - 1] \in 0 .. ByteRange - 1
  <2> SUFFICES ASSUME NEW n \in 1 .. N PROVE m[a + n - 1] \in 0 .. ByteRange - 1
    OBVIOUS
  <2>1. a + n - 1 \in a .. b
    OBVIOUS
  <2> QED
    BY <2>1, ByteAt
<1> HIDE DEF N
<1>5. [n \in 1 .. N |-> m[a + n - 1]] \in Seq(0 .. ByteRange - 1)
  BY <1>1, <1>4
<1> QED
  BY <1>3, <1>5 DEF N

LEMMA SeqElement ==
  ASSUME NEW S, NEW s \in Seq(S), NEW k \in 1 .. Len(s)
  PROVE  s[k] \in S
  OBVIOUS

LEMMA RodataNamesFinite ==
  ASSUME NEW m, NEW S, NEW names \in Seq(S)
  PROVE  /\ RodataNames(m, names) \subseteq 1 .. Len(names)
         /\ IsFiniteSet(RodataNames(m, names)) /\ Cardinality(RodataNames(m, names)) \in Nat
<1>1. RodataNames(m, names) \subseteq 1 .. Len(names) /\ Len(names) \in Nat
  BY DEF RodataNames
<1>2. IsFiniteSet(1 .. Len(names))
  BY <1>1, FS_Interval
<1>3. IsFiniteSet(RodataNames(m, names))
  BY <1>1, <1>2, FS_Subset
<1> QED
  BY <1>1, <1>3, FS_CardinalityType

(* The sections up to one of them: as many as are printed with it.         *)
LEMMA Ranks ==
  ASSUME NEW R, IsFiniteSet(R), R \subseteq Nat, NEW n \in R
  PROVE  Cardinality({x \in R : x <= n}) \in 1 .. Cardinality(R)
<1> DEFINE T == {x \in R : x <= n}
<1>1. T \in SUBSET R /\ n \in T
  OBVIOUS
<1>2. IsFiniteSet(T) /\ Cardinality(T) <= Cardinality(R)
  BY <1>1, FS_Subset
<1>3. Cardinality(T) \in Nat /\ Cardinality(R) \in Nat
  BY <1>2, FS_CardinalityType
<1>4. Cardinality(T) # 0
  BY <1>1, <1>2, FS_EmptySet
<1> QED
  BY <1>2, <1>3, <1>4

(* A name that is not ".rodata" adds no contents, ...                      *)
LEMMA RodataSkipped ==
  ASSUME NEW m, NEW h, NEW sections, NEW S, NEW names \in Seq(S), NEW cell \in S,
         NEW contents, RodataFrom(m, h, sections, names, contents),
         ~(cell # 0 /\ IsRodata(m, cell))
  PROVE  RodataFrom(m, h, sections, Append(names, cell), contents)
<1>1. RodataNames(m, Append(names, cell)) = RodataNames(m, names)
  <2>1. /\ DOMAIN Append(names, cell) = DOMAIN names \cup {Len(names) + 1}
        /\ Append(names, cell)[Len(names) + 1] = cell
        /\ \A n \in DOMAIN names : Append(names, cell)[n] = names[n]
    OBVIOUS
  <2> QED
    BY <2>1 DEF RodataNames
<1> QED
  BY <1>1 DEF RodataFrom

(* ... and one that is adds those of its section.                          *)
LEMMA RodataAdded ==
  ASSUME NEW m, NEW h, NEW sections, NEW S, NEW names \in Seq(S), NEW cell \in S,
         NEW C, NEW contents \in Seq(C), RodataFrom(m, h, sections, names, contents),
         cell # 0, IsRodata(m, cell),
         PayloadAt(h.startIndex, sections[Len(names) + 1]) \subseteq 0 .. MemSize - 1,
         NEW c \in C, c = Contents(m, PayloadAt(h.startIndex, sections[Len(names) + 1]))
  PROVE  RodataFrom(m, h, sections, Append(names, cell), Append(contents, c))
<1> DEFINE L == Len(names)
           R == RodataNames(m, names)
           more == Append(names, cell)
           R2 == RodataNames(m, more)
           contents2 == Append(contents, c)
<1>1. /\ DOMAIN more = DOMAIN names \cup {L + 1} /\ more[L + 1] = cell
      /\ \A n \in DOMAIN names : more[n] = names[n]
      /\ L \in Nat
  OBVIOUS
<1>2. R2 = R \cup {L + 1}
  <2> HIDE DEF more, L
  <2> QED
    BY <1>1 DEF RodataNames
<1>3. R \subseteq 1 .. L /\ IsFiniteSet(R) /\ Cardinality(R) \in Nat
  BY RodataNamesFinite
<1> HIDE DEF R, R2, L
<1>4. L + 1 \notin R /\ R \subseteq Nat
  BY <1>1, <1>3
<1>5. Cardinality(R2) = Cardinality(R) + 1
  BY <1>2, <1>3, <1>4, FS_AddElement
<1>6. Len(contents) = Cardinality(R)
  BY DEF RodataFrom, R
<1>7. /\ Len(contents2) = Cardinality(R) + 1
      /\ contents2[Cardinality(R) + 1] = c
      /\ \A n \in 1 .. Cardinality(R) : contents2[n] = contents[n]
  BY <1>3, <1>6
<1> HIDE DEF contents2, more
<1>8. ASSUME NEW n \in R2
      PROVE  /\ PayloadAt(h.startIndex, sections[n]) \subseteq 0 .. MemSize - 1
             /\ contents2[Cardinality({x \in R2 : x <= n})] =
                  Contents(m, PayloadAt(h.startIndex, sections[n]))
  <2>1. CASE n = L + 1
    <3>0. \A x \in R2 : x <= n
      BY <1>1, <1>2, <1>3, <2>1
    <3>1. {x \in R2 : x <= n} = R2
      BY <3>0
    <3>2. contents2[Cardinality({x \in R2 : x <= n})] = c
      BY <1>5, <1>7, <3>1
    <3> QED
      BY <2>1, <3>2 DEF L
  <2>2. CASE n \in R
    <3>1. {x \in R2 : x <= n} = {x \in R : x <= n}
      BY <1>1, <1>2, <1>3, <2>2
    <3>2. Cardinality({x \in R : x <= n}) \in 1 .. Cardinality(R)
      BY <1>3, <1>4, <2>2, Ranks
    <3>3. contents2[Cardinality({x \in R2 : x <= n})] = contents[Cardinality({x \in R : x <= n})]
      BY <1>7, <3>1, <3>2
    <3> QED
      BY <2>2, <3>3 DEF RodataFrom, R
  <2> QED
    BY <1>2, <2>1, <2>2
<1> QED
  BY <1>5, <1>7, <1>8 DEF RodataFrom, R2, more, contents2

LEMMA NamesGrow ==
  ASSUME NEW m, NEW h, NEW sections, NEW S, NEW names \in Seq(S), NEW cell \in S,
         NamesFrom(m, h, sections, names),
         NEW offset, offset = OffsetIn(ImageOf(m, h, sections), sections[Len(names) + 1].name),
         h.startIndex < offset, offset < MemSize,
         cell = IF sections[Len(names) + 1].name = 0 THEN 0 ELSE offset
  PROVE  NamesFrom(m, h, sections, Append(names, cell))
<1>1. /\ DOMAIN Append(names, cell) = DOMAIN names \cup {Len(names) + 1}
      /\ Append(names, cell)[Len(names) + 1] = cell
      /\ \A n \in DOMAIN names : Append(names, cell)[n] = names[n]
  OBVIOUS
<1>2. ASSUME NEW n \in DOMAIN names \cup {Len(names) + 1}
      PROVE  LET o == OffsetIn(ImageOf(m, h, sections), sections[n].name)
             IN /\ h.startIndex < o /\ o < MemSize
                /\ Append(names, cell)[n] = IF sections[n].name = 0 THEN 0 ELSE o
  <2>1. CASE n = Len(names) + 1
    BY <1>1, <2>1
  <2>2. CASE n \in DOMAIN names
    BY <1>1, <2>2 DEF NamesFrom
  <2> QED
    BY <1>2, <2>1, <2>2
<1> QED
  BY <1>1, <1>2 DEF NamesFrom

LEMMA NothingPrinted ==
  ASSUME NEW m, NEW h, NEW sections
  PROVE  NamesFrom(m, h, sections, <<>>) /\ RodataFrom(m, h, sections, <<>>, <<>>)
<1>1. DOMAIN <<>> = {} /\ Len(<<>>) = 0
  OBVIOUS
<1>2. RodataNames(m, <<>>) = {}
  BY <1>1 DEF RodataNames
<1> QED
  BY <1>1, <1>2, FS_EmptySet DEF NamesFrom, RodataFrom

LEMMA ReportInit == ScanInit => ReportInv
<1> SUFFICES ASSUME ScanInit PROVE ReportInv
  OBVIOUS
<1>1. \A S : <<>> \in Seq(S) /\ DOMAIN <<>> = {}
  OBVIOUS
<1> QED
  BY <1>1 DEF ScanInit, ReportInv

(* No step but those that print changes what was printed.                  *)
LEMMA ReportSame ==
  ASSUME ReportInv, UNCHANGED <<report, rodata>>, spc' # "sections",
         report = <<>> \/ UNCHANGED <<LinuxMem, ELFList, tables>>
  PROVE  ReportInv'
<1>1. DOMAIN <<>> = {}
  OBVIOUS
<1> QED
  BY <1>1 DEF ReportInv

(* An entry more.                                                          *)
LEMMA ReportAppend ==
  ASSUME LoopInv, ReportInv, spc \in {"print", "sections"}, spc' # "sections",
         UNCHANGED <<LinuxMem, ELFList, tables>>,
         rodata' \in Seq(Seq(0 .. ByteRange - 1)),
         NEW entry \in ReportType, report' = Append(report, entry),
         entry.good => ReportedFrom(LinuxMem, ELFList[cursor], tables[cursor].sections, entry)
  PROVE  ReportInv'
<1>1. Len(report) = cursor - 1 /\ report \in Seq(ReportType) /\ cursor \in Int
  <2>1. Len(ELFList) + 1 \in Int => cursor \in Int
    BY DEF LoopInv
  <2> QED
    BY DEF LoopInv, ReportInv
<1>2. /\ report' \in Seq(ReportType) /\ DOMAIN report' = 1 .. cursor
      /\ report'[cursor] = entry
      /\ \A k \in 1 .. cursor : k # cursor => report'[k] = report[k] /\ k \in DOMAIN report
  BY <1>1
<1>3. ASSUME NEW k \in 1 .. cursor, report'[k].good
      PROVE  ReportedFrom(LinuxMem, ELFList[k], tables[k].sections, report'[k])
  <2>1. CASE k = cursor
    BY <1>2, <1>3, <2>1
  <2>2. CASE k # cursor
    BY <1>2, <1>3, <2>2 DEF ReportInv
  <2> QED
    BY <2>1, <2>2
<1> QED
  BY <1>2, <1>3 DEF ReportInv

LEMMA ReportKept ==
  /\ MemoryInv /\ LoopInv /\ ListInv /\ TablesInv
  /\ NamesTypeOK /\ ImageInv /\ ReportInv /\ NamesTypeOK' /\ [ScanNext]_scanVars
  => ReportInv'
<1> SUFFICES ASSUME MemoryInv, LoopInv, ListInv, TablesInv,
                    NamesTypeOK, ImageInv, ReportInv, NamesTypeOK', [ScanNext]_scanVars
             PROVE  ReportInv'
  OBVIOUS
<1> DEFINE h == ELFList[cursor]
           sections == tables[cursor].sections
<1>0. \A S : <<>> \in Seq(S) /\ Len(<<>>) = 0
  OBVIOUS
<1>1. CASE MapPage
  BY <1>1, ReportSame DEF MapPage
<1>2. CASE Copy
  BY <1>2, ReportSame DEF Copy, LoopInv
<1>3. CASE tryReadELF
  BY <1>3, ReportSame DEF tryReadELF, Halt, LoopInv
<1>4. CASE ScanEnds
  BY <1>4, ReportSame DEF ScanEnds
<1>5. CASE ReadTables
  BY <1>5, ReportSame DEF ReadTables, Halt, LoopInv
<1>6. CASE TablesRead
  BY <1>6, ReportSame DEF TablesRead
<1>7. CASE BeginPrint
  <2>1. rodata' = <<>> /\ spc = "print"
    BY <1>7 DEF BeginPrint
  <2>2. CASE sections = <<>> /\ found' = <<>> /\ Printed(TRUE)
    <3> DEFINE entry == [names |-> <<>>, rodata |-> <<>>, good |-> TRUE]
    <3>1. /\ report' = Append(report, entry) /\ spc' = "print"
          /\ UNCHANGED <<LinuxMem, ELFList, tables>>
      BY <2>1, <2>2 DEF Printed
    <3>2. entry \in ReportType
      BY <1>0 DEF ReportType
    <3>3. ReportedFrom(LinuxMem, h, sections, entry)
      BY <2>2, NothingPrinted DEF ReportedFrom
    <3> HIDE DEF entry
    <3> QED
      BY <1>0, <2>1, <3>1, <3>2, <3>3, ReportAppend
  <2>3. CASE Halt
    <3>1. UNCHANGED <<LinuxMem, ELFList, tables, report>> /\ spc' = "halted"
      BY <2>3 DEF Halt
    <3> QED
      BY <1>0, <2>1, <3>1 DEF ReportInv
  <2>4. CASE /\ UNCHANGED <<LinuxMem, cursor, ELFList, tables, report>>
             /\ found' = <<>>
    BY <1>0, <2>1, <2>4, NothingPrinted DEF ReportInv
  <2> QED
    BY <1>7, <2>2, <2>3, <2>4 DEF BeginPrint
<1>8. CASE PrintSection
  <2> DEFINE name == image.names[i + 1]
             offset == NameOffset(name)
             cell == IF name = 0 THEN 0 ELSE offset
             payload == Payload(sections[i + 1])
             isRodata == outcome' = "printing" /\ found'[i + 1] # 0
                           /\ IsRodata(LinuxMem, found'[i + 1])
  <2>1. /\ spc = "sections" /\ PrintSectionHeader
        /\ image = ImageOf(LinuxMem, h, sections) /\ Len(found) = i
        /\ found \in Seq(0 .. MemSize - 1) /\ found' \in Seq(0 .. MemSize - 1) /\ i \in Nat
        /\ cursor \in DOMAIN tables /\ image \in ImageType
    BY <1>8, ImageTyped DEF PrintSection, ImageInv, NamesTypeOK, LoopInv, TablesInv
  <2>2. /\ h.startIndex = image.startIndex /\ sections \in Seq(SectionType)
        /\ image.names = [n \in DOMAIN sections |-> sections[n].name]
    BY <2>1, SectionsRight DEF ImageOf
  <2>3. i + 1 \in 1 .. Len(sections) /\ name = sections[i + 1].name
    <3>0. image.names \in Seq(Nat)
      BY <2>1, ImageTyped
    <3>1. Len(image.names) \in Nat /\ i < Len(image.names)
      BY <2>1, <3>0 DEF PrintSectionHeader
    <3>2. i + 1 \in DOMAIN image.names
      BY <2>1, <3>0, <3>1
    <3> HIDE DEF sections
    <3> QED
      BY <2>2, <3>2
  <2>4. payload = PayloadAt(h.startIndex, sections[i + 1])
    BY <2>2 DEF Payload, PayloadAt
  <2>5. offset = OffsetIn(ImageOf(LinuxMem, h, sections), sections[i + 1].name)
    BY <2>1, <2>3 DEF NameOffset, OffsetIn
  <2>6. CASE spc' # "sections"
    BY <1>8, <2>6, ReportSame DEF PrintSection, Halt
  <2>7. CASE spc' = "sections"
    <3>1. /\ UNCHANGED <<LinuxMem, cursor, ELFList, tables, report>>
          /\ isRodata => payload \subseteq DOMAIN LinuxMem
          /\ rodata' = IF isRodata THEN Append(rodata, Contents(LinuxMem, payload)) ELSE rodata
      BY <1>8, <2>7 DEF PrintSection, Halt
    <3>2. NamesFrom(LinuxMem, h, sections, found) /\ RodataFrom(LinuxMem, h, sections, found, rodata)
      BY <2>1 DEF ReportInv
    <3>3. CASE ~InImage(offset)
      <4>1. found' = found /\ outcome' = "busted"
        BY <2>1, <3>3 DEF PrintSectionHeader
      <4>2. rodata' = rodata
        BY <3>1, <4>1
      <4> QED
        BY <3>1, <3>2, <4>1, <4>2 DEF ReportInv
    <3>4. CASE InImage(offset)
      <4>1. found' = Append(found, cell) /\ outcome' = "printing"
        BY <2>1, <3>4 DEF PrintSectionHeader
      <4>2. h.startIndex < offset /\ offset < MemSize
        BY <2>2, <3>4 DEF InImage
      <4>3. found'[i + 1] = cell /\ cell \in 0 .. MemSize - 1
        <5> DEFINE c == cell
        <5>1. found' = Append(found, c)
          BY <4>1
        <5> HIDE DEF c, cell
        <5>2. found'[i + 1] = c /\ i + 1 \in 1 .. Len(found')
          BY <2>1, <5>1
        <5>3. found'[i + 1] \in 0 .. MemSize - 1
          <6>1. found' \in Seq(0 .. MemSize - 1) /\ i + 1 \in 1 .. Len(found')
            BY <2>1, <5>2
          <6> QED
            BY <6>1, SeqElement
        <5> QED
          BY <5>2, <5>3 DEF c
      <4>4. cell = IF sections[Len(found) + 1].name = 0 THEN 0 ELSE offset
        BY <2>1, <2>3
      <4>5. offset = OffsetIn(ImageOf(LinuxMem, h, sections), sections[Len(found) + 1].name)
        BY <2>1, <2>5
      <4>6. payload = PayloadAt(h.startIndex, sections[Len(found) + 1])
        BY <2>1, <2>4
      <4> HIDE DEF cell, offset, payload, name, h, sections
      <4>7. NamesFrom(LinuxMem, h, sections, found')
        BY <2>1, <3>2, <4>1, <4>2, <4>3, <4>4, <4>5, NamesGrow
      <4>8. CASE ~isRodata
        <5>1. rodata' = rodata /\ ~(cell # 0 /\ IsRodata(LinuxMem, cell))
          BY <3>1, <4>1, <4>3, <4>8
        <5>2. RodataFrom(LinuxMem, h, sections, found', rodata')
          BY <2>1, <3>2, <4>1, <4>3, <5>1, RodataSkipped
        <5> QED
          BY <2>1, <3>1, <4>7, <5>1, <5>2 DEF ReportInv, h, sections
      <4>9. CASE isRodata
        <5>1. /\ rodata' = Append(rodata, Contents(LinuxMem, payload))
              /\ cell # 0 /\ IsRodata(LinuxMem, cell)
          BY <3>1, <4>1, <4>3, <4>9
        <5>2. payload \subseteq 0 .. MemSize - 1
          BY <3>1, <4>9 DEF MemoryInv
        <5>3. Contents(LinuxMem, payload) \in Seq(0 .. ByteRange - 1)
          <6>1. sections[i + 1] \in SectionType /\ h.startIndex \in Nat
            BY <2>1, <2>2, <2>3, ImageTyped
          <6>2. PICK a \in Int, b \in Int : payload = a .. b
            <7> DEFINE s == sections[i + 1]
                       p == AsInt((h.startIndex + s.offset) % Double)
            <7>1. s.offset \in Nat /\ s.size \in Nat
              BY <6>1 DEF SectionType
            <7>2. (h.startIndex + s.offset) % Double \in Int
              <8>1. h.startIndex + s.offset \in Int
                BY <6>1, <7>1
              <8> QED
                BY <8>1, WordOK, Division
            <7>3. p \in Int /\ AsInt(s.size) \in Int
              BY <7>1, <7>2, AsIntInt
            <7>4. payload = p .. (p + AsInt(s.size) - 1)
              BY <2>4 DEF PayloadAt
            <7> HIDE DEF p
            <7> QED
              BY <7>3, <7>4
          <6>3. LinuxMem \in Memory
            BY DEF MemoryInv, Memory
          <6> QED
            BY <5>2, <6>2, <6>3, ContentsRight
        <5>4. rodata \in Seq(Seq(0 .. ByteRange - 1))
          BY DEF ReportInv
        <5>5. rodata' \in Seq(Seq(0 .. ByteRange - 1))
          BY <5>1, <5>3, <5>4
        <5>6. RodataFrom(LinuxMem, h, sections, found', rodata')
          BY <2>1, <3>2, <4>1, <4>3, <4>6, <5>1, <5>2, <5>3, <5>4, RodataAdded
        <5> QED
          BY <2>1, <3>1, <4>7, <5>5, <5>6 DEF ReportInv, h, sections
      <4> QED
        BY <4>8, <4>9
    <3> QED
      BY <3>3, <3>4
  <2> QED
    BY <2>6, <2>7
<1>9. CASE EndPrint
  <2> DEFINE entry == [names |-> found', rodata |-> rodata', good |-> outcome' = "good"]
  <2>1. /\ spc = "sections" /\ spc' = "print" /\ rodata' = rodata
        /\ report' = Append(report, entry)
        /\ UNCHANGED <<LinuxMem, ELFList, tables>>
    BY <1>9 DEF EndPrint, Printed
  <2>2. found' = found
    BY <1>9 DEF EndPrint, AllPrinted, namesVars
  <2>3. rodata' \in Seq(Seq(0 .. ByteRange - 1)) /\ found' \in Seq(0 .. MemSize - 1)
    BY <2>1, <2>2 DEF ReportInv, NamesTypeOK
  <2>4. entry \in ReportType
    BY <2>3 DEF ReportType
  <2>5. entry.good => ReportedFrom(LinuxMem, h, sections, entry)
    <3> SUFFICES ASSUME outcome' = "good" PROVE ReportedFrom(LinuxMem, h, sections, entry)
      OBVIOUS
    <3>1. AllPrinted
      BY <1>9 DEF EndPrint, namesVars
    <3>2. /\ Len(found) = i /\ i = Len(image.names)
          /\ image = ImageOf(LinuxMem, h, sections) /\ h.shstrndx < Len(sections)
      BY <2>1, <3>1 DEF AllPrinted, ImageInv
    <3>3. Len(image.names) = Len(sections)
      <4>1. cursor \in DOMAIN tables
        BY <2>1 DEF LoopInv, TablesInv
      <4>2. sections \in Seq(SectionType)
        BY <4>1, SectionsRight
      <4>3. image.names = [n \in DOMAIN sections |-> sections[n].name]
        BY <3>2 DEF ImageOf
      <4> HIDE DEF sections
      <4>4. DOMAIN sections = 1 .. Len(sections) /\ Len(sections) \in Nat
        BY <4>2
      <4>5. image.names \in Seq({sections[n].name : n \in DOMAIN sections})
        BY <4>3, <4>4
      <4> QED
        BY <4>3, <4>4, <4>5
    <3>4. entry.names = found /\ entry.rodata = rodata
      BY <2>1, <2>2
    <3> HIDE DEF entry
    <3> QED
      BY <2>1, <3>2, <3>3, <3>4 DEF ReportedFrom, ReportInv
  <2> HIDE DEF entry
  <2> QED
    BY <2>1, <2>3, <2>4, <2>5, ReportAppend
<1>10. CASE PassEnds
  BY <1>10, ReportSame DEF PassEnds
<1>11. CASE UNCHANGED scanVars
  BY <1>11 DEF scanVars, namesVars, ReportInv
<1> QED
  BY <1>1, <1>2, <1>3, <1>4, <1>5, <1>6, <1>7, <1>8, <1>9, <1>10, <1>11 DEF ScanNext

-----------------------------------------------------------------------------
(* What the invariant says of every measurement.                           *)
LEMMA ScanInvAlways == ScanSpec => []ScanInv
<1>1. ScanInit => ScanInv
  <2> SUFFICES ASSUME ScanInit PROVE ScanInv
    OBVIOUS
  <2>1. TablesInv
    BY NoTables DEF ScanInit
  <2>2. ImageInv
    BY DEF ScanInit, ImageInv
  <2> QED
    BY <2>1, <2>2, MemoryInit, LoopInit, ListInit, NamesInit, ReportInit DEF ScanInv
<1>2. ScanInv /\ [ScanNext]_scanVars => ScanInv'
  BY MemoryKept, LoopKept, ListKept, TablesKept, NamesKept, ImageKept, ReportKept DEF ScanInv
<1> QED
  BY <1>1, <1>2, PTL DEF ScanSpec

(* Type correctness: every page has a frame of memdev, nothing is read or  *)
(* found outside the memory, and no loop runs past the headers allocated.  *)
THEOREM TypeCorrect == ScanSpec => []ScanTypeOK
<1>1. ScanInv => ScanTypeOK
  <2> SUFFICES ASSUME ScanInv PROVE ScanTypeOK
    OBVIOUS
  <2>1. RamTypeOK
    BY FrameRight DEF ScanInv, MemoryInv, PagesPlaced, RamTypeOK
  <2> QED
    BY <2>1 DEF ScanInv, MemoryInv, LoopInv, ScanTypeOK
<1> QED
  BY <1>1, ScanInvAlways, PTL

(* Only the remainder counts when an int is made.                          *)
LEMMA AsIntOfSum ==
  ASSUME NEW base \in Int, NEW k \in Int
  PROVE  /\ AsInt((base + Word * k) % Double) = AsInt(base)
         /\ AsInt(base + Word * k) = AsInt(base)
<1> DEFINE W == Word
<1>1. W \in Nat \ {0} /\ Double = W * W /\ base + W * k \in Int
  BY WordOK DEF Double
<1> HIDE DEF W
<1>2. ((base + W * k) % (W * W)) % W = (base + W * k) % W
  BY <1>1, Reduced
<1>3. (base + W * k) % W = base % W
  BY <1>1, Congruent
<1> QED
  BY <1>1, <1>2, <1>3 DEF AsInt, W

(* With the bytes in agreement, a name is looked up at its place.          *)
LEMMA NameOffsetRight ==
  ASSUME image \in ImageType, Aligned, NEW name \in Nat
  PROVE  NameOffset(name) = Place(name)
<1> DEFINE m == image.bytes
           low == LittleEndian(m[0], m[1], m[2], m[3])
           read == LittleEndian(m[5], m[6], m[7], m[8])
           held == LittleEndian(m[4], m[5], m[6], m[7])
           base == image.startIndex + low + name
<1>1. image.startIndex \in Nat /\ m \in [0 .. 9 - 1 -> 0 .. ByteRange - 1]
  BY ImageTyped
<1>2. /\ m[0] \in Nat /\ m[1] \in Nat /\ m[2] \in Nat /\ m[3] \in Nat /\ m[4] \in Nat
      /\ m[5] \in Nat /\ m[6] \in Nat /\ m[7] \in Nat /\ m[8] \in Nat
  BY <1>1, WordOK
<1>3. low \in Nat /\ read \in Nat /\ held \in Nat
  BY <1>2, LittleEndianInt
<1>4. readAddr(image.bytes, 0) = low + Word * read
  BY DEF readAddr, Aligned
<1>5. Field(image.bytes, 0) = low + Word * held
  BY DEF Field, readWord
<1> HIDE DEF m, low, read, held
<1>6. base \in Int
  BY <1>1, <1>3
<1>7. image.startIndex + readAddr(image.bytes, 0) + name = base + Word * read
  BY <1>1, <1>3, <1>4, WordOK
<1>8. image.startIndex + Field(image.bytes, 0) + name = base + Word * held
  BY <1>1, <1>3, <1>5, WordOK
<1> HIDE DEF base
<1> QED
  BY <1>3, <1>6, <1>7, <1>8, AsIntOfSum DEF NameOffset, Place

(* The names printed are the names of the sections, where readAddr can be  *)
(* right.                                                                  *)
THEOREM NamesRight == ScanSpec => []NamesInPlace
<1>1. ScanInv => NamesInPlace
  <2> SUFFICES ASSUME ScanInv, Aligned, NEW k \in 1 .. Len(found), image.names[k] # 0
               PROVE  found[k] = Place(image.names[k])
    BY DEF NamesInPlace
  <2>1. image \in ImageType /\ Len(found) <= i /\ i \in 0 .. Len(image.names)
    BY DEF ScanInv, NamesTypeOK, Looked
  <2>2. image.names \in Seq(Nat)
    BY <2>1, ImageTyped
  <2>3. k \in 1 .. Len(image.names)
    <3>1. found \in Seq(0 .. MemSize - 1)
      BY DEF ScanInv, NamesTypeOK
    <3> QED
      BY <2>1, <2>2, <3>1
  <2>4. image.names[k] \in Nat
    BY <2>2, <2>3, SeqElement
  <2> QED
    BY <2>1, <2>4, NameOffsetRight DEF ScanInv, Looked
<1> QED
  BY <1>1, ScanInvAlways, PTL

(* ... and such an image is called busted only for a name outside of it.   *)
THEOREM BustedRight == ScanSpec => []BustedForCause
<1>1. ScanInv => BustedForCause
  <2> SUFFICES ASSUME ScanInv, Aligned, outcome = "busted"
               PROVE  ~InImage(Place(image.names[i + 1]))
    BY DEF BustedForCause
  <2>1. /\ image \in ImageType /\ i \in 0 .. Len(image.names) /\ i < Len(image.names)
        /\ ~InImage(NameOffset(image.names[i + 1]))
    BY DEF ScanInv, NamesTypeOK, Looked
  <2>2. image.names \in Seq(Nat)
    BY <2>1, ImageTyped
  <2>3. i + 1 \in 1 .. Len(image.names)
    BY <2>1, <2>2
  <2>4. image.names[i + 1] \in Nat
    BY <2>2, <2>3, SeqElement
  <2> QED
    BY <2>1, <2>4, NameOffsetRight
<1> QED
  BY <1>1, ScanInvAlways, PTL

-----------------------------------------------------------------------------
(* The images laid.                                                        *)

(* A field of 64 bits whose value has no more than 32.                     *)
LEMMA FieldLow ==
  ASSUME NEW m \in Memory, NEW s \in Nat, s + 7 < MemSize
  PROVE  Field(m, s) \in Nat /\ (Field(m, s) < Word => readWord(m, s) = Field(m, s))
<1> DEFINE low == readWord(m, s)
           high == readWord(m, s + 4)
           W == Word
<1>1. low \in 0 .. W - 1 /\ high \in 0 .. W - 1 /\ W \in Nat \ {0}
  BY WordOK, readWordTyped
<1>2. Field(m, s) = low + W * high
  BY DEF Field
<1> HIDE DEF low, high, W
<1>3. W * high \in Nat
  BY <1>1
<1>4. low + W * high < W => high = 0
  <2>1. high >= 1 => W * 1 <= W * high
    BY <1>1, MultiplesInOrder
  <2> QED
    BY <1>1, <1>3, <2>1
<1>5. W * 0 = 0
  BY <1>1
<1> QED
  BY <1>1, <1>2, <1>3, <1>4, <1>5 DEF low, W

(* What readAddr reads of a field whose value has no more than 16: other   *)
(* bytes may count, but not in an int.                                     *)
LEMMA readAddrLow ==
  ASSUME NEW m \in Memory, NEW s \in Nat, s + 8 < MemSize, Readable(Field(m, s))
  PROVE  \E k \in Nat : readAddr(m, s) = Field(m, s) + Word * k
<1> DEFINE B == ByteRange
           B2 == ByteRange * ByteRange
           B3 == ByteRange * ByteRange * ByteRange
           W == Word
           high == LittleEndian(m[s+4], m[s+5], m[s+6], m[s+7])
           read == LittleEndian(m[s+5], m[s+6], m[s+7], m[s+8])
           b0 == m[s]
           b1 == m[s+1]
           b2 == m[s+2]
           b3 == m[s+3]
           b4 == m[s+4]
<1>1. \A n \in 0 .. MemSize - 1 : m[n] \in Nat
  BY ByteAt
<1>2. /\ b0 \in Nat /\ b1 \in Nat /\ b2 \in Nat /\ b3 \in Nat /\ b4 \in Nat
      /\ m[s+5] \in Nat /\ m[s+6] \in Nat /\ m[s+7] \in Nat /\ m[s+8] \in Nat
  BY <1>1, WordOK
<1>3. read \in Nat /\ high \in Nat
  BY <1>2, LittleEndianInt
<1>4. /\ B \in Nat \ {0} /\ B2 \in Nat \ {0} /\ B3 \in Nat \ {0} /\ W \in Nat \ {0}
      /\ B2 <= B3 /\ B3 <= W
  <2>1. \A a, b \in Nat \ {0} : a * b \in Nat \ {0} /\ a <= a * b
    OBVIOUS
  <2>2. B \in Nat \ {0}
    BY WordOK
  <2>3. B2 \in Nat \ {0}
    BY <2>1, <2>2
  <2>4. B3 \in Nat \ {0} /\ B2 <= B3
    BY <2>1, <2>2, <2>3
  <2>5. W \in Nat \ {0} /\ B3 <= W
    BY <2>1, <2>2, <2>4 DEF Word
  <2> QED
    BY <2>2, <2>3, <2>4, <2>5
<1>5. high = 0 => b4 = 0
  <2>1. high = b4 + (B * m[s+5] + B2 * m[s+6] + B3 * m[s+7])
    BY <1>2, <1>4 DEF LittleEndian
  <2>2. B * m[s+5] + B2 * m[s+6] + B3 * m[s+7] \in Nat
    <3> HIDE DEF B, B2, B3
    <3> QED
      BY <1>2, <1>4
  <2> QED
    BY <1>2, <2>1, <2>2
<1>6. Field(m, s) = b0 + B * b1 + B2 * b2 + B3 * b3 + W * high
  <2>1. s + 4 + 1 = s + 5 /\ s + 4 + 2 = s + 6 /\ s + 4 + 3 = s + 7
    OBVIOUS
  <2> QED
    BY <2>1 DEF Field, readWord, LittleEndian
<1>7. readAddr(m, s) = b0 + B * b1 + B2 * b3 + B3 * b4 + W * read
  BY DEF readAddr, LittleEndian
<1>8. Field(m, s) < B2
  BY DEF Readable
<1> HIDE DEF B, B2, B3, W, high, read, b0, b1, b2, b3, b4
<1>9. /\ B * b1 \in Nat /\ B2 * b2 \in Nat /\ B3 * b3 \in Nat /\ W * high \in Nat
      /\ (b2 >= 1 => B2 * 1 <= B2 * b2) /\ (b3 >= 1 => B3 * 1 <= B3 * b3)
      /\ (high >= 1 => W * 1 <= W * high)
  BY <1>2, <1>3, <1>4, MultiplesInOrder
<1>10. b2 = 0 /\ b3 = 0 /\ high = 0
  BY <1>2, <1>3, <1>4, <1>6, <1>8, <1>9
<1>11. Field(m, s) = b0 + B * b1 /\ readAddr(m, s) = b0 + B * b1 + W * read
  <2>1. B2 * 0 = 0 /\ B3 * 0 = 0 /\ W * 0 = 0
    BY <1>4
  <2>2. W * read \in Nat
    BY <1>3, <1>4
  <2> QED
    BY <1>2, <1>5, <1>6, <1>7, <1>9, <1>10, <2>1, <2>2
<1> QED
  BY <1>3, <1>11 DEF W

(* Small numbers survive the conversion.                                   *)
LEMMA AsIntSmall ==
  ASSUME NEW x \in 0 .. MemSize - 1
  PROVE  AsInt(x) = x
<1> DEFINE W == Word
<1>1. MemSize <= W \div 2 /\ W \in Nat \ {0} /\ MemSize \in Nat
  BY WordOK, NamesAssumption
<1> HIDE DEF W
<1>2. W \div 2 \in Int /\ W \div 2 < W
  BY <1>1
<1>3. x < W \div 2 /\ x % W = x
  BY <1>1, <1>2
<1> QED
  BY <1>3 DEF AsInt, W

(* After the copy, what is known of the memory laid is known of Linux_Mem. *)
LEMMA MemoryLaid ==
  ASSUME ScanInv, spc # "boot"
  PROVE  /\ LinuxMem = CopyOf(ram) /\ LinuxMem \in Memory /\ ram \in DOMAIN Rams
         /\ \A im \in Laid : LaidIn(LinuxMem, im)
         /\ IsFiniteSet(Laid)
         /\ \A s \in 0 .. Copied - 1 :
              matchELFHeader(LinuxMem, s) => \E im \in Laid : im.at = s
         /\ \A s \in AcceptedBelow(Copied) : \E im \in Laid : im.at = s
<1>1. LinuxMem = CopyOf(ram) /\ LinuxMem \in Memory /\ ram \in DOMAIN Rams
  BY DEF ScanInv, MemoryInv, CopyInPlace, Memory
<1>2. /\ IsFiniteSet(Rams[ram].laid)
      /\ \A im \in Rams[ram].laid : LaidIn(CopyOf(ram), im)
      /\ \A s \in 0 .. Copied - 1 :
           matchELFHeader(CopyOf(ram), s) => \E im \in Rams[ram].laid : im.at = s
  BY <1>1, LaidAssumption
<1> QED
  BY <1>1, <1>2 DEF Laid, AcceptedBelow, Accepted

(* The fields of a header of ELFList are those laid.                       *)
LEMMA FieldsRight ==
  ASSUME NEW m \in Memory, NEW im, im.at \in Nat, HeaderCopied(im), HeaderLaid(m, im)
  PROVE  LET h == ELF64Header(m, im.at)
         IN /\ h.type = im.type /\ h.phoff = im.phoff /\ h.shoff = im.shoff
            /\ h.phentsize = im.phentsize /\ h.phnum = im.phnum
            /\ h.shentsize = im.shentsize /\ h.shnum = im.shnum
            /\ h.shstrndx = im.shstrndx
<1>1. im.at + 64 < MemSize /\ im.at + 64 <= Copied /\ MemSize \in Nat /\ Copied \in Nat
  BY ScanAssumption, WordOK DEF HeaderCopied
<1>2. readWord(m, im.at + 32) = im.phoff
  <2>1. im.at + 32 \in Nat /\ (im.at + 32) + 7 < MemSize
    BY <1>1
  <2> QED
    BY <2>1, FieldLow DEF HeaderLaid
<1>3. readWord(m, im.at + 40) = im.shoff
  <2>1. im.at + 40 \in Nat /\ (im.at + 40) + 7 < MemSize
    BY <1>1
  <2> QED
    BY <2>1, FieldLow DEF HeaderLaid
<1> QED
  BY <1>2, <1>3 DEF ELF64Header, HeaderLaid

(* The scan ends with exactly the headers laid that it accepts, each once, *)
(* in the order of their addresses, with the fields laid: for every size   *)
(* of the memory, of the copy and of its pages, and every image of less    *)
(* than 2^32 bytes (tryReadELF, ELF64Header).                              *)
THEOREM HeadersRight == ScanSpec => []HeadersExact
<1>1. ScanInv => HeadersExact
  <2> SUFFICES ASSUME ScanInv, spc \in {"tables", "print", "done"}
               PROVE  LET starts == [k \in DOMAIN ELFList |-> ELFList[k].startIndex]
                      IN /\ \A k \in 2 .. Len(starts) : starts[k - 1] < starts[k]
                         /\ \A k \in DOMAIN starts : \E im \in Laid :
                              /\ im.at = starts[k]
                              /\ HeaderCopied(im) =>
                                   \A f \in DOMAIN ELFList[k] \ {"startIndex"} :
                                     ELFList[k][f] = im[f]
                         /\ {im.at : im \in {x \in Laid : HeaderCopied(x) /\ x.legal}}
                              \subseteq Range(starts)
    BY DEF HeadersExact
  <2> DEFINE starts == [k \in DOMAIN ELFList |-> ELFList[k].startIndex]
  <2>1. /\ LinuxMem \in Memory
        /\ \A im \in Laid : LaidIn(LinuxMem, im)
        /\ \A s \in AcceptedBelow(Copied) : \E im \in Laid : im.at = s
    BY MemoryLaid
  <2>2. /\ ELFList \in Seq(HeadersHere) /\ Starts = AcceptedBelow(Copied)
        /\ \A k, l \in DOMAIN ELFList : k < l => ELFList[k].startIndex < ELFList[l].startIndex
    BY DEF ScanInv, ListInv
  <2>3. DOMAIN ELFList = 1 .. Len(ELFList) /\ Len(ELFList) \in Nat
    BY <2>2
  <2>4. Len(starts) = Len(ELFList) /\ DOMAIN starts = DOMAIN ELFList
    <3>1. starts \in Seq(Starts)
      BY <2>3 DEF Starts
    <3> QED
      BY <2>3, <3>1
  <2>5. \A k \in 2 .. Len(starts) : starts[k - 1] < starts[k]
    <3> SUFFICES ASSUME NEW k \in 2 .. Len(ELFList)
                 PROVE  ELFList[k - 1].startIndex < ELFList[k].startIndex
      BY <2>3, <2>4
    <3> QED
      BY <2>2, <2>3
  <2>6. ASSUME NEW k \in DOMAIN starts
        PROVE  \E im \in Laid :
                 /\ im.at = starts[k]
                 /\ HeaderCopied(im) =>
                      \A f \in DOMAIN ELFList[k] \ {"startIndex"} : ELFList[k][f] = im[f]
    <3> DEFINE h == ELFList[k]
    <3>1. h \in HeadersHere
      BY <2>2
    <3>2. h = ELF64Header(LinuxMem, h.startIndex) /\ h.startIndex \in AcceptedBelow(Copied)
      BY <3>1, HeadersTyped DEF ScanInv
    <3>3. PICK im \in Laid : im.at = h.startIndex
      BY <2>1, <3>2
    <3>4. ASSUME HeaderCopied(im)
          PROVE  \A f \in DOMAIN h \ {"startIndex"} : h[f] = im[f]
      <4>1. HeaderLaid(LinuxMem, im) /\ im.at \in Nat
        BY <2>1, <3>4 DEF LaidIn
      <4>2. /\ h.type = im.type /\ h.phoff = im.phoff /\ h.shoff = im.shoff
            /\ h.phentsize = im.phentsize /\ h.phnum = im.phnum
            /\ h.shentsize = im.shentsize /\ h.shnum = im.shnum
            /\ h.shstrndx = im.shstrndx
        BY <2>1, <3>2, <3>3, <3>4, <4>1, FieldsRight
      <4>3. DOMAIN h = {"startIndex", "type", "phoff", "shoff", "phentsize", "phnum",
                        "shentsize", "shnum", "shstrndx"}
        BY <3>2 DEF ELF64Header
      <4> HIDE DEF h
      <4> QED
        BY <4>2, <4>3
    <3> QED
      BY <3>3, <3>4
  <2>7. ASSUME NEW im \in Laid, HeaderCopied(im), im.legal
        PROVE  im.at \in Range(starts)
    <3>1. HeaderLaid(LinuxMem, im) /\ im.at \in Nat
      BY <2>1, <2>7 DEF LaidIn
    <3>2. Accepted(LinuxMem, im.at)
      BY <2>7, <3>1 DEF HeaderLaid, Accepted
    <3>3. im.at \in 0 .. Copied - 1
      BY <2>7, <3>1, ScanAssumption DEF HeaderCopied
    <3>4. im.at \in Starts
      BY <2>2, <3>2, <3>3 DEF AcceptedBelow
    <3>5. PICK k \in DOMAIN ELFList : im.at = ELFList[k].startIndex
      BY <3>4 DEF Starts
    <3> QED
      BY <2>4, <3>5 DEF Range
  <2> HIDE DEF starts
  <2>8. {im.at : im \in {x \in Laid : HeaderCopied(x) /\ x.legal}} \subseteq Range(starts)
    BY <2>7
  <2> QED
    BY <2>5, <2>6, <2>8 DEF starts
<1> QED
  BY <1>1, ScanInvAlways, PTL

-----------------------------------------------------------------------------
(* The tables of an image whose section headers are copied.                *)
IsTabled(k, im) == ELFList[k].startIndex = im.at /\ Tabled(im)

LEMMA WholeTabled ==
  ASSUME NEW k, NEW im, IsImage(k, im)
  PROVE  IsTabled(k, im)
  BY DEF IsImage, IsTabled, Whole

LEMMA TabledAt ==
  ASSUME ScanInv, NEW k \in DOMAIN ELFList, NEW im \in Laid, IsTabled(k, im)
  PROVE  LET h == ELFList[k]
         IN /\ LinuxMem \in Memory /\ LinuxMem = CopyOf(ram)
            /\ HeaderLaid(LinuxMem, im) /\ SectionsLaid(LinuxMem, im)
            /\ NamesLaid(LinuxMem, im)
            /\ h.startIndex = im.at /\ im.at \in Nat /\ im.at + 64 <= Copied
            /\ h.phoff = im.phoff /\ h.shoff = im.shoff
            /\ h.phentsize = im.phentsize /\ h.phnum = im.phnum
            /\ h.shentsize = im.shentsize /\ h.shnum = im.shnum
            /\ h.shstrndx = im.shstrndx
            /\ h \in HeaderType
            /\ NumEntries(h.shnum) = im.shnum /\ NumEntries(h.phnum) = im.phnum
<1> DEFINE h == ELFList[k]
<1>1. spc # "boot"
  <2>1. DOMAIN <<>> = {}
    OBVIOUS
  <2> QED
    BY <2>1 DEF ScanInv, LoopInv
<1>2. LinuxMem \in Memory /\ LinuxMem = CopyOf(ram) /\ LaidIn(LinuxMem, im)
  BY <1>1, MemoryLaid
<1>3. h.startIndex = im.at /\ Tabled(im) /\ im.at \in Nat
  BY <1>2 DEF IsTabled, LaidIn
<1>4. SectionsLaid(LinuxMem, im) /\ NamesLaid(LinuxMem, im)
  BY <1>2, <1>3 DEF LaidIn
<1>5. HeaderCopied(im) /\ im.at + 64 <= Copied
  BY <1>3 DEF Tabled, HeaderCopied
<1>6. HeaderLaid(LinuxMem, im)
  BY <1>2, <1>5 DEF LaidIn
<1>7. h \in HeaderType /\ h = ELF64Header(LinuxMem, im.at)
  <2>1. h \in HeadersHere
    <3>1. ELFList \in Seq(HeadersHere) /\ k \in 1 .. Len(ELFList)
      BY DEF ScanInv, ListInv
    <3> QED
      BY <3>1, SeqElement
  <2> QED
    BY <1>3, <2>1, HeadersTyped DEF ScanInv
<1>8. /\ h.phoff = im.phoff /\ h.shoff = im.shoff
      /\ h.phentsize = im.phentsize /\ h.phnum = im.phnum
      /\ h.shentsize = im.shentsize /\ h.shnum = im.shnum
      /\ h.shstrndx = im.shstrndx
  BY <1>2, <1>3, <1>5, <1>6, <1>7, FieldsRight
<1>9. NumEntries(h.shnum) = im.shnum /\ NumEntries(h.phnum) = im.phnum
  <2>1. /\ h.shnum \in Nat /\ h.shnum < ByteRange /\ h.phnum \in Nat /\ h.phnum < ByteRange
        /\ ByteRange \in Nat \ {0}
    BY <1>3, <1>7, <1>8, WordOK DEF HeaderType, Tabled
  <2>2. \A n \in Nat, D \in Nat \ {0} : n < D => n % D = n
    OBVIOUS
  <2> QED
    BY <1>8, <2>1, <2>2 DEF NumEntries
<1> QED
  BY <1>2, <1>3, <1>4, <1>5, <1>6, <1>7, <1>8, <1>9

(* ... and of one that is copied as a whole.                               *)
LEMMA ImageAt ==
  ASSUME ScanInv, NEW k \in DOMAIN ELFList, NEW im \in Laid, IsImage(k, im)
  PROVE  /\ IsTabled(k, im) /\ TablesLaid(LinuxMem, im)
         /\ im.extent \in Nat /\ im.at + im.extent <= Copied
<1>1. LaidIn(LinuxMem, im) /\ Whole(im)
  <2>1. spc # "boot"
    <3>1. DOMAIN <<>> = {}
      OBVIOUS
    <3> QED
      BY <3>1 DEF ScanInv, LoopInv
  <2> QED
    BY <2>1, MemoryLaid DEF IsImage
<1>2. TablesLaid(LinuxMem, im)
  BY <1>1 DEF LaidIn
<1> QED
  BY <1>1, <1>2, WholeTabled DEF TablesLaid, Whole, AllCopied

(* Its entries are read where they were laid.                              *)
LEMMA SectionPlaced ==
  ASSUME ScanInv, NEW k \in DOMAIN ELFList, NEW im \in Laid, IsTabled(k, im),
         NEW n \in 1 .. im.shnum
  PROVE  LET a == SectionPlace(im, n)
         IN /\ a \in Nat /\ a + 64 < MemSize
            /\ SectionAt(ELFList[k], n - 1) = a
            /\ SectionLaid(LinuxMem, a, im.sections[n])
<1> DEFINE h == ELFList[k]
           x == (n - 1) * im.shentsize
           a == im.at + im.shoff + x
<1>1. /\ h \in HeaderType /\ h.startIndex = im.at /\ h.shoff = im.shoff
      /\ h.shentsize = im.shentsize /\ h.shnum = im.shnum
      /\ SectionsLaid(LinuxMem, im) /\ im.at \in Nat
  BY TabledAt
<1>2. im.shoff \in Nat /\ im.shentsize \in Nat /\ im.shnum \in Nat
  BY <1>1 DEF HeaderType
<1>3. x \in Nat
  <2>1. n - 1 \in Nat
    BY <1>2
  <2> QED
    BY <1>2, <2>1
<1>4. a = SectionPlace(im, n)
  BY DEF SectionPlace
<1>5. n \in DOMAIN im.sections /\ SectionPlace(im, n) + 64 <= Copied
  BY DEF IsTabled, Tabled
<1>6. SectionAt(h, n - 1) = AsInt(h.startIndex + h.shoff + (n - 1) * h.shentsize)
  BY DEF SectionAt
<1>7. SectionLaid(LinuxMem, a, im.sections[n])
  BY <1>1, <1>4, <1>5 DEF SectionsLaid
<1> HIDE DEF x
<1>8. a \in Nat /\ a + 64 < MemSize
  BY <1>1, <1>2, <1>3, <1>4, <1>5, ScanAssumption, WordOK
<1>9. AsInt(a) = a
  <2>1. a \in 0 .. MemSize - 1
    BY <1>8, WordOK
  <2> QED
    BY <2>1, AsIntSmall
<1>10. SectionAt(h, n - 1) = a
  BY <1>1, <1>6, <1>9 DEF x
<1> QED
  BY <1>4, <1>7, <1>8, <1>10

LEMMA ProgramPlace ==
  ASSUME ScanInv, NEW k \in DOMAIN ELFList, NEW im \in Laid, IsImage(k, im),
         NEW n \in 1 .. im.phnum
  PROVE  LET a == im.at + im.phoff + (n - 1) * im.phentsize
         IN /\ a \in Nat /\ a + 64 < MemSize
            /\ ProgramAt(ELFList[k], n - 1) = a
            /\ ProgramLaid(LinuxMem, a, im.programs[n])
<1> DEFINE h == ELFList[k]
           x == (n - 1) * im.phentsize
           a == im.at + im.phoff + x
<1>1. /\ h \in HeaderType /\ h.startIndex = im.at /\ h.phoff = im.phoff
      /\ h.phentsize = im.phentsize /\ h.phnum = im.phnum /\ NumEntries(h.phnum) = im.phnum
      /\ TablesLaid(LinuxMem, im) /\ im.at \in Nat /\ im.extent \in Nat
      /\ im.at + im.extent <= Copied
  BY ImageAt, TabledAt
<1>2. im.phoff \in Nat /\ im.phentsize \in Nat /\ im.phnum \in Nat
  BY <1>1 DEF HeaderType
<1>3. x \in Nat /\ x <= im.phnum * im.phentsize /\ im.phnum * im.phentsize \in Nat
  <2>1. im.phentsize * (n - 1) <= im.phentsize * im.phnum
    BY <1>2, MultiplesInOrder
  <2>2. im.phentsize * (n - 1) = x /\ im.phentsize * im.phnum = im.phnum * im.phentsize
    BY <1>2
  <2>3. n - 1 \in Nat
    BY <1>2
  <2>4. x \in Nat /\ im.phnum * im.phentsize \in Nat
    BY <1>2, <2>3
  <2> QED
    BY <2>1, <2>2, <2>4
<1>4. im.phoff + im.phnum * im.phentsize <= im.extent
  BY <1>1 DEF TablesLaid
<1> DEFINE y == im.phnum * im.phentsize
<1>5. x \in Nat /\ y \in Nat /\ x <= y /\ im.phoff + y <= im.extent
  BY <1>3, <1>4
<1>6. a = im.at + im.phoff + (n - 1) * im.phentsize
  OBVIOUS
<1>7. ProgramAt(h, n - 1) = AsInt(h.startIndex + h.phoff) + (n - 1) * h.phentsize
  BY DEF ProgramAt
<1>8. (n - 1) * h.phentsize = x
  BY <1>1
<1> HIDE DEF x, y
<1>9. a \in Nat /\ a <= Copied /\ Copied \in Nat /\ Copied + 64 < MemSize
  <2>1. Copied \in Nat /\ Copied + 64 < MemSize
    BY ScanAssumption
  <2>2. im.at \in Nat /\ im.extent \in Nat /\ im.at + im.extent <= Copied /\ im.phoff \in Nat
    BY <1>1, <1>2
  <2> QED
    BY <1>5, <2>1, <2>2
<1>10. im.at + im.phoff \in 0 .. MemSize - 1
  BY <1>1, <1>2, <1>3, <1>9, WordOK
<1>11. ProgramAt(h, n - 1) = a
  <2>1. AsInt(im.at + im.phoff) = im.at + im.phoff
    BY <1>10, AsIntSmall
  <2> QED
    BY <1>1, <1>7, <1>8, <2>1
<1>12. n \in DOMAIN im.programs
  BY DEF IsImage, Whole, Tabled
<1>13. ProgramLaid(LinuxMem, a, im.programs[n])
  BY <1>1, <1>6, <1>12 DEF TablesLaid
<1>14. a + 64 < MemSize
  BY <1>9, WordOK
<1> QED
  BY <1>6, <1>9, <1>11, <1>13, <1>14

LEMMA Listed ==
  ASSUME ScanInv, NEW k \in DOMAIN tables
  PROVE  k \in DOMAIN ELFList
BY SectionsRight DEF ScanInv

(* The tables hold what is read there.                                     *)
LEMMA SectionRead ==
  ASSUME ScanInv, NEW k \in DOMAIN tables, NEW im \in Laid, IsTabled(k, im),
         NEW n \in 1 .. im.shnum
  PROVE  \E a \in Nat : /\ a + 64 < MemSize
                        /\ SectionLaid(LinuxMem, a, im.sections[n])
                        /\ tables[k].sections[n] = SectionHeader(LinuxMem, a)
<1> DEFINE h == ELFList[k]
<1>1. k \in DOMAIN ELFList
  BY Listed
<1>2. PICK a \in Nat : /\ a + 64 < MemSize /\ SectionAt(h, n - 1) = a
                       /\ SectionLaid(LinuxMem, a, im.sections[n])
  BY <1>1, SectionPlaced
<1>3. tables[k].sections[n] = SectionHeader(LinuxMem, SectionAt(h, n - 1))
  <2>1. Len(tables[k].sections) = im.shnum
    BY <1>1, TabledAt, SectionsRight DEF ScanInv
  <2> QED
    BY <2>1, SectionsRight DEF ScanInv
<1> QED
  BY <1>2, <1>3

LEMMA ProgramRead ==
  ASSUME ScanInv, NEW k \in DOMAIN tables, NEW im \in Laid, IsImage(k, im),
         NEW n \in 1 .. im.phnum
  PROVE  \E a \in Nat : /\ a + 64 < MemSize
                        /\ ProgramLaid(LinuxMem, a, im.programs[n])
                        /\ tables[k].programs[n] = ProgramHeader(LinuxMem, a)
<1> DEFINE h == ELFList[k]
<1>1. k \in DOMAIN ELFList
  BY Listed
<1>2. PICK a \in Nat : /\ a + 64 < MemSize /\ ProgramAt(h, n - 1) = a
                       /\ ProgramLaid(LinuxMem, a, im.programs[n])
  BY <1>1, ProgramPlace
<1>3. tables[k].programs[n] = ProgramHeader(LinuxMem, ProgramAt(h, n - 1))
  <2>1. tables[k] = TablesOf(LinuxMem, h)
    BY DEF ScanInv, TablesInv
  <2>2. NumEntries(h.phnum) = im.phnum
    BY <1>1, ImageAt, TabledAt
  <2> QED
    BY <2>1, <2>2 DEF TablesOf
<1> QED
  BY <1>2, <1>3

(* What readAddr reads, up to what an int is made of.                      *)
LEMMA ReadableRemainder ==
  ASSUME NEW m \in Memory, NEW s \in Nat, s + 8 < MemSize, Readable(Field(m, s))
  PROVE  readAddr(m, s) % Word = Field(m, s)
<1>1. PICK j \in Nat : readAddr(m, s) = Field(m, s) + Word * j
  BY readAddrLow
<1>2. Field(m, s) \in Nat /\ Field(m, s) < Word
  <2>1. Field(m, s) \in Nat
    BY FieldLow, WordOK
  <2>2. ByteRange * ByteRange <= Word
    <3>1. \A a, b \in Nat \ {0} : a * b \in Nat \ {0} /\ a <= a * b
      OBVIOUS
    <3>2. ByteRange * ByteRange \in Nat \ {0} /\ ByteRange \in Nat \ {0}
      BY <3>1, WordOK
    <3>3. ByteRange * ByteRange * ByteRange \in Nat \ {0}
            /\ ByteRange * ByteRange <= ByteRange * ByteRange * ByteRange
      BY <3>1, <3>2
    <3>4. ByteRange * ByteRange * ByteRange <= Word
      BY <3>1, <3>2, <3>3 DEF Word
    <3> DEFINE B2 == ByteRange * ByteRange
               B3 == ByteRange * ByteRange * ByteRange
    <3>5. B2 \in Nat /\ B3 \in Nat /\ B2 <= B3 /\ B3 <= Word
      BY <3>2, <3>3, <3>4
    <3> HIDE DEF B2, B3
    <3>6. B2 <= Word
      BY <3>5, WordOK
    <3> QED
      BY <3>6 DEF B2
  <2> DEFINE B2 == ByteRange * ByteRange
  <2>3. Field(m, s) < B2 /\ B2 <= Word /\ B2 \in Nat
    BY <2>2, WordOK DEF Readable
  <2> HIDE DEF B2
  <2> QED
    BY <2>1, <2>3, WordOK
<1> DEFINE W == Word
           f == Field(m, s)
<1>3. W \in Nat \ {0} /\ f \in 0 .. W - 1
  BY <1>2, WordOK
<1>4. (W * j + f) % W = f
  <2> HIDE DEF W, f
  <2> QED
    BY <1>3, UniqueRemainder
<1>5. W * j + f = f + W * j
  <2> HIDE DEF W, f
  <2> QED
    BY <1>3
<1> QED
  BY <1>1, <1>4, <1>5

(* The entries of the tables are those laid, for every image copied as a   *)
(* whole (getSectionHeaderTable, getProgramHeaderTable, readAddr).         *)
THEOREM TablesRight == ScanSpec => []TablesExact
<1>1. ScanInv => TablesExact
  <2> SUFFICES ASSUME ScanInv, NEW k \in DOMAIN tables, NEW im \in Laid, IsImage(k, im)
               PROVE  LET Same(entry, laid, fields) ==
                            \A f \in fields : Readable(laid[f]) => entry[f] % Word = laid[f]
                      IN /\ Len(tables[k].sections) = im.shnum
                         /\ Len(tables[k].programs) = im.phnum
                         /\ \A n \in 1 .. im.shnum : LET s == tables[k].sections[n]
                              IN /\ s.name = im.sections[n].name
                                 /\ Same(s, im.sections[n], {"offset", "size"})
                         /\ \A n \in 1 .. im.phnum : LET p == tables[k].programs[n]
                              IN /\ p.type = im.programs[n].type
                                 /\ Same(p, im.programs[n], {"offset", "filesz"})
    BY DEF TablesExact
  <2>1. /\ LinuxMem \in Memory /\ ELFList[k] \in HeaderType
        /\ ELFList[k].shnum = im.shnum /\ ELFList[k].phnum = im.phnum
        /\ NumEntries(ELFList[k].shnum) = im.shnum /\ NumEntries(ELFList[k].phnum) = im.phnum
    BY Listed, WholeTabled, TabledAt
  <2>2. Len(tables[k].sections) = im.shnum
    BY <2>1, SectionsRight DEF ScanInv
  <2>3. Len(tables[k].programs) = im.phnum
    <3>1. tables[k] = TablesOf(LinuxMem, ELFList[k])
      BY DEF ScanInv, TablesInv
    <3>2. tables[k].programs =
            [n \in 1 .. im.phnum |-> ProgramHeader(LinuxMem, ProgramAt(ELFList[k], n - 1))]
      BY <2>1, <3>1 DEF TablesOf
    <3>3. im.phnum \in Nat
      BY <2>1 DEF HeaderType
    <3>4. DOMAIN tables[k].programs = 1 .. im.phnum
      BY <3>2
    <3> DEFINE programs == tables[k].programs
    <3>5. programs = [n \in 1 .. im.phnum |-> programs[n]]
      BY <3>2
    <3> HIDE DEF programs
    <3>6. Len(programs) = im.phnum
      BY <3>3, <3>5
    <3> QED
      BY <3>6 DEF programs
  <2>4. ASSUME NEW n \in 1 .. im.shnum
        PROVE  /\ tables[k].sections[n].name = im.sections[n].name
               /\ Readable(im.sections[n].offset) =>
                    tables[k].sections[n].offset % Word = im.sections[n].offset
               /\ Readable(im.sections[n].size) =>
                    tables[k].sections[n].size % Word = im.sections[n].size
    <3>1. PICK a \in Nat : /\ a + 64 < MemSize
                           /\ SectionLaid(LinuxMem, a, im.sections[n])
                           /\ tables[k].sections[n] = SectionHeader(LinuxMem, a)
      BY WholeTabled, SectionRead
    <3>2. /\ Readable(Field(LinuxMem, a + 24)) =>
               readAddr(LinuxMem, a + 24) % Word = Field(LinuxMem, a + 24)
          /\ Readable(Field(LinuxMem, a + 32)) =>
               readAddr(LinuxMem, a + 32) % Word = Field(LinuxMem, a + 32)
      <4>1. a + 24 \in Nat /\ (a + 24) + 8 < MemSize /\ a + 32 \in Nat /\ (a + 32) + 8 < MemSize
        BY <3>1, WordOK
      <4> QED
        BY <2>1, <4>1, ReadableRemainder
    <3> QED
      BY <3>1, <3>2 DEF SectionLaid, SectionHeader
  <2>5. ASSUME NEW n \in 1 .. im.phnum
        PROVE  /\ tables[k].programs[n].type = im.programs[n].type
               /\ Readable(im.programs[n].offset) =>
                    tables[k].programs[n].offset % Word = im.programs[n].offset
               /\ Readable(im.programs[n].filesz) =>
                    tables[k].programs[n].filesz % Word = im.programs[n].filesz
    <3>1. PICK a \in Nat : /\ a + 64 < MemSize
                           /\ ProgramLaid(LinuxMem, a, im.programs[n])
                           /\ tables[k].programs[n] = ProgramHeader(LinuxMem, a)
      BY ProgramRead
    <3>2. /\ Readable(Field(LinuxMem, a + 8)) =>
               readAddr(LinuxMem, a + 8) % Word = Field(LinuxMem, a + 8)
          /\ Readable(Field(LinuxMem, a + 32)) =>
               readAddr(LinuxMem, a + 32) % Word = Field(LinuxMem, a + 32)
      <4>1. a + 8 \in Nat /\ (a + 8) + 8 < MemSize /\ a + 32 \in Nat /\ (a + 32) + 8 < MemSize
        BY <3>1, WordOK
      <4> QED
        BY <2>1, <4>1, ReadableRemainder
    <3> QED
      BY <3>1, <3>2 DEF ProgramLaid, ProgramHeader
  <2> QED
    BY <2>2, <2>3, <2>4, <2>5
<1> QED
  BY <1>1, ScanInvAlways, PTL

-----------------------------------------------------------------------------
(* An int between the start of an image and the end of the memory is the   *)
(* sum it was made of.                                                     *)
LEMMA AsIntIn ==
  ASSUME NEW at \in 0 .. MemSize - 1, NEW x \in 0 .. Word,
         at < AsInt(at + x)
  PROVE  AsInt(at + x) = at + x
<1> DEFINE W == Word
           half == Word \div 2
           b == at + x
           r == b % W
<1>1. /\ W \in Nat \ {0} /\ half \in Nat /\ half <= W /\ MemSize \in Nat /\ MemSize <= half
      /\ AsInt(b) = IF r < half THEN r ELSE r - W
      /\ x \in Nat /\ x <= W
  BY WordOK, NamesAssumption DEF AsInt
<1>2. b \in Nat /\ at < AsInt(b) /\ x <= W
  BY WordOK
<1>3. b < W => r = b
  <2> HIDE DEF W, b
  <2> QED
    BY <1>1, <1>2
<1>4. b >= W => r = b - W
  <2>1. b < W + W
    BY <1>1
  <2> HIDE DEF W, b
  <2> SUFFICES ASSUME b >= W PROVE b % W = b - W
    BY DEF r
  <2> DEFINE rest == b - W
  <2>2. rest \in 0 .. W - 1
    BY <1>1, <1>2, <2>1
  <2>3. W * 1 + rest = b
    BY <1>1, <1>2
  <2>4. (W * 1 + rest) % W = rest
    <3> HIDE DEF rest
    <3> QED
      BY <1>1, <2>2, UniqueRemainder
  <2> QED
    BY <2>3, <2>4
<1>5. b >= W => b - W <= at
  BY <1>1
<1>6. AsInt(b) = b
  <2>1. at \in Nat /\ b < W + W
    BY <1>1
  <2> HIDE DEF W, half, b, r
  <2> QED
    BY <1>1, <1>2, <1>3, <1>4, <1>5, <2>1
<1> QED
  BY <1>6

(* The name of a section is looked up where it was laid.                   *)
LEMMA NameRead ==
  ASSUME ScanInv, NEW k \in DOMAIN tables, NEW im \in Laid, IsTabled(k, im), AllReadable(im),
         NEW n \in 1 .. im.shnum, ELFList[k].shstrndx < im.shnum,
         NEW offset,
         offset = OffsetIn(ImageOf(LinuxMem, ELFList[k], tables[k].sections),
                           tables[k].sections[n].name),
         ELFList[k].startIndex < offset
  PROVE  /\ offset = im.at + NameAt(im, im.sections[n])
         /\ tables[k].sections[n].name = im.sections[n].name
         /\ im.at \in Nat /\ offset \in Nat \ {0}
<1> DEFINE h == ELFList[k]
           sections == tables[k].sections
           img == ImageOf(LinuxMem, h, sections)
           l == im.sections[im.shstrndx + 1]
           name == im.sections[n].name
           c == SectionPlace(im, im.shstrndx + 1)
           sh == SectionAt(h, im.shstrndx)
<1>1. /\ LinuxMem \in Memory /\ h \in HeaderType
      /\ h.startIndex = im.at /\ im.at \in Nat /\ im.at + 64 <= Copied
      /\ h.shnum = im.shnum /\ h.shstrndx = im.shstrndx /\ NamesLaid(LinuxMem, im)
  BY Listed, TabledAt
<1>2. im.shstrndx \in Nat /\ im.shnum \in Nat /\ im.shstrndx + 1 \in 1 .. im.shnum
  BY <1>1 DEF HeaderType
<1>3. n \in DOMAIN im.sections /\ im.shstrndx + 1 \in DOMAIN im.sections
  BY <1>2 DEF IsTabled, Tabled
<1>4. /\ c \in Nat /\ c + 64 < MemSize /\ SectionAt(h, (im.shstrndx + 1) - 1) = c
      /\ SectionLaid(LinuxMem, c, l)
  BY <1>2, Listed, SectionPlaced
<1>5. sh \in Nat /\ sh + 64 < MemSize /\ SectionLaid(LinuxMem, sh, l)
  <2>1. (im.shstrndx + 1) - 1 = im.shstrndx
    BY <1>2
  <2> QED
    BY <1>4, <2>1
<1>6. sections[n].name = name
  <2>1. PICK a \in Nat : /\ SectionLaid(LinuxMem, a, im.sections[n])
                         /\ sections[n] = SectionHeader(LinuxMem, a)
    BY SectionRead
  <2> QED
    BY <2>1 DEF SectionLaid, SectionHeader
<1>7. name \in Nat
  <2>1. sections \in Seq(SectionType) /\ Len(sections) = NumEntries(h.shnum)
    BY SectionsRight DEF ScanInv
  <2>2. n \in 1 .. Len(sections)
    BY <2>1, Listed, TabledAt
  <2>3. sections[n] \in SectionType
    BY <2>1, <2>2, SeqElement
  <2> QED
    BY <1>6, <2>3, WordOK DEF SectionType
<1>8. readAddr(img.bytes, 0) = readAddr(LinuxMem, sh + 24)
  <2>1. img.bytes = [q \in 0 .. 8 |-> LinuxMem[sh + 24 + q]]
    BY <1>1 DEF ImageOf
  <2>2. /\ img.bytes[0] = LinuxMem[sh + 24]
        /\ img.bytes[0+1] = LinuxMem[sh + 24 + 1] /\ img.bytes[0+3] = LinuxMem[sh + 24 + 3]
        /\ img.bytes[0+4] = LinuxMem[sh + 24 + 4] /\ img.bytes[0+5] = LinuxMem[sh + 24 + 5]
        /\ img.bytes[0+6] = LinuxMem[sh + 24 + 6] /\ img.bytes[0+7] = LinuxMem[sh + 24 + 7]
        /\ img.bytes[0+8] = LinuxMem[sh + 24 + 8]
    <3> HIDE DEF sh, img
    <3> QED
      BY <1>5, <2>1
  <2> HIDE DEF img, sh
  <2> QED
    BY <2>2 DEF readAddr
<1>9. PICK j \in Nat : readAddr(LinuxMem, sh + 24) = l.offset + Word * j
  <2>1. Field(LinuxMem, sh + 24) = l.offset /\ Readable(l.offset)
    BY <1>3, <1>5 DEF SectionLaid, AllReadable
  <2>2. sh + 24 \in Nat /\ (sh + 24) + 8 < MemSize
    <3> HIDE DEF sh
    <3> QED
      BY <1>5, WordOK
  <2> QED
    BY <1>1, <2>1, <2>2, readAddrLow
<1>10. l.offset \in Nat
  <2>1. Field(LinuxMem, sh + 24) = l.offset
    BY <1>5 DEF SectionLaid
  <2>2. sh + 24 \in Nat /\ (sh + 24) + 7 < MemSize
    <3> HIDE DEF sh
    <3> QED
      BY <1>5, WordOK
  <2> QED
    BY <1>1, <2>1, <2>2, FieldLow
<1> DEFINE low == l.offset
           start == im.at
           W == Word
           base == start + (low + name)
<1>11. offset = AsInt(base)
  <2>1. offset = AsInt((start + (low + W * j) + name) % Double)
    BY <1>1, <1>6, <1>8, <1>9 DEF OffsetIn, ImageOf
  <2>2. start + (low + W * j) + name = base + W * j
    <3>1. start \in Nat /\ low \in Nat /\ name \in Nat /\ W * j \in Nat
      BY <1>1, <1>7, <1>10, WordOK
    <3> DEFINE wj == W * j
    <3> HIDE DEF start, low, name, W, wj
    <3>2. wj \in Nat
      BY <3>1 DEF wj
    <3>3. start + (low + wj) + name = base + wj
      BY <3>1, <3>2
    <3> QED
      BY <3>3 DEF wj
  <2>3. base \in Int
    BY <1>1, <1>7, <1>10
  <2> HIDE DEF base, start, low, name
  <2> QED
    BY <2>1, <2>2, <2>3, AsIntOfSum
<1>12. low + name \in 0 .. Word /\ low + name = NameAt(im, im.sections[n])
  <2>1. im.shstrndx < im.shnum
    BY <1>2
  <2>2. NameAt(im, im.sections[n]) <= Word
    BY <1>1, <1>3, <2>1 DEF NamesLaid
  <2>3. low + name = NameAt(im, im.sections[n])
    BY DEF NameAt
  <2> QED
    BY <1>7, <1>10, <2>2, <2>3, WordOK
<1>13. start \in 0 .. MemSize - 1
  BY <1>1, ScanAssumption, WordOK
<1>14. AsInt(base) = base
  BY <1>1, <1>11, <1>12, <1>13, AsIntIn
<1>15. base \in Nat \ {0}
  <2>1. start \in Nat /\ low + name \in Nat /\ start < base
    BY <1>1, <1>7, <1>10, <1>11, <1>14
  <2> QED
    BY <2>1
<1> QED
  BY <1>1, <1>6, <1>11, <1>12, <1>14, <1>15

LEMMA ContentsFrom ==
  ASSUME NEW m \in Memory, NEW a \in Nat, NEW size \in Nat, a + size <= MemSize
  PROVE  Contents(m, a .. a + size - 1) = [n \in 1 .. size |-> m[a + n - 1]]
<1> DEFINE b == a + size - 1
           N == IF a > b THEN 0 ELSE b - a + 1
<1>1. a \in Int /\ b \in Int /\ a .. b \subseteq 0 .. MemSize - 1 /\ N = size
  BY WordOK
<1>2. Contents(m, a .. b) = [n \in 1 .. N |-> m[a + n - 1]]
  <2> HIDE DEF b
  <2> QED
    BY <1>1, ContentsRight
<1> QED
  BY <1>1, <1>2

(* The place that is printed of a section is the one laid, in the memory.  *)
LEMMA PayloadPlace ==
  ASSUME ScanInv, NEW k \in DOMAIN tables, NEW im \in Laid, IsTabled(k, im), AllReadable(im),
         NEW n \in 1 .. im.shnum
  PROVE  LET s  == im.sections[n]
             lo == im.at + s.offset
         IN /\ im.at \in Nat /\ s.offset \in Nat /\ s.size \in Nat
            /\ lo + s.size < MemSize =>
                 PayloadAt(ELFList[k].startIndex, tables[k].sections[n]) = lo .. lo + s.size - 1
<1> DEFINE s == im.sections[n]
           e == tables[k].sections[n]
           start == im.at
           offset == s.offset
           size == s.size
           lo == start + offset
<1>1. LinuxMem \in Memory /\ ELFList[k].startIndex = start /\ start \in Nat
  BY Listed, TabledAt
<1>2. n \in DOMAIN im.sections
  BY DEF IsTabled, Tabled
<1>3. Readable(offset) /\ Readable(size)
  BY <1>2 DEF AllReadable
<1>4. PICK a \in Nat : /\ a + 64 < MemSize
                       /\ SectionLaid(LinuxMem, a, s) /\ e = SectionHeader(LinuxMem, a)
  BY SectionRead
<1>5. /\ a + 24 \in Nat /\ (a + 24) + 8 < MemSize /\ (a + 24) + 7 < MemSize
      /\ a + 32 \in Nat /\ (a + 32) + 8 < MemSize /\ (a + 32) + 7 < MemSize
  BY <1>4, WordOK
<1>6. offset = Field(LinuxMem, a + 24) /\ size = Field(LinuxMem, a + 32)
  BY <1>4 DEF SectionLaid
<1>7. offset \in Nat /\ size \in Nat
  BY <1>1, <1>5, <1>6, FieldLow
<1>8. PICK j \in Nat : e.offset = offset + Word * j
  <2>1. e.offset = readAddr(LinuxMem, a + 24)
    BY <1>4 DEF SectionHeader
  <2> QED
    BY <1>1, <1>3, <1>5, <1>6, <2>1, readAddrLow
<1>9. PICK q \in Nat : e.size = size + Word * q
  <2>1. e.size = readAddr(LinuxMem, a + 32)
    BY <1>4 DEF SectionHeader
  <2> QED
    BY <1>1, <1>3, <1>5, <1>6, <2>1, readAddrLow
<1>10. ASSUME lo + size < MemSize
       PROVE  PayloadAt(start, e) = lo .. lo + size - 1
  <2>1. lo \in Nat /\ lo \in 0 .. MemSize - 1 /\ size \in 0 .. MemSize - 1
    <3>1. lo \in Nat
      BY <1>1, <1>7
    <3> HIDE DEF lo, size
    <3> QED
      BY <1>7, <1>10, <3>1, WordOK
  <2>2. AsInt((start + e.offset) % Double) = lo
    <3>1. start + (offset + Word * j) = lo + Word * j
      <4> DEFINE wj == Word * j
      <4>1. start \in Nat /\ offset \in Nat /\ wj \in Nat
        BY <1>1, <1>7, WordOK
      <4> HIDE DEF start, offset, wj
      <4>2. start + (offset + wj) = lo + wj
        BY <4>1
      <4> QED
        BY <4>2 DEF wj
    <3>2. AsInt((lo + Word * j) % Double) = AsInt(lo)
      BY <2>1, AsIntOfSum
    <3> QED
      BY <1>8, <2>1, <3>1, <3>2, AsIntSmall
  <2>3. AsInt(e.size) = size
    <3>1. AsInt(size + Word * q) = AsInt(size)
      BY <1>7, AsIntOfSum
    <3> QED
      BY <1>9, <2>1, <3>1, AsIntSmall
  <2> QED
    BY <2>2, <2>3 DEF PayloadAt
<1> QED
  BY <1>1, <1>7, <1>10

(* What is printed of a section laid within the image are its bytes.       *)
LEMMA PayloadRead ==
  ASSUME ScanInv, NEW k \in DOMAIN tables, NEW im \in Laid, IsImage(k, im), AllReadable(im),
         NEW n \in 1 .. im.shnum, im.shstrndx < im.shnum, im.sections[n].rodata
  PROVE  LET payload == PayloadAt(ELFList[k].startIndex, tables[k].sections[n])
         IN Contents(LinuxMem, payload) = BytesOf(im, im.sections[n])
<1> DEFINE s == im.sections[n]
           e == tables[k].sections[n]
           start == im.at
           offset == s.offset
           size == s.size
           lo == start + offset
<1>1. /\ LinuxMem \in Memory /\ LinuxMem = CopyOf(ram)
      /\ ELFList[k].startIndex = start /\ im.extent \in Nat
      /\ start + im.extent <= Copied
      /\ NamesLaid(LinuxMem, im) /\ IsTabled(k, im)
  BY Listed, ImageAt, TabledAt
<1>2. n \in DOMAIN im.sections
  BY <1>1 DEF IsTabled, Tabled
<1>3. offset + size <= im.extent
  BY <1>1, <1>2 DEF AllReadable, NamesLaid
<1>4. Copied \in Nat /\ Copied + 64 < MemSize /\ MemSize \in Nat
  BY ScanAssumption, WordOK
<1>5. /\ start \in Nat /\ offset \in Nat /\ size \in Nat
      /\ lo + size < MemSize => PayloadAt(start, e) = lo .. lo + size - 1
  BY <1>1, PayloadPlace
<1>6. lo \in Nat /\ lo + size <= Copied /\ lo + size < MemSize
  <2> HIDE DEF start, offset, size
  <2> QED
    BY <1>1, <1>3, <1>4, <1>5
<1>7. Contents(LinuxMem, lo .. lo + size - 1) = [b \in 1 .. size |-> LinuxMem[lo + b - 1]]
  <2>1. lo + size <= MemSize
    <3> HIDE DEF lo, size
    <3> QED
      BY <1>4, <1>5, <1>6
  <2> HIDE DEF lo, size
  <2> QED
    BY <1>1, <1>5, <1>6, <2>1, ContentsFrom
<1>8. ASSUME NEW b \in 1 .. size
      PROVE  LinuxMem[lo + b - 1] = Rams[ram].bytes[start + offset + b - 1]
  <2>1. lo + b - 1 \in 0 .. MemSize - 1 /\ lo + b - 1 < Copied
    <3> HIDE DEF lo, size
    <3> QED
      BY <1>4, <1>5, <1>6
  <2> QED
    BY <1>1, <2>1 DEF CopyOf
<1>9. BytesOf(im, s) = [b \in 1 .. size |-> Rams[ram].bytes[start + offset + b - 1]]
  BY DEF BytesOf
<1>10. Contents(LinuxMem, lo .. lo + size - 1) = BytesOf(im, s)
  <2> HIDE DEF lo, size, start, offset, s
  <2> QED
    BY <1>7, <1>8, <1>9
<1> QED
  BY <1>1, <1>5, <1>6, <1>10

(* The read-only data printed of a good image whose sections' places and   *)
(* sizes are below 2^16 is all of its own, in the order of the sections    *)
(* (printAllSectionHeaders, printSectionContents).                         *)
THEOREM RodataRight == ScanSpec => []RodataReadable
<1>1. ScanInv => RodataReadable
  <2> SUFFICES ASSUME ScanInv, spc = "done", NEW k \in DOMAIN report, NEW im \in Laid,
                      IsImage(k, im), report[k].good, AllReadable(im)
               PROVE  PrintsRodata(k, im)
    BY DEF RodataReadable, RodataPrinted
  <2> DEFINE h == ELFList[k]
             sections == tables[k].sections
             names == report[k].names
             contents == report[k].rodata
             R == RodataNames(LinuxMem, names)
  <2>1. k \in DOMAIN tables
    BY DEF ScanInv, LoopInv, TablesInv, ReportInv
  <2>2. ReportedFrom(LinuxMem, h, sections, report[k])
    BY DEF ScanInv, ReportInv
  <2>3. names \in Seq(0 .. MemSize - 1)
    <3>1. report \in Seq(ReportType) /\ k \in 1 .. Len(report)
      BY DEF ScanInv, ReportInv
    <3>2. report[k] \in ReportType
      BY <3>1, SeqElement
    <3> QED
      BY <3>2 DEF ReportType
  <2>4. /\ im.shnum \in Nat /\ h.shstrndx = im.shstrndx /\ h.startIndex = im.at
        /\ NamesLaid(LinuxMem, im) /\ Len(sections) = im.shnum
    BY <2>1, Listed, WholeTabled, TabledAt, SectionsRight DEF ScanInv, HeaderType
  <2>5. DOMAIN names = 1 .. im.shnum /\ DOMAIN im.sections = 1 .. im.shnum
    BY <2>2, <2>3, <2>4 DEF ReportedFrom, IsImage, Whole, Tabled
  <2>6. ASSUME NEW n \in 1 .. im.shnum
        PROVE  /\ im.shstrndx < im.shnum /\ im.sections[n].rodata \in BOOLEAN
               /\ n \in R <=> im.sections[n].rodata
    <3>1. sections # <<>>
      BY <2>4
    <3>2. h.shstrndx < im.shnum
      BY <2>2, <2>4, <3>1 DEF ReportedFrom
    <3> DEFINE offset == OffsetIn(ImageOf(LinuxMem, h, sections), sections[n].name)
    <3>3. h.startIndex < offset /\ names[n] = IF sections[n].name = 0 THEN 0 ELSE offset
      BY <2>2, <2>5 DEF ReportedFrom, NamesFrom
    <3>4. /\ offset = im.at + NameAt(im, im.sections[n])
          /\ sections[n].name = im.sections[n].name /\ offset \in Nat \ {0}
      <4> HIDE DEF offset
      <4>1. offset = OffsetIn(ImageOf(LinuxMem, h, sections), sections[n].name)
        BY DEF offset
      <4> QED
        BY <2>1, <3>2, <3>3, <4>1, WholeTabled, NameRead
    <3>5. im.sections[n].rodata =
            (im.sections[n].name # 0
               /\ IsRodata(LinuxMem, im.at + NameAt(im, im.sections[n])))
      BY <2>4, <2>5, <3>2 DEF NamesLaid, IsImage
    <3>6. n \in R <=> names[n] # 0 /\ IsRodata(LinuxMem, names[n])
      BY <2>5 DEF RodataNames
    <3> HIDE DEF offset, names, R
    <3>7. names[n] # 0 <=> im.sections[n].name # 0
      BY <3>3, <3>4
    <3> QED
      BY <2>4, <3>2, <3>3, <3>4, <3>5, <3>6, <3>7
  <2>7. R = RodataSections(im)
    BY <2>5, <2>6 DEF RodataNames, RodataSections
  <2>8. Len(contents) = Cardinality(R)
    BY <2>2 DEF ReportedFrom, RodataFrom
  <2>9. ASSUME NEW n \in R
        PROVE  contents[Cardinality({x \in R : x <= n})] = BytesOf(im, im.sections[n])
    <3>1. n \in 1 .. im.shnum
      BY <2>5 DEF RodataNames
    <3>2. contents[Cardinality({x \in R : x <= n})] =
            Contents(LinuxMem, PayloadAt(h.startIndex, sections[n]))
      BY <2>2 DEF ReportedFrom, RodataFrom
    <3> QED
      BY <2>1, <2>6, <3>1, <3>2, PayloadRead
  <2> HIDE DEF R
  <2> QED
    BY <2>7, <2>8, <2>9 DEF PrintsRodata
<1> QED
  BY <1>1, ScanInvAlways, PTL
-----------------------------------------------------------------------------
(* What is a cause to halt.                                                *)
TooMany    == Cardinality({im \in Laid : im.at < Copied}) > HeadersUpperBound
SomeBeyond == \E im \in Laid : im.at < Copied /\ (~Tabled(im) \/ BeyondLimits(im))

HaltInv == spc = "halted" => TooMany \/ SomeBeyond

(* A header listed is that of an image laid.                               *)
LEMMA HeaderOfImage ==
  ASSUME ScanInv, NEW k \in DOMAIN ELFList
  PROVE  \E im \in Laid : im.at < Copied /\ im.at = ELFList[k].startIndex
<1>1. spc # "boot"
  <2>1. DOMAIN <<>> = {}
    OBVIOUS
  <2> QED
    BY <2>1 DEF ScanInv, LoopInv
<1>2. ELFList[k] \in HeadersHere
  <2>1. ELFList \in Seq(HeadersHere) /\ k \in 1 .. Len(ELFList)
    BY DEF ScanInv, ListInv
  <2> QED
    BY <2>1, SeqElement
<1>3. ELFList[k].startIndex \in AcceptedBelow(Copied)
  BY <1>2, HeadersTyped DEF ScanInv
<1>4. PICK im \in Laid : im.at = ELFList[k].startIndex
  BY <1>1, <1>3, MemoryLaid
<1>5. im.at < Copied
  BY <1>3, <1>4, ScanAssumption DEF AcceptedBelow
<1> QED
  BY <1>4, <1>5

(* The identity that comes when the list is full is of one more image.     *)
LEMMA OneTooMany ==
  ASSUME ScanInv, tryReadELF, spc' = "halted"
  PROVE  TooMany
<1> DEFINE j == Min(Candidates)
           S == {im \in Laid : im.at < Copied}
           N == Len(ELFList)
           at == [n \in 1 .. N + 1 |-> IF n = N + 1 THEN j ELSE ELFList[n].startIndex]
           f == [n \in 1 .. N + 1 |-> CHOOSE im \in Laid : im.at = at[n]]
<1>1. spc = "scan" /\ cursor \in 0 .. Copied /\ Copied \in Nat /\ MemoryInv
  BY ScanAssumption DEF tryReadELF, ScanInv, LoopInv
<1>2. matchELFHeader(LinuxMem, j) /\ ListFull
  BY <1>1 DEF tryReadELF
<1>3. j \in cursor .. Copied - 1
  BY <1>1, NextCandidate DEF tryReadELF
<1>4. /\ N \in Nat /\ N >= HeadersUpperBound /\ HeadersUpperBound \in Nat
      /\ DOMAIN ELFList = 1 .. N
  BY <1>2, ScanAssumption DEF ScanInv, ListInv, ListFull
<1>5. IsFiniteSet(S)
  BY <1>1, MemoryLaid, FS_Subset
<1>6. ASSUME NEW n \in 1 .. N
      PROVE  at[n] \in 0 .. cursor - 1 /\ Accepted(LinuxMem, at[n])
  <2>1. at[n] = ELFList[n].startIndex /\ n \in DOMAIN ELFList
    BY <1>4
  <2>2. ELFList[n].startIndex \in AcceptedBelow(cursor)
    BY <1>1, <2>1 DEF ScanInv, ListInv, Starts
  <2> QED
    BY <2>1, <2>2 DEF AcceptedBelow
<1>7. at[N + 1] = j
  BY <1>4
<1>8. ASSUME NEW n \in 1 .. N + 1
      PROVE  /\ at[n] \in 0 .. Copied - 1
             /\ \E im \in Laid : im.at = at[n]
  <2>1. at[n] \in 0 .. Copied - 1 /\ matchELFHeader(LinuxMem, at[n])
    <3>1. CASE n = N + 1
      <4> HIDE DEF j, at
      <4> QED
        BY <1>1, <1>2, <1>3, <1>7, <3>1
    <3>2. CASE n # N + 1
      <4>1. n \in 1 .. N
        BY <1>4, <3>2
      <4> HIDE DEF at
      <4>2. at[n] \in 0 .. cursor - 1 /\ Accepted(LinuxMem, at[n])
        BY <1>6, <4>1
      <4> QED
        BY <1>1, <4>2 DEF Accepted
    <3> QED
      BY <3>1, <3>2
  <2> HIDE DEF at
  <2> QED
    BY <1>1, <2>1, MemoryLaid
<1>9. ASSUME NEW n \in 1 .. N + 1, NEW l \in 1 .. N + 1, n < l
      PROVE  at[n] # at[l]
  <2>1. n \in 1 .. N
    BY <1>4, <1>9
  <2>2. CASE l = N + 1
    <3> HIDE DEF at, j
    <3>1. at[n] \in 0 .. cursor - 1
      BY <1>6, <2>1
    <3> QED
      BY <1>1, <1>3, <1>7, <2>2, <3>1
  <2>3. CASE l # N + 1
    <3>1. at[n] = ELFList[n].startIndex /\ at[l] = ELFList[l].startIndex
      BY <2>1, <2>3
    <3>2. ELFList[n].startIndex < ELFList[l].startIndex
      BY <1>4, <1>9, <2>1, <2>3 DEF ScanInv, ListInv
    <3> HIDE DEF at
    <3>3. at[n] \in Int
      BY <1>6, <2>1
    <3> QED
      BY <3>1, <3>2, <3>3
  <2> QED
    BY <2>2, <2>3
<1> HIDE DEF at, j
<1>10. ASSUME NEW n \in 1 .. N + 1
       PROVE  f[n] \in Laid /\ f[n].at = at[n] /\ f[n] \in S
  <2>1. f[n] = CHOOSE im \in Laid : im.at = at[n]
    OBVIOUS
  <2>2. f[n] \in Laid /\ f[n].at = at[n]
    BY <1>8, <2>1
  <2>3. at[n] < Copied
    BY <1>1, <1>8
  <2> HIDE DEF f
  <2> QED
    BY <2>2, <2>3
<1>11. f \in Injection(1 .. N + 1, S)
  <2>1. f \in [1 .. N + 1 -> S]
    BY <1>10
  <2>2. ASSUME NEW n \in 1 .. N + 1, NEW l \in 1 .. N + 1, f[n] = f[l]
        PROVE  n = l
    <3>1. at[n] = at[l]
      BY <1>10, <2>2
    <3>2. ~(n < l) /\ ~(l < n)
      BY <1>9, <3>1
    <3> QED
      BY <1>4, <3>2
  <2> HIDE DEF f, S
  <2> QED
    BY <2>1, <2>2 DEF Injection, IsInjective
<1>12. Cardinality(1 .. N + 1) <= Cardinality(S)
  <2> HIDE DEF f, S
  <2> QED
    BY <1>5, <1>11, FS_Injection
<1>13. Cardinality(1 .. N + 1) = N + 1 /\ Cardinality(S) \in Nat
  <2>1. 1 \in Int /\ N + 1 \in Int /\ 1 <= N + 1
    BY <1>4
  <2>2. Cardinality(1 .. N + 1) = (N + 1) - 1 + 1
    BY <2>1, FS_Interval
  <2> QED
    BY <1>4, <1>5, <2>2, FS_CardinalityType
<1> QED
  BY <1>4, <1>12, <1>13 DEF TooMany

(* The tables of an image within the limits fit.                           *)
LEMMA TabledFits ==
  ASSUME ScanInv, NEW k \in DOMAIN ELFList, NEW im \in Laid, IsTabled(k, im), ~BeyondLimits(im)
  PROVE  TablesFit(ELFList[k])
<1> DEFINE h == ELFList[k]
<1>1. /\ NumEntries(h.shnum) = im.shnum /\ NumEntries(h.phnum) = im.phnum
      /\ im.shnum \in Nat /\ im.phnum \in Nat /\ im.at \in Nat
      /\ im.phoff \in Nat /\ im.phentsize \in Nat
      /\ h.startIndex = im.at /\ h.phoff = im.phoff /\ h.phentsize = im.phentsize
  BY TabledAt DEF HeaderType
<1>2. im.shnum <= ListSize /\ im.phnum <= ListSize /\ ListSize \in Nat /\ MemSize \in Nat
  BY <1>1, ScanAssumption, WordOK DEF BeyondLimits
<1>3. ASSUME NEW n \in 0 .. im.shnum - 1
      PROVE  n < ListSize /\ SectionAt(h, n) \in 0 .. MemSize - 65
  <2>1. n + 1 \in 1 .. im.shnum /\ (n + 1) - 1 = n /\ n < ListSize
    BY <1>1, <1>2
  <2>2. PICK a \in Nat : a + 64 < MemSize /\ SectionAt(h, (n + 1) - 1) = a
    BY <2>1, SectionPlaced
  <2> QED
    BY <1>2, <2>1, <2>2
<1>4. ASSUME NEW n \in 0 .. im.phnum - 1
      PROVE  n < ListSize /\ ProgramAt(h, n) \in 0 .. MemSize - 57
  <2>1. n + 1 \in 1 .. im.phnum /\ (n + 1) - 1 = n /\ n < ListSize
    BY <1>1, <1>2
  <2> DEFINE x == n * im.phentsize
             a == im.at + im.phoff
  <2>2. x \in Nat /\ a \in Nat
    BY <1>1
  <2>3. ~(a + ((n + 1) - 1) * im.phentsize + 57 > MemSize)
    BY <2>1 DEF BeyondLimits
  <2>4. ~(a + x + 57 > MemSize)
    BY <2>1, <2>3
  <2>5. ProgramAt(h, n) = AsInt(a) + x
    BY <1>1 DEF ProgramAt
  <2> HIDE DEF a, x
  <2>6. a \in 0 .. MemSize - 1 /\ a + x \in 0 .. MemSize - 57
    BY <1>2, <2>2, <2>4
  <2> QED
    BY <2>1, <2>5, <2>6, AsIntSmall
<1> QED
  BY <1>1, <1>3, <1>4 DEF TablesFit

(* What is printed of such an image lies in the memory.                    *)
LEMMA PayloadFits ==
  ASSUME ScanInv, PrintSection, spc' = "halted", NEW im \in Laid, IsTabled(cursor, im),
         ~BeyondLimits(im)
  PROVE  FALSE
<1> DEFINE h == ELFList[cursor]
           sections == tables[cursor].sections
           n == i + 1
           offset == NameOffset(image.names[n])
<1>1. spc = "sections" /\ PrintSectionHeader
  BY DEF PrintSection
<1>2. /\ cursor \in DOMAIN tables /\ cursor \in DOMAIN ELFList
  BY <1>1 DEF ScanInv, LoopInv, TablesInv, ListInv
<1>3. /\ image = ImageOf(LinuxMem, h, sections) /\ Len(found) = i
      /\ h.shstrndx < Len(sections)
  BY <1>1 DEF ScanInv, ImageInv
<1>4. /\ im.shnum \in Nat /\ h.shstrndx = im.shstrndx /\ h.startIndex = im.at
      /\ NamesLaid(LinuxMem, im) /\ Len(sections) = im.shnum
      /\ sections \in Seq(SectionType) /\ LinuxMem \in Memory
  BY <1>2, TabledAt, SectionsRight DEF ScanInv, HeaderType
<1>5. /\ image.names = [x \in 1 .. im.shnum |-> sections[x].name]
      /\ image.startIndex = im.at
      /\ DOMAIN sections = 1 .. im.shnum
  BY <1>3, <1>4 DEF ImageOf
<1>6. n \in 1 .. im.shnum /\ n \in DOMAIN im.sections
  <2>1. i < Len(image.names) /\ i \in Nat
    BY <1>1 DEF ScanInv, NamesTypeOK, PrintSectionHeader
  <2>2. Len(image.names) = im.shnum
    BY <1>4, <1>5
  <2> QED
    BY <1>4, <2>1, <2>2 DEF IsTabled, Tabled
<1>7. /\ found'[n] # 0 /\ IsRodata(LinuxMem, found'[n]) /\ outcome' = "printing"
      /\ ~(Payload(sections[n]) \subseteq DOMAIN LinuxMem)
  BY <1>1 DEF PrintSection
<1>8. /\ InImage(offset) /\ found' = Append(found, IF image.names[n] = 0 THEN 0 ELSE offset)
  BY <1>1, <1>7 DEF PrintSectionHeader
<1>9. found'[n] = IF image.names[n] = 0 THEN 0 ELSE offset
  <2>1. found \in Seq(0 .. MemSize - 1)
    BY DEF ScanInv, NamesTypeOK
  <2> HIDE DEF offset
  <2> QED
    BY <1>3, <1>8, <2>1
<1>10. image.names[n] = sections[n].name /\ found'[n] = offset
  <2> HIDE DEF offset, n
  <2> QED
    BY <1>5, <1>6, <1>7, <1>9
<1>11. offset = OffsetIn(ImageOf(LinuxMem, h, sections), sections[n].name)
  BY <1>3, <1>10 DEF NameOffset, OffsetIn
<1>12. h.startIndex < offset /\ h.shstrndx < im.shnum /\ im.shstrndx < im.shnum
  BY <1>3, <1>4, <1>5, <1>8 DEF InImage
<1> DEFINE s == im.sections[n]
<1>13. AllReadable(im) /\ offset = im.at + NameAt(im, s) /\ sections[n].name = s.name
  <2>1. AllReadable(im)
    BY DEF BeyondLimits
  <2> HIDE DEF offset, n
  <2> QED
    BY <1>2, <1>6, <1>11, <1>12, <2>1, NameRead
<1>14. s.rodata \/ (s.name # 0 /\ ~NameCopied(im, s))
  <2>1. s.name # 0
    <3> HIDE DEF offset, n
    <3> QED
      BY <1>7, <1>9, <1>10, <1>13
  <2>2. NameCopied(im, s) => s.rodata = (s.name # 0 /\ IsRodata(LinuxMem, im.at + NameAt(im, s)))
    BY <1>4, <1>6, <1>12 DEF NamesLaid
  <2>3. IsRodata(LinuxMem, im.at + NameAt(im, s))
    <3> HIDE DEF offset, n, s
    <3> QED
      BY <1>7, <1>10, <1>13
  <2> HIDE DEF s
  <2> QED
    BY <2>1, <2>2, <2>3
<1> DEFINE lo == im.at + s.offset
           size == s.size
<1>15. /\ im.at \in Nat /\ s.offset \in Nat /\ size \in Nat
       /\ lo + size < MemSize => PayloadAt(h.startIndex, sections[n]) = lo .. lo + size - 1
  <2> HIDE DEF n
  <2> QED
    BY <1>2, <1>6, <1>13, PayloadPlace
<1>16. lo + size < MemSize
  <2>1. ~(lo + size >= MemSize)
    BY <1>6, <1>14 DEF BeyondLimits
  <2>2. lo \in Nat /\ size \in Nat
    BY <1>15
  <2> HIDE DEF lo, size
  <2> QED
    BY <2>1, <2>2, WordOK
<1>17. PayloadAt(h.startIndex, sections[n]) \subseteq 0 .. MemSize - 1
  <2>1. lo \in Nat
    BY <1>15
  <2>2. lo .. lo + size - 1 \subseteq 0 .. MemSize - 1
    <3> HIDE DEF lo, size
    <3> QED
      BY <1>15, <1>16, <2>1, WordOK
  <2> HIDE DEF lo, size, n
  <2> QED
    BY <1>15, <1>16, <2>2
<1>18. Payload(sections[n]) = PayloadAt(h.startIndex, sections[n])
  BY <1>4, <1>5 DEF Payload, PayloadAt
<1>19. DOMAIN LinuxMem = 0 .. MemSize - 1
  BY <1>4 DEF Memory
<1> QED
  BY <1>7, <1>17, <1>18, <1>19

LEMMA HaltKept == ScanInv /\ HaltInv /\ [ScanNext]_scanVars => HaltInv'
<1> SUFFICES ASSUME ScanInv, HaltInv, [ScanNext]_scanVars, spc' = "halted"
             PROVE  (TooMany \/ SomeBeyond)'
  BY DEF HaltInv
<1>1. ram' = ram /\ (TooMany \/ SomeBeyond) => (TooMany \/ SomeBeyond)'
  BY DEF TooMany, SomeBeyond, Laid
<1>2. ASSUME ram' = ram, NEW k \in DOMAIN ELFList, ~SomeBeyond
      PROVE  \E im \in Laid : IsTabled(k, im) /\ ~BeyondLimits(im)
  <2>1. PICK im \in Laid : im.at < Copied /\ im.at = ELFList[k].startIndex
    BY HeaderOfImage
  <2> QED
    BY <1>2, <2>1 DEF SomeBeyond, IsTabled
<1>3. CASE tryReadELF
  <2>1. ram' = ram
    BY <1>3 DEF tryReadELF, Halt
  <2> QED
    BY <1>1, <1>3, <2>1, OneTooMany
<1>4. CASE ReadTables
  <2>1. ram' = ram /\ cursor \in DOMAIN ELFList /\ ~TablesFit(ELFList[cursor])
    BY <1>4 DEF ReadTables, Halt, ScanInv, LoopInv, ListInv
  <2>2. SomeBeyond
    BY <1>2, <2>1, TabledFits
  <2> QED
    BY <1>1, <2>1, <2>2
<1>5. CASE BeginPrint
  <2>1. /\ ram' = ram /\ cursor \in DOMAIN ELFList /\ cursor \in DOMAIN tables
        /\ tables[cursor].sections # <<>>
        /\ ELFList[cursor].shstrndx >= Len(tables[cursor].sections)
    BY <1>5 DEF BeginPrint, Halt, Printed, ScanInv, LoopInv, ListInv, TablesInv
  <2>2. SomeBeyond
    <3> SUFFICES ASSUME ~SomeBeyond PROVE FALSE
      OBVIOUS
    <3>1. PICK im \in Laid : IsTabled(cursor, im) /\ ~BeyondLimits(im)
      BY <1>2, <2>1
    <3>2. /\ im.shnum \in Nat /\ ELFList[cursor].shstrndx = im.shstrndx
          /\ im.shstrndx \in Nat
          /\ Len(tables[cursor].sections) = im.shnum
          /\ tables[cursor].sections \in Seq(SectionType)
      BY <2>1, <3>1, TabledAt, SectionsRight DEF ScanInv, HeaderType
    <3>3. im.shnum > 0
      BY <2>1, <3>2
    <3> QED
      BY <2>1, <3>1, <3>2, <3>3 DEF BeyondLimits
  <2> QED
    BY <1>1, <2>1, <2>2
<1>6. CASE PrintSection
  <2>1. ram' = ram /\ cursor \in DOMAIN ELFList
    BY <1>6 DEF PrintSection, Halt, ScanInv, LoopInv, ListInv
  <2>2. SomeBeyond
    BY <1>2, <1>6, <2>1, PayloadFits
  <2> QED
    BY <1>1, <2>1, <2>2
<1>7. CASE UNCHANGED scanVars
  BY <1>1, <1>7 DEF scanVars, HaltInv
<1>8. MapPage \/ Copy \/ ScanEnds \/ TablesRead \/ EndPrint \/ PassEnds => spc' # "halted"
  BY DEF MapPage, Copy, ScanEnds, TablesRead, EndPrint, Printed, PassEnds, ScanInv, LoopInv
<1> QED
  BY <1>3, <1>4, <1>5, <1>6, <1>7, <1>8 DEF ScanNext

(* A pass halts only for the causes HaltedForCause lists, whatever the     *)
(* memory and wherever the end of the copy cuts an image (run,             *)
(* getSectionHeader, printSectionContents).                                *)
THEOREM HaltsForCause == ScanSpec => []HaltedForCause
<1>1. ScanInit => HaltInv
  BY DEF ScanInit, HaltInv
<1>2. HaltInv => HaltedForCause
  BY DEF HaltInv, HaltedForCause, TooMany, SomeBeyond
<1> QED
  BY <1>1, <1>2, HaltKept, ScanInvAlways, PTL DEF ScanSpec
=============================================================================
