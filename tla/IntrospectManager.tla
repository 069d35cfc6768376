------------------------- MODULE IntrospectManager -------------------------
(***************************************************************************)
(* run() of components/IntrospectManager: wait for the ready event, copy   *)
(* the guest's memory (which the guest goes on writing), look for ELF      *)
(* images in the copy, read their header tables, print them, free, signal. *)
(*                                                                         *)
(* Memory is a row of bytes.  What the code makes of them, matchELFHeader  *)
(* and tryReadELF at an address of the copy and the tables, names and      *)
(* contents that the header found there points to, anywhere in the copy,   *)
(* is a function of the whole copy and the address (ElfScan models it):    *)
(*   accepted   the type is one tryReadELF accepts                         *)
(*   shnum, phnum, shstrndx    of the header                               *)
(*   named      how many of the section headers, from the first one on,    *)
(*              have a name printSectionHeader finds inside the memory     *)
(*   inside     the header tables lie inside the memory                    *)
(*   contained  ... and so do the contents of the .rodata sections printed *)
(* The heap is counted in blocks (calls of malloc).  Where the code writes *)
(* or reads beyond an array, or through a NULL or uninitialised pointer,   *)
(* the manager is "halted": the model does not follow it any further.      *)
(***************************************************************************)
EXTENDS Connections, Sequences, FiniteSets

CONSTANTS
  Bytes,              (* values of a byte                                  *)
  Blank,              (* ... among them zero                               *)
  Magic(_, _),        (* has a copy the ELF identity at an address         *)
  Header(_, _),       (* what the rest of the ELF header is read as        *)
  Copied,             (* bytes the memcpy copies (1024*1000*100)           *)
  HeadersUpperBound,  (* headersUpperBound: 100                            *)
  ListSize,           (* entries of a header table: list[100]              *)
  ByteRange,          (* values of a uint8_t: 256                          *)
  HeapCap             (* blocks the component's heap can hold              *)

Addresses == 1 .. Copied

Memories == [Addresses -> Bytes]

Headers == [accepted : BOOLEAN, shnum : Nat, phnum : Nat, shstrndx : Nat,
            named : Nat, inside : BOOLEAN, contained : BOOLEAN]

ASSUME ManagerAssumption ==
  /\ {Copied, HeadersUpperBound, ListSize, HeapCap} \subseteq Nat
  /\ ByteRange \in Nat \ {0}
  /\ Blank \in Bytes
  /\ \A mem \in Memories, j \in Addresses :
       Magic(mem, j) \in BOOLEAN /\ Header(mem, j) \in Headers

VARIABLES
  memdev,         (* the guest's memory                                    *)
  mpc,            (* where run() is                                        *)
  uncopied,       (* bytes the memcpy has yet to copy                      *)
  LinuxMem,       (* Linux_Mem: the copy (zero beyond it)                  *)
  cursor,         (* j of the scan, i of the loops over the ELFs           *)
  ELFList,        (* the headers found, ELFList[0 .. numELFs - 1]          *)
  numGoodELFs,
  headers,        (* live blocks: headers malloc'ed for ELFList            *)
  tables,         (* ... header tables of this pass, with their entries    *)
  printed,        (* ... tables the printing functions made                *)
  held            (* history: held[c] is what memdev[c] has held since     *)
                  (* ready_wait returned, while the copy is under way      *)

managerVars == <<mpc, uncopied, LinuxMem, cursor, ELFList, numGoodELFs,
                 headers, tables, printed>>

ManagerInit ==
  /\ memdev      \in Memories
  /\ mpc         = "wait"
  /\ uncopied    = {}
  /\ LinuxMem    = [c \in Addresses |-> Blank]
  /\ cursor      = 1
  /\ ELFList     = <<>>
  /\ numGoodELFs = 0
  /\ headers     = 0
  /\ tables      = 0
  /\ printed     = 0
  /\ held        = [c \in Addresses |-> {}]

Live == headers + tables + printed
Room == HeapCap - Live

Halt ==
  /\ mpc' = "halted"
  /\ UNCHANGED <<uncopied, LinuxMem, cursor, ELFList, numGoodELFs,
                 headers, tables, printed>>

outside == <<memdev, held, ready, done, begun, acked>>
-----------------------------------------------------------------------------
(* ready_wait(): the pass begins.                                          *)
(* (slips: the flag stays up; later passes go by what the first copied)    *)
TakeReadySticky == ready /\ UNCHANGED ready
TakeReady == ready /\ ready' = FALSE

ToCopyOnce == IF begun = 0 THEN Addresses ELSE {}
ToCopy == Addresses

ReadyWait ==
  /\ mpc = "wait"
  /\ TakeReady
  /\ begun' = begun + 1
  /\ mpc' = "copy"
  /\ uncopied' = ToCopy
  /\ held' = [c \in Addresses |-> {memdev[c]}]
  /\ UNCHANGED <<memdev, done, acked, LinuxMem, cursor, ELFList, numGoodELFs,
                 headers, tables, printed>>

(* memcpy, byte by byte and in whatever order it likes.                    *)
CopyByte ==
  /\ mpc = "copy"
  /\ \E c \in uncopied :
       /\ LinuxMem' = [LinuxMem EXCEPT ![c] = memdev[c]]
       /\ uncopied' = uncopied \ {c}
  /\ UNCHANGED <<mpc, cursor, ELFList, numGoodELFs, headers, tables, printed, outside>>

(* The copy is complete; a header is allocated for each slot of ELFList    *)
(* (NULL once the heap is used up).                                        *)
(* (slip: one header too few)                                              *)
HeaderSlotsShort == HeadersUpperBound - 1
HeaderSlots == HeadersUpperBound

AllocateHeaders ==
  /\ mpc = "copy"
  /\ uncopied = {}
  /\ headers' = IF Room < HeaderSlots THEN Room ELSE HeaderSlots
  /\ mpc' = "scan"
  /\ cursor' = 1
  /\ ELFList' = <<>>
  /\ numGoodELFs' = 0
  /\ UNCHANGED <<uncopied, LinuxMem, tables, printed, outside>>

(* matchELFHeader                                                          *)
MatchELFHeader(j) == Magic(LinuxMem, j)

(* tryReadELF, past the match: the type filter.                            *)
(* (slip: no filter)                                                       *)
AcceptedAll(j) == TRUE
Accepted(j) == Header(LinuxMem, j).accepted

(* One position of the scan.  ELFList[numELFs] is written on a match, even *)
(* if the type is then refused, and past the end of ELFList after          *)
(* headersUpperBound images.                                               *)
Scan ==
  /\ mpc = "scan"
  /\ cursor <= Copied
  /\ IF MatchELFHeader(cursor) /\ Len(ELFList) >= headers
     THEN Halt
     ELSE /\ cursor' = cursor + 1
          /\ ELFList' = IF MatchELFHeader(cursor) /\ Accepted(cursor)
                        THEN Append(ELFList, [at |-> cursor, header |-> Header(LinuxMem, cursor)])
                        ELSE ELFList
          /\ UNCHANGED <<mpc, uncopied, LinuxMem, numGoodELFs, headers, tables, printed>>
  /\ UNCHANGED outside

ScanDone ==
  /\ mpc = "scan"
  /\ cursor > Copied
  /\ mpc' = "tables"
  /\ cursor' = 1
  /\ UNCHANGED <<uncopied, LinuxMem, ELFList, numGoodELFs, headers, tables, printed, outside>>
-----------------------------------------------------------------------------
(* numEntries of a table is a uint8_t: larger counts are cut off.          *)
NumEntries(n) == n % ByteRange

SectionTableBlocks(h) == 1 + NumEntries(h.shnum)   (* getSectionHeaderTable *)
ProgramTableBlocks(h) == 1 + NumEntries(h.phnum)   (* getProgramHeaderTable *)

(* list[i] is written for every i < numEntries, from where shoff and phoff *)
(* point.                                                                  *)
TablesFit(h) ==
  /\ NumEntries(h.shnum) <= ListSize /\ NumEntries(h.phnum) <= ListSize
  /\ h.inside

(* The tables of one ELF.                                                  *)
ReadTables ==
  /\ mpc = "tables"
  /\ cursor <= Len(ELFList)
  /\ LET h    == ELFList[cursor].header
         need == SectionTableBlocks(h) + ProgramTableBlocks(h)
     IN IF ~TablesFit(h) \/ need > Room
        THEN Halt
        ELSE /\ tables' = tables + need
             /\ cursor' = cursor + 1
             /\ UNCHANGED <<mpc, uncopied, LinuxMem, ELFList, numGoodELFs, headers, printed>>
  /\ UNCHANGED outside

(* printAllSectionHeaders prints until an entry is busted ...              *)
Good(h) == NumEntries(h.shnum) <= h.named

PrintedSections(h) == IF Good(h) THEN NumEntries(h.shnum) ELSE h.named + 1

(* ... and printSectionHeader reads the section table once more for every  *)
(* entry, to look up the entry of the section names.                       *)
Printable(h) ==
  \/ NumEntries(h.shnum) = 0
  \/ h.shstrndx < NumEntries(h.shnum) /\ h.contained

PrintBlocks(h) ==
  ProgramTableBlocks(h) + (1 + PrintedSections(h)) * SectionTableBlocks(h)

(* printProgramHeaders and printAllSectionHeaders for one ELF.             *)
PrintELF ==
  /\ mpc = "print"
  /\ cursor <= Len(ELFList)
  /\ LET h == ELFList[cursor].header
     IN IF ~Printable(h) \/ PrintBlocks(h) > Room
        THEN Halt
        ELSE /\ printed' = printed + PrintBlocks(h)
             /\ numGoodELFs' = IF Good(h) THEN numGoodELFs + 1 ELSE numGoodELFs
             /\ cursor' = cursor + 1
             /\ UNCHANGED <<mpc, uncopied, LinuxMem, ELFList, headers, tables>>
  /\ UNCHANGED outside

(* Clean up: the entries and tables of one ELF.                            *)
(* (slips: the program table's own block is left; the section table is     *)
(* freed twice)                                                            *)
FreedBlocksPartly(h) == SectionTableBlocks(h) + NumEntries(h.phnum)
FreedBlocksTwice(h) == 2 * SectionTableBlocks(h) + ProgramTableBlocks(h)
FreedBlocks(h) == SectionTableBlocks(h) + ProgramTableBlocks(h)

FreeTables ==
  /\ mpc = "clean"
  /\ cursor <= Len(ELFList)
  /\ tables' = tables - FreedBlocks(ELFList[cursor].header)
  /\ cursor' = cursor + 1
  /\ UNCHANGED <<mpc, uncopied, LinuxMem, ELFList, numGoodELFs, headers, printed, outside>>

(* From one loop over the ELFs to the next.                                *)
NextLoop ==
  /\ mpc \in {"tables", "print"}
  /\ cursor > Len(ELFList)
  /\ mpc' = IF mpc = "tables" THEN "print" ELSE "clean"
  /\ cursor' = 1
  /\ UNCHANGED <<uncopied, LinuxMem, ELFList, numGoodELFs, headers, tables, printed, outside>>

(* Clean up: the headers of ELFList, to the first NULL.                    *)
FreeHeaders ==
  /\ mpc = "clean"
  /\ cursor > Len(ELFList)
  /\ headers' = 0
  /\ mpc' = "underlying"
  /\ UNCHANGED <<uncopied, LinuxMem, cursor, ELFList, numGoodELFs, tables, printed, outside>>

(* done_emit_underlying(); done_emit();                                    *)
DoneEmitUnderlying ==
  /\ mpc = "underlying"
  /\ done' = TRUE
  /\ acked' = begun
  /\ mpc' = "emit"
  /\ UNCHANGED <<memdev, held, ready, begun, uncopied, LinuxMem, cursor, ELFList,
                 numGoodELFs, headers, tables, printed>>

DoneEmit ==
  /\ mpc = "emit"
  /\ done' = TRUE
  /\ mpc' = "wait"
  /\ UNCHANGED <<memdev, held, ready, begun, acked, uncopied, LinuxMem, cursor,
                 ELFList, numGoodELFs, headers, tables, printed>>

ManagerNext ==
  \/ ReadyWait \/ CopyByte \/ AllocateHeaders \/ Scan \/ ScanDone
  \/ ReadTables \/ PrintELF \/ NextLoop \/ FreeTables \/ FreeHeaders
  \/ DoneEmitUnderlying \/ DoneEmit

(* The guest stores to its memory: the connection vm_memdev shares it.     *)
StoreToMemory(c, v) ==
  /\ memdev[c] # v
  /\ memdev' = [memdev EXCEPT ![c] = v]
  /\ held' = IF mpc = "copy" THEN [held EXCEPT ![c] = @ \cup {v}] ELSE held
  /\ UNCHANGED <<managerVars, ready, done, begun, acked>>
-----------------------------------------------------------------------------
ManagerTypeOK ==
  /\ memdev \in Memories
  /\ mpc \in {"wait", "copy", "scan", "tables", "print", "clean",
              "underlying", "emit", "halted"}
  /\ uncopied \subseteq Addresses
  /\ LinuxMem \in Memories
  /\ cursor \in 1 .. Copied + 1
  /\ ELFList \in Seq([at : Addresses, header : Headers])
  /\ numGoodELFs \in 0 .. Len(ELFList)
  /\ {headers, tables, printed} \subseteq Nat
  /\ Live <= HeapCap
  /\ held \in [Addresses -> SUBSET Bytes]

(* What is measured was there: every byte of the copy, once copied, is one *)
(* the guest's memory held at that address after the pass had begun.  (No  *)
(* more than that: the guest runs on during the memcpy, and a header of    *)
(* the copy, torn, may be one that the memory never held.)                 *)
SnapshotFresh ==
  mpc \in {"copy", "scan", "tables", "print", "clean"} =>
    \A c \in Addresses \ uncopied : LinuxMem[c] \in held[c]

(* The scan reports exactly the images of the copy, each once, in the      *)
(* order of their addresses, with the header found there.                  *)
ReportExact ==
  mpc \in {"tables", "print", "clean"} =>
    /\ {ELFList[i].at : i \in DOMAIN ELFList} =
         {c \in Addresses : MatchELFHeader(c) /\ Header(LinuxMem, c).accepted}
    /\ \A i \in DOMAIN ELFList :
         /\ ELFList[i].header = Header(LinuxMem, ELFList[i].at)
         /\ \A k \in 1 .. i - 1 : ELFList[k].at < ELFList[i].at

(* The blocks a pass allocates itself are free again when it signals done. *)
OwnBlocksReturned ==
  mpc \in {"underlying", "emit", "wait"} => headers = 0 /\ tables = 0

(* A pass can only fail to finish beyond the limits of the code: more      *)
(* images in the copy than ELFList holds, an image whose tables, names     *)
(* index or contents lie outside their bounds, or a heap too small for     *)
(* what the printing functions have left on it so far, one table of each   *)
(* kind for every image, and the printing of one more image.               *)
Images == {c \in Addresses : Magic(LinuxMem, c)}

LargestPrint == (2 + ListSize) * (1 + ListSize)

HaltedBeyondLimits ==
  mpc = "halted" =>
    \/ Cardinality(Images) > HeadersUpperBound
    \/ \E c \in Images : LET h == Header(LinuxMem, c) IN ~TablesFit(h) \/ ~Printable(h)
    \/ HeapCap < HeadersUpperBound + Cardinality(Images) * 2 * (1 + ListSize)
                   + printed + LargestPrint

(* "clean up our garbage": when a pass signals done, nothing it allocated  *)
(* is left on the heap.                                                    *)
GarbageCleaned == mpc = "underlying" => Live = 0
=============================================================================
