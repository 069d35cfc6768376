----------------------------- MODULE MC_ElfScan -----------------------------
(***************************************************************************)
(* Memories for ElfScan: bytes of 14 values, so that 8 of them still make  *)
(* one of TLC's integers; a half is less than 196, a word than 38416.  The *)
(* fields are where the ELF format has them.  Images are described by      *)
(* records and encoded here, independently of how ElfScan reads them.      *)
(***************************************************************************)
EXTENDS ElfScan

MCMagic  == <<13, 5, 12, 6, 2, 1, 1, 0, 0, 0, 0, 0, 0, 0, 0, 0>>
MCRodata == <<4, 8, 9, 10, 11, 11, 3, 0>>

Le(value, width) == [k \in 1 .. width |-> (value \div 14^(k - 1)) % 14]

HeaderBytes(im) ==
  MCMagic \o Le(im.type, 2) \o Le(183, 2) \o Le(1, 4) \o Le(20000, 8) \o Le(im.phoff, 8)
    \o Le(im.shoff, 8) \o Le(0, 4) \o Le(64, 2) \o Le(im.phentsize, 2) \o Le(im.phnum, 2)
    \o Le(im.shentsize, 2) \o Le(im.shnum, 2) \o Le(im.shstrndx, 2)

SectionBytes(s) ==
  Le(s.name, 4) \o Le(1, 4) \o Le(2, 8) \o Le(5000, 8) \o Le(s.offset, 8) \o Le(s.size, 8)
    \o Le(7, 4) \o Le(0, 4) \o Le(1, 8) \o Le(0, 8)

ProgramBytes(p) ==
  Le(p.type, 4) \o Le(5, 4) \o Le(p.offset, 8) \o Le(4000, 8) \o Le(4000, 8)
    \o Le(p.filesz, 8) \o Le(p.filesz, 8) \o Le(16, 8)

(* The section names: "", ".rodata", "text", ".rodatat".                   *)
NameBytes == <<0>> \o MCRodata \o <<3, 2, 0>> \o SubSeq(MCRodata, 1, 7) \o <<3, 0>>

(* What an image lays where; of pieces that overlap, the last one counts.  *)
Pieces(im) ==
  <<[at |-> im.at, bytes |-> HeaderBytes(im)],
    [at |-> im.at + im.strings, bytes |-> NameBytes]>>
  \o [n \in DOMAIN im.sections |->
       [at |-> im.at + im.shoff + (n - 1) * im.shentsize,
        bytes |-> SectionBytes(im.sections[n])]]
  \o [n \in DOMAIN im.programs |->
       [at |-> im.at + im.phoff + (n - 1) * im.phentsize,
        bytes |-> ProgramBytes(im.programs[n])]]

(* One piece after the other is laid over a memory of other bytes.         *)
Lay(m, piece) ==
  SubSeq(m, 1, piece.at) \o piece.bytes \o SubSeq(m, piece.at + Len(piece.bytes) + 1, Len(m))

Memory(ims, noise) ==
  LET all == FoldLeft(LAMBDA done, im : done \o Pieces(im), <<>>, ims) \o noise
      pieces == SelectSeq(all, LAMBDA piece : piece.at < linux_ram_size)
      bytes == SubSeq(FoldLeft(Lay, [a \in 1 .. 2 * linux_ram_size |-> a % 7], pieces),
                      1, linux_ram_size)
  IN [bytes |-> [a \in 0 .. linux_ram_size - 1 |-> bytes[a + 1]], laid |-> Range(ims)]
-----------------------------------------------------------------------------
Section(name, offset, size) ==
  [name |-> name, offset |-> offset, size |-> size, rodata |-> name = 1]

Program == [type |-> 1, offset |-> 64, filesz |-> 30]

(* 64: names, 86: read-only data, 92: sections, 284: the program header.   *)
Base ==
  [at |-> 5, type |-> 2, legal |-> TRUE, phoff |-> 284, shoff |-> 92,
   phentsize |-> 56, phnum |-> 1, shentsize |-> 64, shnum |-> 3, shstrndx |-> 2,
   strings |-> 64, extent |-> 341, programs |-> <<Program>>,
   sections |-> <<Section(0, 0, 0), Section(1, 86, 6), Section(0, 64, 21)>>]

At(a) == [Base EXCEPT !.at = a]
V     == At(360)

WithRodata(offset, size) == [V EXCEPT !.sections[2] = Section(1, offset, size)]
WithNames(a, b) == [V EXCEPT !.sections[2].name = a, !.sections[2].rodata = a = 1,
                             !.sections[3].name = b, !.sections[3].rodata = b = 1]

(* The names' strings elsewhere.                                           *)
WithStrings(offset, extent) ==
  [V EXCEPT !.strings = offset, !.sections[3].offset = offset, !.extent = extent]

Types == <<[V EXCEPT !.type = 0], [V EXCEPT !.type = 5],
           [V EXCEPT !.type = 6, !.legal = FALSE], [V EXCEPT !.type = 167, !.legal = FALSE],
           [V EXCEPT !.type = 168], [V EXCEPT !.type = 195]>>

(* Read-only data: of no bytes, to the last readable place and size, and   *)
(* beyond them.                                                            *)
Data == <<WithRodata(86, 0), WithRodata(86, 195), WithRodata(195, 6), WithRodata(14, 14),
          WithRodata(196, 6), WithRodata(300, 20), WithRodata(86, 200), WithRodata(2000, 6)>>

Names == <<WithNames(0, 1), WithNames(1, 1), WithNames(9, 12), WithNames(12, 9),
           WithNames(1, 38000), WithNames(30, 1), WithStrings(345, 370)>>

(* Five sections and strides longer than the entries, the names' in the    *)
(* second; other counts and indices than those of the tables laid.         *)
Tables ==
  <<[V EXCEPT !.shnum = 5, !.shentsize = 66, !.shstrndx = 1, !.phoff = 0, !.phnum = 0,
              !.programs = <<>>, !.extent = 430,
              !.sections = <<Section(0, 0, 0), Section(9, 64, 21), Section(1, 86, 6),
                             Section(12, 70, 9), Section(1, 64, 8)>>],
    [V EXCEPT !.phnum = 2, !.phentsize = 60, !.extent = 405,
              !.programs = <<Program, [Program EXCEPT !.type = 1500]>>],
    [V EXCEPT !.phnum = 6], [V EXCEPT !.shnum = 6], [V EXCEPT !.shnum = 14],
    [V EXCEPT !.shnum = 15], [V EXCEPT !.shnum = 0], [V EXCEPT !.shnum = 0, !.sections = <<>>],
    [V EXCEPT !.shstrndx = 3],
    [V EXCEPT !.shoff = 1000, !.extent = 1192], [V EXCEPT !.phoff = 38000, !.extent = 38056]>>

(* Everywhere: across pages, across the end of the copy, beyond it.        *)
Places == [n \in 1 .. 600 |-> At(346 + n)]

Bare(a) == [At(a) EXCEPT !.shnum = 0, !.phnum = 0, !.shoff = 0, !.phoff = 0, !.extent = 86,
                         !.sections = <<>>, !.programs = <<>>]

(* Cut by the end of the copy: the section headers, whose sizes are then   *)
(* zero, and a name, which then seems to be ".rodata".                     *)
CutSections ==
  [At(660) EXCEPT !.phoff = 0, !.phnum = 0, !.programs = <<>>,
                  !.sections = <<Section(3, 0, 0), Section(65, 190, 190), Section(0, 64, 21)>>]

CutName ==
  [At(685) EXCEPT !.phoff = 0, !.phnum = 0, !.programs = <<>>, !.extent = 390,
                  !.shoff = 64, !.shnum = 2, !.shstrndx = 1, !.strings = 192,
                  !.sections = <<Section(12, 195, 195), Section(0, 192, 21)>>]

(* What only resembles a header: the identity but for its last byte, with  *)
(* another class, or cut short by a true one.                              *)
Noise == <<[at |-> 800, bytes |-> SubSeq(MCMagic, 1, 15) \o <<1>>],
           [at |-> 4, bytes |-> <<13>>],
           [at |-> 830, bytes |-> <<13, 5, 12, 6, 1>> \o SubSeq(MCMagic, 6, 16)],
           [at |-> 860, bytes |-> <<13, 13, 5, 13, 5, 12>>]>>

Variations == Types \o Data \o Names \o Tables

Memories ==
  [n \in DOMAIN Variations |-> Memory(<<Base, Variations[n]>>, Noise)]
  \o [n \in DOMAIN Places |-> Memory(<<Base, Places[n]>>, <<>>)]
  \o <<Memory(<<Base, CutSections>>, <<>>), Memory(<<Base, CutName>>, <<>>),
       Memory(<<>>, Noise), Memory(<<Bare(0), Bare(100), Bare(600)>>, <<>>),
       Memory(<<Bare(0), Bare(100), Bare(200), Bare(600)>>, <<>>),
       Memory(<<Base, Bare(400), Bare(500), [Bare(600) EXCEPT !.type = 100, !.legal = FALSE]>>,
              <<>>)>>

(* TLC evaluates a definition once, but what a constant stands for anew.   *)
MCRams == Memories
=============================================================================
