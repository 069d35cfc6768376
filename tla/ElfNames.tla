------------------------------ MODULE ElfNames ------------------------------
(***************************************************************************)
(* How printAllSectionHeaders finds the names of an image's sections: the  *)
(* offset of the string table is read from its header by readAddr, which   *)
(* passes over a byte, and is added to the image's place and the section's *)
(* name field in 64 bits; an int is made of the sum and compared with the  *)
(* bounds of the image and the memory.  This is where the field "named" of *)
(* what Header of IntrospectManager gives comes from.                      *)
(***************************************************************************)
EXTENDS Integers, Sequences

CONSTANTS
  ByteRange,      (* values of a byte: 256                                 *)
  MemSize         (* LINUX_MEMORY_SIZE                                     *)

Word   == ByteRange * ByteRange * ByteRange * ByteRange   (* 2^32 *)
Double == Word * Word                                     (* 2^64 *)

(* An index of Linux_Mem is an int.                                        *)
ASSUME NamesAssumption ==
  /\ ByteRange \in Nat \ {0, 1}
  /\ MemSize \in Nat /\ MemSize <= Word \div 2

(* bytes: the 9 bytes from the offset field of the string table's header   *)
(* on (8 of offset, the first of size); names: the sections' name fields.  *)
ImageType == [bytes : [0 .. 8 -> 0 .. ByteRange - 1],
              startIndex : 0 .. MemSize - 1,
              names : Seq(0 .. Word - 1)]

VARIABLES
  image,          (* the image at hand                                     *)
  i,              (* sections done                                         *)
  found,          (* where their names were taken from, 0 for "(NULL)"     *)
  outcome         (* "printing", "good" or "busted"                        *)

namesVars == <<image, i, found, outcome>>
-----------------------------------------------------------------------------
(* Four bytes, the least significant first.                                *)
LittleEndian(a, b, c, d) ==
  a + ByteRange * b + (ByteRange * ByteRange) * c + (ByteRange * ByteRange * ByteRange) * d

readWord(m, s) == LittleEndian(m[s], m[s+1], m[s+2], m[s+3])

(* Byte s+2 is not read, and byte s+8 is.                                  *)
(* (slip: byte s+1 is passed over instead)                                 *)
readAddrEarly(m, s) ==
  LittleEndian(m[s], m[s+2], m[s+3], m[s+4])
    + Word * LittleEndian(m[s+5], m[s+6], m[s+7], m[s+8])

readAddr(m, s) ==
  LittleEndian(m[s], m[s+1], m[s+3], m[s+4])
    + Word * LittleEndian(m[s+5], m[s+6], m[s+7], m[s+8])

(* What a 64-bit little-endian field holds.                                *)
Field(m, s) == readWord(m, s) + Word * readWord(m, s + 4)

(* A uint64_t made an int.                                                 *)
AsInt(x) == IF x % Word < Word \div 2 THEN x % Word ELSE (x % Word) - Word

(* (slip: from the start of the memory)                                    *)
NameOffsetAbsolute(name) == AsInt((readAddr(image.bytes, 0) + name) % Double)

NameOffset(name) == AsInt((image.startIndex + readAddr(image.bytes, 0) + name) % Double)

InImage(offset) == image.startIndex < offset /\ offset < MemSize
-----------------------------------------------------------------------------
(* printSectionHeader of the next section.                                 *)
PrintSectionHeader ==
  /\ outcome = "printing"
  /\ i < Len(image.names)
  /\ LET name == image.names[i + 1]
     IN \/ /\ InImage(NameOffset(name))
           /\ found' = Append(found, IF name = 0 THEN 0 ELSE NameOffset(name))
           /\ i' = i + 1
           /\ UNCHANGED outcome
        \/ /\ ~InImage(NameOffset(name))
           /\ outcome' = "busted"
           /\ UNCHANGED <<i, found>>
  /\ UNCHANGED image

(* The loop ends.                                                          *)
AllPrinted ==
  /\ outcome = "printing"
  /\ i = Len(image.names)
  /\ outcome' = "good"
  /\ UNCHANGED <<image, i, found>>
-----------------------------------------------------------------------------
(* What the names of the image at hand are looked up in has its types.     *)
NamesTypeOK ==
  /\ image \in ImageType
  /\ i \in 0 .. Len(image.names)
  /\ found \in Seq(0 .. MemSize - 1)
  /\ outcome \in {"printing", "good", "busted"}

(* The byte readAddr misses and those that take its place agree: so they   *)
(* do whenever the offset is below 2^16 (and the bytes of the upper half   *)
(* of the field, and the one beyond it, are of no account).                *)
Aligned == image.bytes[2] = image.bytes[3] /\ image.bytes[3] = image.bytes[4]

Place(name) == AsInt(image.startIndex + Field(image.bytes, 0) + name)

(* The names printed are the names of the sections, in spite of readAddr   *)
(* and of the conversion to int, for an image whose string table has an    *)
(* offset below 2^16.                                                      *)
NamesInPlace ==
  Aligned =>
    \A k \in 1 .. Len(found) :
      image.names[k] # 0 => found[k] = Place(image.names[k])

(* Such an image is called busted only if a name does lie outside of it.   *)
BustedForCause ==
  Aligned /\ outcome = "busted" => ~InImage(Place(image.names[i + 1]))
=============================================================================
