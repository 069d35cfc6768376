---------------------------- MODULE RamDataport ----------------------------
(***************************************************************************)
(* How the guest's memory and the dataport memdev come to be the same      *)
(* frames: the VMM maps each page of the registered region where           *)
(* dataport_memory_iterator says, in whatever order the pages are asked    *)
(* for.  Frame n of memdev holds its bytes from n * PageSize on, which is  *)
(* where IntrospectManager's memcpy looks for them.                        *)
(***************************************************************************)
EXTENDS Integers

CONSTANTS
  PageSize,       (* BIT(seL4_PageBits)                                    *)
  linux_ram_base,
  linux_ram_size, (* the size of memdev too (qemu-arm-virt/devices.camkes) *)
  NoFrame         (* seL4_CapNull                                          *)

ASSUME RamAssumption ==
  /\ PageSize \in Nat \ {0}
  /\ linux_ram_base \in Nat /\ linux_ram_base % PageSize = 0
  /\ linux_ram_size \in Nat /\ linux_ram_size % PageSize = 0
  /\ NoFrame \notin Nat

VARIABLE mapped   (* the frame at each page of the guest, by its address   *)

(* (slip: the address where it ends is taken for a part of it)             *)
RegionInclusive == linux_ram_base .. linux_ram_base + linux_ram_size

Region == linux_ram_base .. linux_ram_base + linux_ram_size - 1

RoundDown(addr) == addr - (addr % PageSize)

Pages  == {RoundDown(addr) : addr \in Region}
Frames == 0 .. (linux_ram_size \div PageSize) - 1
-----------------------------------------------------------------------------
(* (slip: the pages are counted from address 0, modulo their number)       *)
FrameAbsolute(frame_start) ==
  IF frame_start < linux_ram_base \/ frame_start > linux_ram_base + linux_ram_size
  THEN NoFrame
  ELSE (frame_start \div PageSize) % (linux_ram_size \div PageSize)

(* The frame the iterator finds: past the check of the bounds, page_idx.   *)
Frame(frame_start) ==
  IF frame_start < linux_ram_base \/ frame_start > linux_ram_base + linux_ram_size
  THEN NoFrame
  ELSE (frame_start - linux_ram_base) \div PageSize

RamInit == mapped = [page \in {} |-> NoFrame]

(* The library maps the page of an address of the region.                  *)
dataport_memory_iterator(addr) ==
  /\ RoundDown(addr) \notin DOMAIN mapped
  /\ mapped' = [page \in DOMAIN mapped \cup {RoundDown(addr)} |->
                  IF page = RoundDown(addr) THEN Frame(page) ELSE mapped[page]]

(* Every page of the region gets a frame of memdev.                        *)
RamTypeOK ==
  /\ DOMAIN mapped \subseteq Pages
  /\ \A page \in DOMAIN mapped : mapped[page] \in Frames
=============================================================================
