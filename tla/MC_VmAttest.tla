---------------------------- MODULE MC_VmAttest ----------------------------
(***************************************************************************)
(* Instances of VmAttest for TLC: a guest memory of a few bytes, a header  *)
(* of two of them (the identity 7 and a number of entries), header tables  *)
(* of at most one entry, a uint8_t of three values.                        *)
(***************************************************************************)
EXTENDS VmAttest

MCMagic(mem, j) == mem[j] = 7

(* 0 entries stand for a type that is refused, 2 are beyond the list and 7 *)
(* are cut off to 1.  The last byte of the memory stands for all a header  *)
(* points to.                                                              *)
MCHeader(mem, j) ==
  LET count == IF j = Copied THEN 0 ELSE mem[j + 1]
      far   == mem[Copied]
  IN [accepted  |-> count # 0,
      shnum     |-> count,
      phnum     |-> count,
      shstrndx  |-> IF far = 1 /\ count = 1 THEN 1 ELSE 0,
      named     |-> IF far = 2 THEN 0 ELSE count,
      inside    |-> far # 7,
      contained |-> far # 1]
=============================================================================
