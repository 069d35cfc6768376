-------------------------- MODULE MC_SamplingPort --------------------------
(***************************************************************************)
(* Instances of SamplingPort for TLC.  The sequence numbers are 0 .. 1     *)
(* instead of 0 .. 2^64 - 2, so that they wrap several times.              *)
(***************************************************************************)
EXTENDS SamplingPort

CONSTANTS r1, r2

MCReaders == {r1, r2}
MCReader  == {r1}
MCData    == {0, 1}
=============================================================================
