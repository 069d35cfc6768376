---------------------------- MODULE SamplingPort ----------------------------
(***************************************************************************)
(* The sampling port of components/Router/sampling_ports: one writer and   *)
(* any number of readers share a page that holds one message and a         *)
(* sequence number, and synchronise by that number alone (a sequence       *)
(* lock).  Every access to the shared page is a step of its own, in the    *)
(* order the fences of sp_int8_t.c impose; the accesses of the writer and  *)
(* of the readers interleave freely.                                       *)
(*                                                                         *)
(* The two components start independently, so a reader may run before the  *)
(* writer has called init_sp_int8_t: the page then still holds the zeros   *)
(* it was created with.                                                    *)
(***************************************************************************)
EXTENDS Integers

CONSTANTS
  Readers,        (* the components that read the port                     *)
  Data,           (* the values of int8_t that messages carry              *)
  ZeroData,       (* the all-zero value of int8_t                          *)
  DIRTY_SEQ_NUM,  (* SEQNUM_MAX in the code                                *)
  MaxMessages     (* bound: how many messages the writer publishes         *)

ASSUME PortAssumption ==
  /\ ZeroData \in Data
  /\ DIRTY_SEQ_NUM \in Nat \ {0}
  /\ MaxMessages \in Nat

VARIABLES
  port,           (* the shared page: sp_int8_t_t                          *)
  wpc,            (* where the writer is                                   *)
  argument,       (* *data of the write in progress                        *)
  seqNum,         (* the writer's *seqNum                                  *)
  rpc,            (* rpc[r]: where reader r is                             *)
  newSeqNum,      (* newSeqNum[r]: r's local of that name                  *)
  data,           (* data[r]: r's *data                                    *)
  result,         (* result[r]: what r's last read returned                *)
  (* History variables, read by no guard of the code.                      *)
  count,          (* messages published so far                             *)
  latest,         (* the data of the last message published                *)
  begun,          (* begun[r]: value of count when r's last read began     *)
  overlap,        (* overlap[r]: has a write run during r's read           *)
  lastGood        (* lastGood[r]: number of messages published when r's    *)
                  (* last successful read returned, and what it returned   *)

writerVars  == <<wpc, argument, seqNum, count, latest>>
readerVars  == <<rpc, newSeqNum, data, result, begun, lastGood>>
vars        == <<port, writerVars, readerVars, overlap>>

SeqNums == 0 .. DIRTY_SEQ_NUM

Writing == wpc \in {"write", "publish"}

(* All sequence numbers went by during r's read: the case the header of    *)
(* the port (sp_int8_t.h) excludes from its promise.                       *)
Lapped(r) == count - begun[r] >= DIRTY_SEQ_NUM

-----------------------------------------------------------------------------
Init ==
  /\ port      = [data |-> ZeroData, seqNum |-> 0]
  /\ wpc       = "init"
  /\ argument  = ZeroData
  /\ seqNum    = 0
  /\ rpc       = [r \in Readers |-> "idle"]
  /\ newSeqNum = [r \in Readers |-> DIRTY_SEQ_NUM]
  /\ data      = [r \in Readers |-> ZeroData]
  /\ result    = [r \in Readers |-> [ok |-> FALSE, seq |-> DIRTY_SEQ_NUM, data |-> ZeroData]]
  /\ count     = 0
  /\ latest    = ZeroData
  /\ begun     = [r \in Readers |-> 0]
  /\ overlap   = [r \in Readers |-> FALSE]
  /\ lastGood  = [r \in Readers |-> [num |-> 0, seq |-> 0]]

(* init_sp_int8_t *)
InitPort ==
  /\ wpc = "init"
  /\ seqNum' = 0
  /\ port' = [port EXCEPT !.seqNum = DIRTY_SEQ_NUM]
  /\ wpc' = "idle"
  /\ UNCHANGED <<argument, count, latest, readerVars, overlap>>

(* write_sp_int8_t: mark the message dirty before writing ...              *)
(* (slip: the number of the previous message stays in place meanwhile)     *)
DirtyForgotten == UNCHANGED port
Dirty == port' = [port EXCEPT !.seqNum = DIRTY_SEQ_NUM]

MarkDirty ==
  /\ wpc = "idle"
  /\ count < MaxMessages
  /\ argument' \in Data
  /\ Dirty
  /\ wpc' = "write"
  /\ overlap' = [r \in Readers |-> TRUE]
  /\ UNCHANGED <<seqNum, count, latest, readerVars>>

(* ... write the data ...                                                  *)
WriteData ==
  /\ wpc = "write"
  /\ port' = [port EXCEPT !.data = argument]
  /\ wpc' = "publish"
  /\ UNCHANGED <<argument, seqNum, count, latest, readerVars, overlap>>

(* ... and publish it under the next sequence number.                      *)
(* (slips: no wrap; a wrap that lets DIRTY_SEQ_NUM through; one too early) *)
NextSeqNumUnwrapped(s) == s + 1
NextSeqNumInclusive(s) == (s + 1) % (DIRTY_SEQ_NUM + 1)
NextSeqNumShort(s)     == (s + 1) % (DIRTY_SEQ_NUM - 1)

NextSeqNum(s) == (s + 1) % DIRTY_SEQ_NUM

PublishMessage ==
  /\ wpc = "publish"
  /\ seqNum' = NextSeqNum(seqNum)
  /\ port' = [port EXCEPT !.seqNum = seqNum']
  /\ wpc' = "idle"
  /\ count' = count + 1
  /\ latest' = argument
  /\ UNCHANGED <<argument, readerVars, overlap>>

(* read_sp_int8_t: take the sequence number ...                            *)
LoadSeqNum(r) ==
  /\ rpc[r] = "idle"
  /\ newSeqNum' = [newSeqNum EXCEPT ![r] = port.seqNum]
  /\ rpc' = [rpc EXCEPT ![r] = "load"]
  /\ begun' = [begun EXCEPT ![r] = count]
  /\ overlap' = [overlap EXCEPT ![r] = Writing]
  /\ UNCHANGED <<port, writerVars, data, result, lastGood>>

(* ... then the data ...                                                   *)
LoadData(r) ==
  /\ rpc[r] = "load"
  /\ data' = [data EXCEPT ![r] = port.data]
  /\ rpc' = [rpc EXCEPT ![r] = "check"]
  /\ UNCHANGED <<port, writerVars, newSeqNum, result, begun, overlap, lastGood>>

(* ... and the sequence number again, to see whether a write got between.  *)
(* (slip: the second look left out)                                        *)
UnmovedUnchecked(r) == newSeqNum[r] # DIRTY_SEQ_NUM

Unmoved(r) == newSeqNum[r] # DIRTY_SEQ_NUM /\ newSeqNum[r] = port.seqNum

Recheck(r) ==
  /\ rpc[r] = "check"
  /\ rpc' = [rpc EXCEPT ![r] = "idle"]
  /\ \/ /\ Unmoved(r)
        /\ result' = [result EXCEPT ![r] =
                        [ok |-> TRUE, seq |-> newSeqNum[r], data |-> data[r]]]
        /\ lastGood' = [lastGood EXCEPT ![r] = [num |-> count, seq |-> newSeqNum[r]]]
     \/ /\ ~Unmoved(r)
        /\ result' = [result EXCEPT ![r] =
                        [ok |-> FALSE, seq |-> DIRTY_SEQ_NUM, data |-> data[r]]]
        /\ UNCHANGED lastGood
  /\ UNCHANGED <<port, writerVars, newSeqNum, data, begun, overlap>>

Writer == InitPort \/ MarkDirty \/ WriteData \/ PublishMessage
Reader(r) == LoadSeqNum(r) \/ LoadData(r) \/ Recheck(r)

Next == Writer \/ \E r \in Readers : Reader(r)

Spec == Init /\ [][Next]_vars
-----------------------------------------------------------------------------
TypeOK ==
  /\ port \in [data : Data, seqNum : SeqNums]
  /\ wpc \in {"init", "idle", "write", "publish"}
  /\ argument \in Data
  /\ seqNum \in 0 .. DIRTY_SEQ_NUM - 1
  /\ rpc \in [Readers -> {"idle", "load", "check"}]
  /\ newSeqNum \in [Readers -> SeqNums]
  /\ data \in [Readers -> Data]
  /\ result \in [Readers -> [ok : BOOLEAN, seq : SeqNums, data : Data]]
  /\ count \in 0 .. MaxMessages
  /\ latest \in Data
  /\ begun \in [Readers -> Nat]
  /\ overlap \in [Readers -> BOOLEAN]
  /\ lastGood \in [Readers -> [num : Nat, seq : SeqNums]]

(* A read that is about to succeed holds, number and data, the message     *)
(* that is current, unless the reader was lapped: no interleaving with the *)
(* writer makes read_sp_int8_t return parts of two messages.               *)
NoTornRead ==
  \A r \in Readers :
    rpc[r] = "check" /\ Unmoved(r) =>
      /\ newSeqNum[r] = count % DIRTY_SEQ_NUM
      /\ ~Lapped(r) => data[r] = latest

(* A read fails only because a write ran during it ("the only way to fail  *)
(* is when we detect the possibility of a write during read") or because   *)
(* nothing has been published since the port was initialised.              *)
NoSpuriousFailure ==
  \A r \in Readers :
    rpc[r] = "check" /\ ~Unmoved(r) => overlap[r] \/ begun[r] = 0

(* Two successive successful reads carry sequence numbers whose distance   *)
(* is the number of messages published in between, so that rereads         *)
(* (distance 0) and drops (distance above 1) show, as the comment on       *)
(* read_sp_int8_t says; modulo a full round of the numbers.                *)
DropsShow ==
  [][ \A r \in Readers :
        LET old == lastGood[r]
            new == lastGood'[r]
        IN new.num - old.num < DIRTY_SEQ_NUM =>
             (new.seq - old.seq) % DIRTY_SEQ_NUM = new.num - old.num ]_vars

(* The port implements whole-message publication (PublishedPort): a write  *)
(* takes effect at its last store, a read at its second look at the        *)
(* sequence number.                                                        *)
Published == INSTANCE PublishedPort WITH reading <- [r \in Readers |-> rpc[r] # "idle"]

ImplementsPublishedPort == Published!AbstractSpec

(* What the comments on read_sp_int8_t and init_sp_int8_t say taken at     *)
(* face value: a successful read returns a message, and the first message  *)
(* has number 1.  Before init_sp_int8_t has run, the zeroed page passes    *)
(* for a message numbered 0.                                               *)
SuccessMeansMessage ==
  \A r \in Readers : result[r].ok => count > 0
-----------------------------------------------------------------------------
(* The inductive invariant behind the properties above.                    *)

(* The page shows a number only while it also holds the data published     *)
(* under it.                                                               *)
PageInv ==
  /\ seqNum = count % DIRTY_SEQ_NUM
  /\ port.seqNum # DIRTY_SEQ_NUM =>
       port.seqNum = count % DIRTY_SEQ_NUM /\ port.data = latest
  /\ wpc = "init" => count = 0
  /\ wpc = "idle" /\ count > 0 => port.seqNum # DIRTY_SEQ_NUM
  /\ Writing => port.seqNum = DIRTY_SEQ_NUM /\ count < MaxMessages
  /\ wpc = "publish" => port.data = argument

(* What a reader holds was current when its read began, and has stayed so  *)
(* if no write has run since.                                              *)
ReaderInv(r) ==
  /\ begun[r] <= count
  /\ lastGood[r].num <= count
  /\ lastGood[r].seq = lastGood[r].num % DIRTY_SEQ_NUM
  /\ rpc[r] # "idle" /\ newSeqNum[r] # DIRTY_SEQ_NUM =>
       newSeqNum[r] = begun[r] % DIRTY_SEQ_NUM
  /\ rpc[r] # "idle" /\ ~overlap[r] /\ begun[r] > 0 =>
       newSeqNum[r] # DIRTY_SEQ_NUM /\ newSeqNum[r] = port.seqNum
  /\ /\ rpc[r] = "check"
     /\ newSeqNum[r] # DIRTY_SEQ_NUM
     /\ count = begun[r]
     /\ port.seqNum # DIRTY_SEQ_NUM
     => data[r] = latest

IInv == TypeOK /\ PageInv /\ \A r \in Readers : ReaderInv(r)
=============================================================================
