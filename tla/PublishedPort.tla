--------------------------- MODULE PublishedPort ---------------------------
(***************************************************************************)
(* What a sampling port promises, with no sequence lock in sight: the      *)
(* writer publishes whole messages, one after the other, and a read hands  *)
(* out the message that is current when the read returns, together with a  *)
(* number from which rereads and drops can be told, or reports a failure.  *)
(*                                                                         *)
(* The one exception is the one the header of the port documents: a reader *)
(* held up while the writer goes through all the sequence numbers (a       *)
(* "lapped" reader) may be handed data of some other message.              *)
(***************************************************************************)
EXTENDS Integers

CONSTANTS
  Readers,        (* the components that read the port                     *)
  Data,           (* the values a message may carry                        *)
  ZeroData,       (* what a fresh page of shared memory holds              *)
  DIRTY_SEQ_NUM,  (* sequence numbers are 0 .. DIRTY_SEQ_NUM - 1           *)
  MaxMessages     (* bound: how many messages the writer publishes         *)

VARIABLES
  count,          (* messages published so far                             *)
  latest,         (* the data of the last of them                          *)
  reading,        (* reading[r]: is a read by r in progress                *)
  begun,          (* begun[r]: value of count when r's last read began     *)
  result          (* result[r]: what r's last read returned                *)

abstractVars == <<count, latest, reading, begun, result>>

AbstractInit ==
  /\ count   = 0
  /\ latest  = ZeroData
  /\ reading = [r \in Readers |-> FALSE]
  /\ begun   = [r \in Readers |-> 0]
  /\ result  = [r \in Readers |-> [ok |-> FALSE, seq |-> DIRTY_SEQ_NUM, data |-> ZeroData]]

Publish ==
  /\ count < MaxMessages
  /\ count' = count + 1
  /\ latest' \in Data
  /\ UNCHANGED <<reading, begun, result>>

BeginRead(r) ==
  /\ ~reading[r]
  /\ reading' = [reading EXCEPT ![r] = TRUE]
  /\ begun'   = [begun EXCEPT ![r] = count]
  /\ UNCHANGED <<count, latest, result>>

Fail(r) ==
  \E d \in Data :
    result' = [result EXCEPT ![r] = [ok |-> FALSE, seq |-> DIRTY_SEQ_NUM, data |-> d]]

Deliver(r) ==
  \E d \in Data :
    /\ count - begun[r] < DIRTY_SEQ_NUM => d = latest
    /\ result' = [result EXCEPT ![r] =
                    [ok |-> TRUE, seq |-> count % DIRTY_SEQ_NUM, data |-> d]]

EndRead(r) ==
  /\ reading[r]
  /\ reading' = [reading EXCEPT ![r] = FALSE]
  /\ Fail(r) \/ Deliver(r)
  /\ UNCHANGED <<count, latest, begun>>

AbstractNext == Publish \/ \E r \in Readers : BeginRead(r) \/ EndRead(r)

AbstractSpec == AbstractInit /\ [][AbstractNext]_abstractVars
=============================================================================
