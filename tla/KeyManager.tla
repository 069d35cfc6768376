----------------------------- MODULE KeyManager -----------------------------
(***************************************************************************)
(* components/KeyManager: msg_wait_callback serves two virtqueues to a     *)
(* client.  In flagger_recv the client is the driver: it makes buffers     *)
(* available, one chain of them per request, and the key manager gives     *)
(* them back used.  In flagger_send the key manager is the driver: it      *)
(* sends one key for each buffer of a request, in a buffer of a pool, and  *)
(* frees that buffer when the client has given it back.                    *)
(*                                                                         *)
(* The virtqueue library and the client are not in the repository.  The    *)
(* library is taken to do what the calls say; its notifications are flags, *)
(* so that two of them before one callback are one.  The rings and the     *)
(* descriptors are in memory both sides share.  The driver's own accounts, *)
(* of free descriptors and of free buffers, may be there or in the         *)
(* structure virtqueue_driver_t: issue_key and send_outgoing_packet get    *)
(* the structure by value, and what they change in it is lost.  A patient  *)
(* client has one request at a time, of one buffer, and takes the key      *)
(* before the next.                                                        *)
(***************************************************************************)
EXTENDS Integers, Sequences, FiniteSets

CONSTANTS
  MaxChain,       (* the longest chain of buffers of a request             *)
  RecvLen,        (* entries of the used ring of flagger_recv              *)
  QueueLen,       (* descriptors, and entries of a ring, of flagger_send   *)
  PoolSize,       (* buffers flagger_send can allocate                     *)
  MaxRequests,    (* bound: requests the client makes                      *)
  MaxHasty        (* bound: requests a client makes that is not patient    *)

ASSUME KeyAssumption ==
  /\ {MaxChain, QueueLen, PoolSize, MaxRequests, MaxHasty} \subseteq Nat
  /\ RecvLen \in Nat \ {0}

Buffers     == 1 .. PoolSize
Descriptors == 1 .. QueueLen

VARIABLES
  pending,        (* the flag of the notification that runs the callback   *)
  requests,       (* flagger_recv, available: the lengths of the chains    *)
  answered,       (* flagger_recv, used: requests given back               *)
  keysAvail,      (* flagger_send, available: descriptors of keys sent     *)
  keysUsed,       (* flagger_send, used: descriptors given back            *)
  table,          (* flagger_send: the buffer of each descriptor, or 0     *)
  free,           (* its driver's account of free descriptors              *)
  pool,           (* ... and of free buffers                               *)
  shared,         (* which of the two accounts the structure has no copy of *)
  kpc,            (* where msg_wait_callback is                            *)
  buf,            (* buf of send_outgoing_packet                           *)
  chain,          (* buffers of the request in hand yet to be gathered     *)
  patient,        (* is the client patient                                 *)
  (* History.                                                              *)
  asked,          (* requests made                                         *)
  completed,      (* requests given back                                   *)
  withheld,       (* keys issue_key failed to send                         *)
  overlaps,       (* keys sent while an earlier one had yet to be freed    *)
  merges          (* notifications that found the flag raised              *)

clientVars  == <<asked, merges>>
recvVars    == <<requests, answered, completed>>
sendVars    == <<keysAvail, keysUsed, table, free, pool, withheld, overlaps>>
managerVars == <<kpc, buf, chain>>
choices     == <<patient, shared>>
vars == <<choices, pending, clientVars, recvVars, sendVars, managerVars>>

One(p) == IF p THEN 1 ELSE 0

(* run() has initialised both queues.                                      *)
Init ==
  /\ pending   = FALSE
  /\ requests  = <<>>
  /\ answered  = 0
  /\ keysAvail = <<>>
  /\ keysUsed  = <<>>
  /\ table     = [d \in Descriptors |-> 0]
  /\ free      = Descriptors
  /\ pool      = Buffers
  /\ shared    \in SUBSET {"free", "pool"}
  /\ kpc       = "idle"
  /\ buf       = 0
  /\ chain     = 0
  /\ patient   \in BOOLEAN
  /\ asked     = 0
  /\ completed = 0
  /\ withheld  = 0
  /\ overlaps  = 0
  /\ merges    = 0
-----------------------------------------------------------------------------
Notify == pending' = TRUE /\ merges' = merges + One(pending)

(* The client makes a request and notifies ...                             *)
Ask ==
  /\ asked < MaxRequests /\ (patient \/ asked < MaxHasty)
  /\ patient => asked = completed /\ answered = 0 /\ keysAvail = <<>>
  /\ \E n \in 1 .. MaxChain : (patient => n = 1) /\ requests' = Append(requests, n)
  /\ asked' = asked + 1
  /\ Notify
  /\ UNCHANGED <<answered, completed, sendVars, managerVars>>

(* ... takes its buffers back ...                                          *)
Collect ==
  /\ answered > 0
  /\ answered' = answered - 1
  /\ UNCHANGED <<pending, requests, completed, clientVars, sendVars, managerVars>>

(* ... takes a key, gives its buffer back, and notifies.                   *)
TakeKey ==
  /\ keysAvail # <<>>
  /\ Len(keysUsed) < QueueLen
  /\ keysAvail' = Tail(keysAvail)
  /\ keysUsed' = Append(keysUsed, Head(keysAvail))
  /\ Notify
  /\ UNCHANGED <<asked, table, free, pool, withheld, overlaps, recvVars, managerVars>>
-----------------------------------------------------------------------------
(* msg_wait_callback is called ...                                         *)
WaitCallback ==
  /\ kpc = "idle"
  /\ pending
  /\ pending' = FALSE
  /\ kpc' = "recv"
  /\ UNCHANGED <<buf, chain, clientVars, recvVars, sendVars>>

(* ... polls flagger_recv for one request ...                              *)
(* (slips: only if flagger_send has nothing to free; the notification is   *)
(* cleared here once more)                                                 *)
RecvReadyElse == requests # <<>> /\ keysUsed = <<>>
RecvReady == requests # <<>>

TakeRequest ==
  /\ kpc = "recv"
  /\ IF RecvReady
     THEN /\ chain' = Head(requests)
          /\ requests' = Tail(requests)
          /\ kpc' = "gather"
     ELSE /\ kpc' = "send"
          /\ UNCHANGED <<chain, requests>>
  /\ UNCHANGED <<buf, answered, completed, clientVars, sendVars>>

PollRecvClears == TakeRequest /\ pending' = FALSE
PollRecv == TakeRequest /\ UNCHANGED pending

(* What an account of the driver is after a call on destination has made   *)
(* it new: the call worked on a copy of what is in the structure.          *)
ThroughCopy(account, old, new) == IF account \in shared THEN new ELSE old

(* ... for each buffer of it, issue_key allocates a buffer, or gives up    *)
(* without a word ...                                                      *)
AllocKey ==
  /\ kpc = "gather"
  /\ chain > 0
  /\ chain' = chain - 1
  /\ IF pool # {}
     THEN /\ \E b \in pool : buf' = b /\ pool' = ThroughCopy("pool", pool, pool \ {b})
          /\ kpc' = "push"
          /\ UNCHANGED withheld
     ELSE withheld' = withheld + 1 /\ UNCHANGED <<pool, kpc, buf>>
  /\ UNCHANGED <<pending, keysAvail, keysUsed, table, free, overlaps, clientVars, recvVars>>

(* A buffer that is freed twice is free once.                              *)
(* (slip: it is not freed)                                                 *)
BufferFreeLeak(b) == pool
BufferFree(b) == pool \cup {b}

(* ... and sends it in a descriptor that by the driver's account is free,  *)
(* or frees it again ...                                                   *)
SendKey ==
  /\ kpc = "push"
  /\ kpc' = "gather"
  /\ buf' = 0
  /\ IF free # {} /\ Len(keysAvail) < QueueLen
     THEN /\ \E d \in free :
               /\ table' = [table EXCEPT ![d] = buf]
               /\ keysAvail' = Append(keysAvail, d)
               /\ free' = ThroughCopy("free", free, free \ {d})
          /\ overlaps' = overlaps + One(keysAvail # <<>> \/ keysUsed # <<>>)
          /\ UNCHANGED <<pool, withheld>>
     ELSE /\ pool' = ThroughCopy("pool", pool, BufferFree(buf))
          /\ withheld' = withheld + 1
          /\ UNCHANGED <<table, keysAvail, free, overlaps>>
  /\ UNCHANGED <<pending, keysUsed, chain, clientVars, recvVars>>

(* ... gives the request back, unless the used ring is full (then it is    *)
(* neither given back nor kept), and polls flagger_send ...                *)
(* (slip: a full ring is taken to have room for one more)                  *)
UsedRingRoomInclusive == answered <= RecvLen
UsedRingRoom == answered < RecvLen

AddUsed ==
  /\ kpc = "gather"
  /\ chain = 0
  /\ IF UsedRingRoom
     THEN answered' = answered + 1 /\ completed' = completed + 1
     ELSE UNCHANGED <<answered, completed>>
  /\ kpc' = "send"
  /\ UNCHANGED <<pending, requests, buf, chain, clientVars, sendVars>>

(* ... for one buffer to free (here the driver itself is passed).          *)
SendReady == keysUsed # <<>>

PollSend ==
  /\ kpc = "send"
  /\ kpc' = "idle"
  /\ IF SendReady
     THEN /\ keysUsed' = Tail(keysUsed)
          /\ free' = free \cup {Head(keysUsed)}
          /\ pool' = BufferFree(table[Head(keysUsed)])
     ELSE UNCHANGED <<keysUsed, free, pool>>
  /\ UNCHANGED <<pending, keysAvail, table, withheld, overlaps, buf, chain,
                 clientVars, recvVars>>

(* The client stays patient or impatient, the library as it is.            *)
Client  == (Ask \/ Collect \/ TakeKey) /\ UNCHANGED choices
Manager == /\ WaitCallback \/ PollRecv \/ AllocKey \/ SendKey \/ AddUsed \/ PollSend
           /\ UNCHANGED choices

Next == Client \/ Manager

Spec == Init /\ [][Next]_vars

(* The thread of the callback is scheduled; the client owes nothing.       *)
FairSpec == Spec /\ WF_vars(Manager)
-----------------------------------------------------------------------------
TypeOK ==
  /\ patient \in BOOLEAN
  /\ pending \in BOOLEAN
  /\ shared \subseteq {"free", "pool"}
  /\ requests \in Seq(1 .. MaxChain)
  /\ keysAvail \in Seq(Descriptors)
  /\ keysUsed \in Seq(Descriptors)
  /\ table \in [Descriptors -> 0 .. PoolSize]
  /\ free \subseteq Descriptors
  /\ pool \subseteq Buffers
  /\ kpc \in {"idle", "recv", "gather", "push", "send"}
  /\ buf \in 0 .. PoolSize
  /\ chain \in 0 .. MaxChain
  /\ answered \in 0 .. RecvLen
  /\ {completed, withheld, overlaps, merges} \subseteq Nat
  /\ asked \in 0 .. MaxRequests

(* The descriptors in the rings, the buffers the client may use, and the   *)
(* one in hand.                                                            *)
Entries(ring) == {ring[i] : i \in DOMAIN ring}
Outstanding   == Entries(keysAvail) \cup Entries(keysUsed)
Sent          == {table[d] : d \in Outstanding}
InHand        == IF kpc = "push" THEN {buf} ELSE {}

(* Buffers that nobody can free any more.                                  *)
Stranded == Buffers \ (pool \cup InHand \cup Sent)

(* Whatever the structure loses with its copies, and whichever call fails: *)
(* a buffer can be lost only by a key sent before an earlier one was freed *)
(* (it may be sent in the same descriptor), one by each; and until there   *)
(* has been such a key no buffer is free that the client may be reading,   *)
(* if the account of buffers is not in the structure.                      *)
BuffersAccounted ==
  /\ Cardinality(Stranded) <= overlaps
  /\ "pool" \in shared /\ overlaps = 0 => pool \cap (InHand \cup Sent) = {}

(* A request is left behind, with the callback gone, only if a             *)
(* notification was merged into another: one request per call is enough as *)
(* long as there is one call per notification.                             *)
LeftBehindByMerge ==
  kpc = "idle" /\ ~pending => Len(requests) <= merges

(* A patient client fails to get its key, without a word, only after all   *)
(* buffers but one may have been lost: although a call frees one buffer    *)
(* only, and the return of a key and the next request may be merged.       *)
Served == patient /\ QueueLen >= 2

PatientServed == Served /\ withheld > 0 => overlaps >= PoolSize - 1

(* Every request of a patient client is given back ...                     *)
PatientCompleted ==
  \A n \in 1 .. MaxRequests : (patient /\ asked >= n) ~> (completed >= n)

(* ... but not every request: two that share a call leave one behind       *)
(* ("received from vm via flagger, respond with a key").                   *)
RequestCompleted ==
  \A n \in 1 .. MaxRequests : (asked >= n) ~> (completed >= n)
-----------------------------------------------------------------------------
(* The inductive invariant behind the safety properties.                   *)

(* Requests the callback in progress or to come will not reach.            *)
MergeInv == Len(requests) <= merges + One(pending) + One(kpc = "recv")

(* A descriptor in no ring is free to the driver, one in a ring has a      *)
(* buffer, an account in the structure loses nothing, and until keys       *)
(* overlap one key at most is on its way, in a buffer of its own.          *)
SendInv ==
  /\ Descriptors \ Outstanding \subseteq free
  /\ Sent \cup InHand \subseteq Buffers
  /\ "pool" \notin shared => pool = Buffers
  /\ overlaps = 0 => Len(keysAvail) + Len(keysUsed) <= 1
  /\ "pool" \in shared /\ overlaps = 0 => InHand \cap Sent = {}

(* The request of a patient client is in one place, and its keys are few:  *)
(* one that the callback is about to free besides the one it is issuing.   *)
PatientInv ==
  /\ asked = completed + Len(requests) + One(kpc \in {"gather", "push"})
  /\ asked <= completed + 1
  /\ requests # <<>> => keysAvail = <<>> /\ answered = 0
  /\ requests \in Seq({1})
  /\ Len(keysAvail) + One(kpc = "push") + chain <= 1
  /\ Len(keysAvail) + Len(keysUsed) + One(kpc = "push") + chain
       <= IF kpc \in {"gather", "push", "send"} THEN 2 ELSE 1
  /\ kpc \in {"gather", "push"} => answered = 0
  /\ withheld > 0 => overlaps >= PoolSize - 1

IInv ==
  /\ TypeOK
  /\ SendInv
  /\ BuffersAccounted
  /\ MergeInv
  /\ kpc \notin {"gather", "push"} => chain = 0
  /\ Served => PatientInv
=============================================================================
