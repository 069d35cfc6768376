----------------------------- MODULE CakeServer -----------------------------
(***************************************************************************)
(* The CakeML attestation server (components/CakeServer): a thread that    *)
(* runs the callback of the dispatch notification, and the main thread, a  *)
(* CakeML loop (destination.cml) over foreign functions                    *)
(* (sb_destination_t_impl.c) that waits for a dispatch, reads the request  *)
(* from cake_read_port, signs it, writes the reply to the same port and    *)
(* emits ready.  The two threads meet in a flag and a semaphore.           *)
(*                                                                         *)
(* The component is not in the live assembly (its connections are          *)
(* commented out of vm_attest.camkes).  Its peer is therefore modelled     *)
(* from the connections and from the commented cake_send: it writes a      *)
(* request and emits the dispatch notification.  A patient peer waits for  *)
(* ready in between, an impatient one does not.                            *)
(*                                                                         *)
(* Texts are C strings: a text is known by what it is and its length.  A   *)
(* reply is a row of bytes, the signature and then what was signed; it is  *)
(* copied as a string all the same, to its first 0 byte.  Where sprintf or *)
(* strcpy writes beyond str or the port the main thread is "halted": the   *)
(* model does not follow it any further.                                   *)
(***************************************************************************)
EXTENDS Integers

CONSTANTS
  MaxRequests,    (* bound: requests the peer makes                        *)
  Lengths,        (* of the texts the peer writes                          *)
  PortSize,       (* bytes of cake_read_port, and of str: 4096             *)
  SignatureSize,  (* bytes signMsg puts in front of the message            *)
  Stack           (* what the stack may have held where str is             *)

ASSUME CakeAssumption ==
  /\ MaxRequests \in Nat
  /\ PortSize \in Nat /\ SignatureSize \in Nat
  /\ Lengths \subseteq 0 .. PortSize - 1

VARIABLES
  pending,        (* the flag of the dispatch notification                 *)
  registered,     (* is its callback registered                            *)
  cpc,            (* the callback: "idle", "set", "post" or "register"     *)
  occurred,       (* sb_occurred_periodic_dispatcher                       *)
  sem,            (* count of cake_dispatch_sem                            *)
  mpc,            (* where the main thread is                              *)
  port,           (* cake_read_port: a message                             *)
  message,        (* thisMsg of timeTriggered                              *)
  ready,          (* the flag of the ready event                           *)
  patient,        (* does the peer wait for the reply to its last request  *)
  ppc,            (* the peer: "ask", "writing", "dispatch" or "await"     *)
  (* History.                                                              *)
  asked,          (* requests the peer has dispatched                      *)
  seen            (* seen: value of asked when the port was last read      *)

threadVars == <<cpc, registered, occurred, sem, mpc, message, seen>>
vars == <<patient, pending, port, ready, ppc, asked, threadVars>>

(* A text in the port, or one read from it with what follows it in str.    *)
Text(k, n, l) == [kind |-> k, id |-> n, len |-> l, rest |-> {}]
Request(n, l) == Text("request", n, l)
Mixed(n, l)   == Text("mixed", n, l)
Copying(l)    == Text("copying", 0, l)
Empty         == Text("empty", 0, 0)

Init ==
  /\ pending    = FALSE
  /\ registered = FALSE
  /\ cpc        = "idle"
  /\ occurred   = FALSE
  /\ sem        = 1
  /\ mpc        = "initialise"
  /\ port       = Empty
  /\ message    = Empty
  /\ ready      = FALSE
  /\ patient    \in BOOLEAN
  /\ ppc        = "ask"
  /\ asked      = 0
  /\ seen       = 0
-----------------------------------------------------------------------------
(* The peer writes a request to the port, which holds parts of two texts   *)
(* meanwhile, and afterwards if the server has written there too ...       *)
Ask ==
  /\ ppc = "ask"
  /\ asked < MaxRequests
  /\ \E l \in Lengths : port' = Mixed(asked + 1, l)
  /\ ppc' = "writing"
  /\ UNCHANGED <<pending, ready, asked, threadVars>>

AskEnd ==
  /\ ppc = "writing"
  /\ port' = IF port = Mixed(asked + 1, port.len)
             THEN Request(asked + 1, port.len)
             ELSE Mixed(0, port.len)
  /\ ppc' = "dispatch"
  /\ UNCHANGED <<pending, ready, asked, threadVars>>

(* ... emits cake_periodic_dispatch_notification ...                       *)
Dispatch ==
  /\ ppc = "dispatch"
  /\ pending' = TRUE
  /\ asked' = asked + 1
  /\ ppc' = IF patient THEN "await" ELSE "ask"
  /\ UNCHANGED <<port, ready, threadVars>>

(* ... and, if patient, waits for ready.                                   *)
Await ==
  /\ ppc = "await"
  /\ ready
  /\ ready' = FALSE
  /\ ppc' = "ask"
  /\ UNCHANGED <<pending, port, asked, threadVars>>
-----------------------------------------------------------------------------
(* The thread of the notification takes the event and, for one call, the   *)
(* registered callback.                                                    *)
TakeDispatch ==
  /\ cpc = "idle"
  /\ pending
  /\ registered
  /\ pending' = FALSE
  /\ registered' = FALSE
  /\ cpc' = "set"
  /\ UNCHANGED <<port, ready, ppc, asked, occurred, sem, mpc, message, seen>>

(* periodic_dispatcher_write_int64_t: set the flag, then post.             *)
SetOccurred ==
  /\ cpc = "set"
  /\ occurred' = TRUE
  /\ cpc' = "post"
  /\ UNCHANGED <<pending, port, ready, ppc, asked, registered, sem, mpc, message, seen>>

PostDispatch ==
  /\ cpc = "post"
  /\ sem' = sem + 1
  /\ cpc' = "register"
  /\ UNCHANGED <<pending, port, ready, ppc, asked, registered, occurred, mpc, message, seen>>

(* The callback registers itself for the next event.                       *)
(* (slip: it does not)                                                     *)
Register(r) ==
  /\ cpc = "register"
  /\ registered' = r
  /\ cpc' = "idle"
  /\ UNCHANGED <<pending, port, ready, ppc, asked, occurred, sem, mpc, message, seen>>

RegisterAgainForgotten == Register(registered)
RegisterAgain == Register(TRUE)
-----------------------------------------------------------------------------
serverOutside == <<pending, ppc, asked, cpc>>

(* ffiinitialise: register the callback ...                                *)
Initialise ==
  /\ mpc = "initialise"
  /\ registered' = TRUE
  /\ mpc' = "first"
  /\ UNCHANGED <<port, ready, occurred, sem, message, seen, serverOutside>>

(* cake_dispatch_sem_wait: take a count of the semaphore when there is one *)
(* (slips: without waiting for one; all there are).                        *)
CountLeftUnseen == TRUE
CountLeft == sem > 0

AllButNone == 0
AllButOne == sem - 1

SemWait(from, to) ==
  /\ mpc = from
  /\ CountLeft
  /\ sem' = AllButOne
  /\ mpc' = to
  /\ UNCHANGED <<port, ready, registered, occurred, message, seen, serverOutside>>

(* The count the semaphore was created with is taken by ffiinitialise, the *)
(* others by ffiwait ...                                                   *)
FirstWait == SemWait("first", "wait")
Wait == SemWait("wait", "test")

(* ... look at the flag: the loop goes round if it is down ...             *)
TestOccurred ==
  /\ mpc = "test"
  /\ mpc' = IF occurred THEN "clear" ELSE "wait"
  /\ UNCHANGED <<port, ready, registered, occurred, sem, message, seen, serverOutside>>

(* ... or take it down.                                                    *)
ClearOccurred ==
  /\ mpc = "clear"
  /\ occurred' = FALSE
  /\ mpc' = "read"
  /\ UNCHANGED <<port, ready, registered, sem, message, seen, serverOutside>>

(* timeTriggered: ffisb_read_port_read prints the text and a newline into  *)
(* str, if str has room for them and a 0, and returns all of str ...       *)
ReadPort ==
  /\ mpc = "read"
  /\ IF port.len + 2 <= PortSize
     THEN /\ \E left \in SUBSET Stack : message' = [port EXCEPT !.rest = left]
          /\ seen' = asked
          /\ mpc' = "erase"
     ELSE mpc' = "halted" /\ UNCHANGED <<message, seen>>
  /\ UNCHANGED <<port, ready, registered, occurred, sem, serverOutside>>

(* ... attestPlat signs that, and ffisb_read_port_write erases the port ... *)
ErasePort ==
  /\ mpc = "erase"
  /\ port' = Empty
  /\ mpc' = "write"
  /\ UNCHANGED <<ready, registered, occurred, sem, message, seen, serverOutside>>

(* ... copies the reply, the signature, the text and the newline, 0 and    *)
(* the rest, to its first 0 byte: one of the signature, or the one after   *)
(* the newline ...                                                         *)
(* (slip: the whole reply is copied)                                       *)
WholeReply == {SignatureSize + PortSize}
ReplyLengths == 0 .. SignatureSize - 1 \cup {SignatureSize + message.len + 1}

AfterErase(to) ==
  /\ mpc = "write"
  /\ mpc' = to
  /\ UNCHANGED <<registered, occurred, sem, message, seen, serverOutside>>

(* (slip: ready is emitted before the reply is in the port)                *)
WriteReplyEarlyReady == AfterErase("emit") /\ ready' = TRUE /\ UNCHANGED port
WriteReply ==
  \E l \in ReplyLengths :
    IF l + 1 <= PortSize
    THEN AfterErase("copy") /\ port' = Copying(l) /\ UNCHANGED ready
    ELSE AfterErase("halted") /\ UNCHANGED <<port, ready>>

(* ... which is there at the end of the copy if the peer has not written   *)
(* to the port meanwhile ...                                               *)
CopyEnd ==
  /\ mpc = "copy"
  /\ port' = IF port = Copying(port.len) /\ ppc # "writing"
             THEN Text("reply", message.id, port.len)
             ELSE Mixed(0, port.len)
  /\ mpc' = "emit"
  /\ UNCHANGED <<ready, registered, occurred, sem, message, seen, serverOutside>>

(* ... and emits ready.                                                    *)
ReadyEmit ==
  /\ mpc = "emit"
  /\ ready' = TRUE
  /\ mpc' = "wait"
  /\ UNCHANGED <<port, registered, occurred, sem, message, seen, serverOutside>>
-----------------------------------------------------------------------------
(* The peer stays patient or impatient.                                    *)
Peer     == (Ask \/ AskEnd \/ Dispatch \/ Await) /\ UNCHANGED patient
Callback == (TakeDispatch \/ SetOccurred \/ PostDispatch \/ RegisterAgain) /\ UNCHANGED patient
Main     == /\ \/ Initialise \/ FirstWait \/ Wait \/ TestOccurred \/ ClearOccurred
               \/ ReadPort \/ ErasePort \/ WriteReply \/ CopyEnd \/ ReadyEmit
            /\ UNCHANGED patient

Next == Peer \/ Callback \/ Main

Spec == Init /\ [][Next]_vars

(* Both threads of the server are scheduled; the peer owes nothing.        *)
FairSpec == Spec /\ WF_vars(Callback) /\ WF_vars(Main)
-----------------------------------------------------------------------------
Messages == [kind : {"empty", "mixed", "request", "copying", "reply"}, id : 0 .. MaxRequests,
             len : 0 .. PortSize, rest : SUBSET Stack]

TypeOK ==
  /\ patient \in BOOLEAN
  /\ pending \in BOOLEAN
  /\ registered \in BOOLEAN
  /\ occurred \in BOOLEAN
  /\ ready \in BOOLEAN
  /\ cpc \in {"idle", "set", "post", "register"}
  /\ sem \in Nat
  /\ mpc \in {"initialise", "first", "wait", "test", "clear", "read",
              "erase", "write", "copy", "emit", "halted"}
  /\ port \in Messages
  /\ message \in Messages
  /\ ppc \in {"ask", "writing", "dispatch", "await"}
  /\ asked \in 0 .. MaxRequests
  /\ seen \in 0 .. MaxRequests

(* A raised flag is never left without a wake-up on its way to the main    *)
(* thread: the flag and the semaphore, set and taken in separate steps of  *)
(* two threads, do not come apart.                                         *)
NoSleepOnDispatch ==
  occurred => sem > 0 \/ cpc = "post" \/ mpc \in {"test", "clear"}

(* Every dispatch is followed by a look at the port, although the flag of  *)
(* the notification, the flag of the callback and the non-atomic test and  *)
(* clear of ffiwait may each merge two dispatches, unless a text too long  *)
(* for the buffers has been met.                                           *)
NoLostDispatch ==
  \A n \in 1 .. MaxRequests : (asked >= n) ~> (seen >= n \/ mpc = "halted")

(* With a patient peer, what the server signs is the request of the last   *)
(* dispatch, never its own last reply, though both are in one port, nor a  *)
(* request half written (and what the stack held behind it).               *)
SignsTheRequest ==
  patient /\ mpc = "erase" => message.kind = "request" /\ message.id = asked

(* ... and when ready is up the port has the reply to that request, to the *)
(* first 0 byte of it: its signature may be cut, and then the text is      *)
(* missing, but the text is never cut, and nothing that the stack held     *)
(* follows it.                                                             *)
ReadyMeansReplied ==
  patient /\ ready =>
    /\ port.kind = "reply" /\ port.id = asked /\ port.rest = {}
    /\ message.id = asked
    /\ port.len < SignatureSize \/ port.len = SignatureSize + message.len + 1

(* A patient peer's server goes beyond its buffers only for a request that *)
(* leaves no room for the signature, the newline and a 0: it does not sign *)
(* its own replies, which would grow.                                      *)
HaltedByLongRequest ==
  patient /\ mpc = "halted" =>
    \E m \in {port, message} :
      /\ m.kind = "request" /\ m.id = asked
      /\ SignatureSize + m.len + 2 > PortSize

-----------------------------------------------------------------------------
(* The inductive invariant behind the safety properties.                   *)
One(p) == IF p THEN 1 ELSE 0

(* The count the semaphore was created with is still there to be taken     *)
(* before the loop starts, besides that of a dispatch.                     *)
WakeupInv ==
  /\ NoSleepOnDispatch
  /\ mpc = "clear" => occurred
  /\ mpc \in {"initialise", "first"} =>
       sem > 0 /\ (occurred => sem > 1 \/ cpc = "post")

Serving == mpc \in {"read", "erase", "write", "copy", "emit", "halted"}

InPort(n) == port.kind = "request" /\ port.id = n /\ port.rest = {}

WholeOrCut == port.len < SignatureSize \/ port.len = SignatureSize + message.len + 1

Replied == port.kind = "reply" /\ port.id = asked /\ port.rest = {} /\ WholeOrCut

(* The one request of a patient peer is in exactly one place on its way    *)
(* through the notification, the callback, the flag, the main thread and   *)
(* the ready event, and the port holds it until it is answered.            *)
PatientInv ==
  /\ One(pending) + One(cpc = "set") + One(occurred) + One(Serving) + One(ready)
       = One(ppc = "await")
  /\ ppc = "writing" => port = Mixed(asked + 1, port.len)
  /\ ppc = "dispatch" => InPort(asked + 1)
  /\ ppc = "await" /\ mpc \notin {"write", "copy", "emit", "halted"} /\ ~ready => InPort(asked)
  /\ mpc \in {"erase", "write", "copy", "emit"} \/ ready =>
       message.kind = "request" /\ message.id = asked
  /\ mpc = "copy" => port = Copying(port.len) /\ WholeOrCut
  /\ mpc = "emit" \/ ready => Replied
  /\ HaltedByLongRequest

IInv ==
  /\ TypeOK
  /\ ppc \in {"writing", "dispatch"} => asked < MaxRequests
  /\ WakeupInv
  /\ patient => PatientInv
=============================================================================
