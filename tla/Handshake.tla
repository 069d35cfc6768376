----------------------------- MODULE Handshake -----------------------------
(***************************************************************************)
(* What the VM side may rely on of IntrospectManager, the measurement      *)
(* itself left out: it takes a ready event, measures, and either signals   *)
(* done twice or is never heard of again.                                  *)
(***************************************************************************)
EXTENDS CrossVm

VARIABLE manager  (* "waiting", "measuring", "underlying", "emit", "halted" *)

handshakeVars == <<manager, ready, done, begun, acked, guestVars>>

HandshakeInit == ConnectionsInit /\ CrossVmInit /\ manager = "waiting"

BeginPass ==
  /\ manager = "waiting"
  /\ ready
  /\ ready' = FALSE
  /\ begun' = begun + 1
  /\ manager' = "measuring"
  /\ UNCHANGED <<done, acked, guestVars>>

EndPass ==
  /\ manager = "measuring"
  /\ manager' \in {"underlying", "halted"}
  /\ UNCHANGED <<ready, done, begun, acked, guestVars>>

SignalUnderlying ==
  /\ manager = "underlying"
  /\ done' = TRUE
  /\ acked' = begun
  /\ manager' = "emit"
  /\ UNCHANGED <<ready, begun, guestVars>>

SignalAgain ==
  /\ manager = "emit"
  /\ done' = TRUE
  /\ manager' = "waiting"
  /\ UNCHANGED <<ready, begun, acked, guestVars>>

HandshakeNext ==
  \/ BeginPass \/ EndPass \/ SignalUnderlying \/ SignalAgain
  \/ CrossVmNext /\ UNCHANGED manager

HandshakeSpec == HandshakeInit /\ [][HandshakeNext]_handshakeVars
-----------------------------------------------------------------------------
(* The inductive invariant behind the three properties of CrossVm.         *)
One(p) == IF p THEN 1 ELSE 0

(* Done events the pass under way has still to signal.                     *)
SignalsLeft ==
  CASE manager \in {"measuring", "underlying"} -> 2
    [] manager = "emit" -> 1
    [] OTHER -> 0

(* Where the manager is, and how many passes and requests there have been. *)
PassCounts ==
  /\ manager \in {"waiting", "measuring", "underlying", "emit", "halted"}
  /\ vcpu = "trapped" => requests < MaxRequests
  /\ begun + One(ready) <= requests
  /\ manager \in {"waiting", "emit"} => acked = begun
  /\ manager \in {"measuring", "underlying", "halted"} => acked + 1 = begun
  /\ lastRequest <= begun

(* Every wake-up, had or still possible, is backed by a done event.        *)
WakesBacked ==
  wakes + One(eventRegister > 0) + One(done) + One(manager = "emit") <= 2 * acked

(* Until the last request is answered, the wake-ups since it and those     *)
(* that passes begun before it can still cause are at most four.           *)
StaleWakesBounded ==
  acked <= lastRequest =>
    wakesSince + One(eventRegister > 0) + One(done)
      + (IF begun = lastRequest THEN SignalsLeft ELSE 0) <= 4

HandshakeInv == CrossVmTypeOK /\ PassCounts /\ WakesBacked /\ StaleWakesBounded
=============================================================================
