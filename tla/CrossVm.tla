------------------------------ MODULE CrossVm ------------------------------
(***************************************************************************)
(* The VM side of the attestation handshake: a guest program that asks for *)
(* a measurement through the cross-VM device "introspect_vm" and waits for *)
(* the answer, and the VMM (src/cross_vm_connection.c) that carries the    *)
(* two events between the guest and IntrospectManager.                     *)
(*                                                                         *)
(* The guest program stores to the emit register of the device; the store  *)
(* traps, the VMM runs sys_ipa_to_pa and resumes the virtual CPU.  (There  *)
(* are two: what else the guest does goes on meanwhile.)  The program is   *)
(* not in the repository: any number of requests and waits in any order.   *)
(***************************************************************************)
EXTENDS Connections

CONSTANT MaxRequests  (* bound: how many measurements the guest asks for   *)

ASSUME RequestsAssumption == MaxRequests \in Nat

VARIABLES
  registered,     (* consume_callback will be called for the done badge    *)
  vcpu,           (* the program's: "guest", or "trapped" until the VMM    *)
                  (* has handled its store                                 *)
  app,            (* the guest program: "idle" or "waiting"                *)
  eventRegister,  (* events consumed by the VMM the guest has not seen     *)
  (* History.                                                              *)
  requests,       (* ready events emitted                                  *)
  lastRequest,    (* passes begun when the last of them was emitted        *)
  wakes,          (* times the guest program was woken                     *)
  wakesSince      (* ... since the last request                            *)

guestVars ==
  <<registered, vcpu, app, eventRegister, requests, lastRequest, wakes, wakesSince>>

(* init_cross_vm_connections: that the callback could not be registered is *)
(* logged, and the guest runs all the same.                                *)
CrossVmInit ==
  /\ registered \in BOOLEAN
  /\ vcpu = "guest"
  /\ app  = "idle"
  /\ eventRegister = 0
  /\ requests      = 0
  /\ lastRequest   = 0
  /\ wakes         = 0
  /\ wakesSince    = 0

(* The guest program stores to the emit register.                          *)
GuestEmit ==
  /\ vcpu = "guest"
  /\ app = "idle"
  /\ requests < MaxRequests
  /\ vcpu' = "trapped"
  /\ UNCHANGED <<registered, app, eventRegister, requests, lastRequest, wakes,
                 wakesSince, ready, done, begun, acked>>

(* sys_ipa_to_pa: the VMM forwards the event and resumes the guest.        *)
(* (slip: it does not forward it)                                          *)
Resume ==
  /\ vcpu = "trapped"
  /\ vcpu' = "guest"
  /\ requests' = requests + 1
  /\ lastRequest' = begun
  /\ wakesSince' = 0
  /\ UNCHANGED <<registered, app, eventRegister, wakes, done, begun, acked>>

SysIpaToPaSilent == Resume /\ UNCHANGED ready
SysIpaToPa == Resume /\ ready' = TRUE

(* The guest program reads the device, which blocks until an event comes.  *)
GuestWait ==
  /\ vcpu = "guest"
  /\ app = "idle"
  /\ app' = "waiting"
  /\ UNCHANGED <<registered, vcpu, eventRegister, requests, lastRequest, wakes,
                 wakesSince, ready, done, begun, acked>>

(* consume_callback: one event for the guest per look at the done badge.   *)
(* (slip: the look does not clear the badge)                               *)
TakeDoneSticky == done /\ eventRegister = 0 /\ UNCHANGED done
TakeDone == done /\ done' = FALSE

ConsumeCallback ==
  /\ registered
  /\ TakeDone
  /\ eventRegister' = eventRegister + 1
  /\ UNCHANGED <<registered, vcpu, app, requests, lastRequest, wakes, wakesSince,
                 ready, begun, acked>>

(* The read returns; it takes all the events that have come.               *)
GuestWake ==
  /\ vcpu = "guest"
  /\ app = "waiting"
  /\ eventRegister > 0
  /\ app' = "idle"
  /\ eventRegister' = 0
  /\ wakes' = wakes + 1
  /\ wakesSince' = wakesSince + 1
  /\ UNCHANGED <<registered, vcpu, requests, lastRequest, ready, done, begun, acked>>

CrossVmNext == GuestEmit \/ SysIpaToPa \/ GuestWait \/ ConsumeCallback \/ GuestWake
-----------------------------------------------------------------------------
CrossVmTypeOK ==
  /\ ready \in BOOLEAN
  /\ done \in BOOLEAN
  /\ registered \in BOOLEAN
  /\ vcpu \in {"guest", "trapped"}
  /\ app \in {"idle", "waiting"}
  /\ eventRegister \in Nat
  /\ requests \in 0 .. MaxRequests
  /\ begun \in Nat
  /\ acked \in Nat
  /\ lastRequest \in Nat
  /\ wakes \in Nat
  /\ wakesSince \in Nat

(* A pass needs a request of its own: no pass is begun without one, and    *)
(* requests merged into one flag cost one pass.                            *)
PassesNeedRequests == begun <= requests

(* The guest program is woken at most twice for each pass: once for each   *)
(* of the two done events that close it.                                   *)
AtMostTwoWakesPerPass == wakes <= 2 * acked

(* Events of earlier passes may wake the guest program after a new request *)
(* (two done events close a pass, and up to two stages of the way to the   *)
(* guest hold one more each), but no more than four times: the fifth       *)
(* wake-up after a request answers it, with a pass begun after it.         *)
FifthWakeIsFresh == wakesSince >= 5 => acked > lastRequest
=============================================================================
