------------------------------ MODULE VmAttest ------------------------------
(***************************************************************************)
(* The live assembly of vm_attest.camkes: the guest and its VMM (CrossVm)  *)
(* and IntrospectManager, joined by two notifications and by the guest's   *)
(* memory, which the manager reads while the guest writes it.              *)
(***************************************************************************)
EXTENDS CrossVm, IntrospectManager

CONSTANT MaxStores  (* bound: stores of the guest to its memory            *)

ASSUME StoresAssumption == MaxStores \in Nat

VARIABLE stores     (* history: how many there have been                   *)

memoryVars == <<memdev, held, stores>>
vars == <<ready, done, begun, acked, guestVars, managerVars, memoryVars>>

(* By the time the guest asks for a measurement its memory may hold        *)
(* anything.                                                               *)
Init == ConnectionsInit /\ CrossVmInit /\ ManagerInit /\ stores = 0

(* Either of the two virtual CPUs.                                         *)
GuestStore ==
  /\ stores < MaxStores
  /\ stores' = stores + 1
  /\ \E c \in Addresses, v \in Bytes : StoreToMemory(c, v)
  /\ UNCHANGED guestVars

Vm == CrossVmNext /\ UNCHANGED <<managerVars, memoryVars>>
Manager == ManagerNext /\ UNCHANGED <<guestVars, stores>>

Next == Vm \/ Manager \/ GuestStore

(* Each component is a thread of its own that seL4 schedules; a program    *)
(* the guest kernel has woken gets to run.  Nothing makes the guest ask.   *)
Fairness ==
  /\ WF_vars(Manager)
  /\ WF_vars((SysIpaToPa \/ ConsumeCallback) /\ UNCHANGED <<managerVars, memoryVars>>)
  /\ WF_vars(GuestWake /\ UNCHANGED <<managerVars, memoryVars>>)

Spec == Init /\ [][Next]_vars
FairSpec == Spec /\ Fairness
-----------------------------------------------------------------------------
TypeOK == CrossVmTypeOK /\ ManagerTypeOK /\ stores \in 0 .. MaxStores

(* All the work of a pass is one state to the VM side.                     *)
managerState ==
  CASE mpc = "wait" -> "waiting"
    [] mpc = "underlying" -> "underlying"
    [] mpc = "emit" -> "emit"
    [] mpc = "halted" -> "halted"
    [] OTHER -> "measuring"

(* The manager keeps the handshake the VM side relies on (Handshake),      *)
(* whatever it measures.                                                   *)
Contract == INSTANCE Handshake WITH manager <- managerState

KeepsHandshake == Contract!HandshakeSpec

(* Every request is answered by a pass begun after it, although requests   *)
(* made during a pass are merged and the guest may never hear of it,       *)
(* unless the manager has been halted by what it found.                    *)
RequestAnswered ==
  \A n \in 0 .. MaxRequests - 1 :
    (requests > 0 /\ lastRequest = n) ~> (acked > n \/ mpc = "halted")

(* A guest program that asks for a measurement and then waits is woken,    *)
(* unless consume_callback could not be registered.                        *)
WaiterWoken ==
  (registered /\ app = "waiting" /\ requests > 0 /\ acked <= lastRequest)
    ~> (app = "idle" \/ mpc = "halted")
=============================================================================
