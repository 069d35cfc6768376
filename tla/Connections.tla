---------------------------- MODULE Connections ----------------------------
(***************************************************************************)
(* The event connections of vm_attest.camkes that join the VM component    *)
(* (VMM and guest) and IntrospectManager.  Both are seL4 notifications:    *)
(* a word of flags that a signal sets and a wait or poll clears, so that   *)
(* signals sent before the receiver looks are merged into one.             *)
(***************************************************************************)
EXTENDS Integers

VARIABLES
  ready,          (* vm0.ready -> md.ready (seL4Notification)              *)
  done,           (* md.done -> vm0.done (seL4GlobalAsynch)                *)
  (* History: passes of IntrospectManager's loop begun and acknowledged.   *)
  begun,
  acked

ConnectionsInit ==
  /\ ready = FALSE
  /\ done  = FALSE
  /\ begun = 0
  /\ acked = 0
=============================================================================
