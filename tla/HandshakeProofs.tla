-------------------------- MODULE HandshakeProofs --------------------------
(***************************************************************************)
(* The handshake is correct for any number of requests.                    *)
(***************************************************************************)
EXTENDS Handshake, TLAPS

LEMMA InitHandshakeInv == HandshakeInit => HandshakeInv
<1> SUFFICES ASSUME HandshakeInit
             PROVE  HandshakeInv
  OBVIOUS
<1>1. ready \in BOOLEAN /\ done \in BOOLEAN
  BY Zenon DEF HandshakeInit, ConnectionsInit
<1> QED
  BY <1>1, RequestsAssumption
     DEF HandshakeInit, ConnectionsInit, CrossVmInit, HandshakeInv, CrossVmTypeOK,
         PassCounts, WakesBacked, StaleWakesBounded, One, SignalsLeft

LEMMA NextHandshakeInv ==
  HandshakeInv /\ [HandshakeNext]_handshakeVars => HandshakeInv'
<1> SUFFICES ASSUME HandshakeInv, [HandshakeNext]_handshakeVars
             PROVE  HandshakeInv'
  OBVIOUS
<1> USE RequestsAssumption DEF HandshakeInv, CrossVmTypeOK, PassCounts,
                                  WakesBacked, StaleWakesBounded, One, SignalsLeft
<1>1. CASE BeginPass
  <2>1. ready' \in BOOLEAN /\ done' \in BOOLEAN
    BY <1>1, Zenon DEF BeginPass
  <2> QED
    BY <1>1, <2>1 DEF BeginPass, guestVars
<1>2. CASE EndPass
  BY <1>2 DEF EndPass, guestVars
<1>3. CASE SignalUnderlying
  BY <1>3 DEF SignalUnderlying, guestVars
<1>4. CASE SignalAgain
  BY <1>4 DEF SignalAgain, guestVars
<1>5. CASE GuestEmit /\ UNCHANGED manager
  BY <1>5 DEF GuestEmit
<1>6. CASE SysIpaToPa /\ UNCHANGED manager
  BY <1>6 DEF SysIpaToPa, Resume
<1>7. CASE GuestWait /\ UNCHANGED manager
  BY <1>7 DEF GuestWait
<1>8. CASE ConsumeCallback /\ UNCHANGED manager
  <2>1. ready' \in BOOLEAN /\ done' \in BOOLEAN
    BY <1>8, Zenon DEF ConsumeCallback, TakeDone
  <2> QED
    BY <1>8, <2>1 DEF ConsumeCallback, TakeDone
<1>9. CASE GuestWake /\ UNCHANGED manager
  BY <1>9 DEF GuestWake
<1>10. CASE UNCHANGED handshakeVars
  BY <1>10 DEF handshakeVars, guestVars
<1> QED
  BY <1>1, <1>2, <1>3, <1>4, <1>5, <1>6, <1>7, <1>8, <1>9, <1>10
     DEF HandshakeNext, CrossVmNext

LEMMA HandshakeInvariant == HandshakeSpec => []HandshakeInv
  BY InitHandshakeInv, NextHandshakeInv, PTL DEF HandshakeSpec

LEMMA HandshakeInvSuffices ==
  HandshakeInv => PassesNeedRequests /\ AtMostTwoWakesPerPass /\ FifthWakeIsFresh
<1> SUFFICES ASSUME HandshakeInv
             PROVE  PassesNeedRequests /\ AtMostTwoWakesPerPass /\ FifthWakeIsFresh
  OBVIOUS
<1> USE RequestsAssumption DEF HandshakeInv, CrossVmTypeOK, One, SignalsLeft
<1>1. PassesNeedRequests
  BY DEF PassCounts, PassesNeedRequests
<1>2. AtMostTwoWakesPerPass
  BY DEF WakesBacked, AtMostTwoWakesPerPass
<1>3. FifthWakeIsFresh
  BY DEF StaleWakesBounded, FifthWakeIsFresh
<1> QED
  BY <1>1, <1>2, <1>3

(* Whatever manager keeps the handshake, every pass has a request of its   *)
(* own, a pass wakes the guest program at most twice, and the fifth        *)
(* wake-up after a request answers it.                                     *)
THEOREM HandshakeSafe ==
  HandshakeSpec => [](PassesNeedRequests /\ AtMostTwoWakesPerPass /\ FifthWakeIsFresh)
  BY HandshakeInvariant, HandshakeInvSuffices, PTL
=============================================================================
