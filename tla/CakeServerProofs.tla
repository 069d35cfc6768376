-------------------------- MODULE CakeServerProofs --------------------------
(***************************************************************************)
(* The attestation server neither sleeps on a dispatch nor, with a patient *)
(* peer, signs anything but the request, for any number of requests.       *)
(***************************************************************************)
EXTENDS CakeServer, TLAPS

FlagsOK ==
  /\ patient \in BOOLEAN
  /\ pending \in BOOLEAN /\ registered \in BOOLEAN
  /\ occurred \in BOOLEAN /\ ready \in BOOLEAN

LEMMA InitFlags == Init => FlagsOK
  BY Zenon DEF Init, FlagsOK

LEMMA NextFlags == FlagsOK /\ [Next]_vars => FlagsOK'
<1> SUFFICES ASSUME FlagsOK, [Next]_vars
             PROVE  FlagsOK'
  OBVIOUS
<1> USE DEF FlagsOK
<1>1. CASE Peer
  BY <1>1, Zenon DEF Peer, Ask, AskEnd, Dispatch, Await, threadVars
<1>2. CASE Callback
  BY <1>2, Zenon DEF Callback, TakeDispatch, SetOccurred, PostDispatch, RegisterAgain, Register
<1>3. CASE Main
  BY <1>3, Zenon DEF Main, Initialise, FirstWait, Wait, SemWait, TestOccurred, ClearOccurred,
              ReadPort,
              ErasePort, WriteReply, AfterErase, CopyEnd, ReadyEmit, serverOutside
<1>4. CASE UNCHANGED vars
  BY <1>4, Zenon DEF vars, threadVars
<1> QED
  BY <1>1, <1>2, <1>3, <1>4 DEF Next

Others ==
  /\ cpc \in {"idle", "set", "post", "register"}
  /\ sem \in Nat
  /\ mpc \in {"initialise", "first", "wait", "test", "clear", "read",
              "erase", "write", "copy", "emit", "halted"}
  /\ port \in Messages
  /\ message \in Messages
  /\ ppc \in {"ask", "writing", "dispatch", "await"}
  /\ asked \in 0 .. MaxRequests
  /\ seen \in 0 .. MaxRequests

LEMMA TypeSplit == TypeOK <=> FlagsOK /\ Others
  BY DEF TypeOK, FlagsOK, Others

LEMMA InitIInv == Init => IInv
<1> SUFFICES ASSUME Init PROVE IInv
  OBVIOUS
<1>1. TypeOK
  <2>1. Others
    BY CakeAssumption DEF Init, Others, Messages, Empty, Text
  <2> QED
    BY <2>1, InitFlags, TypeSplit
<1>2. (ppc \in {"writing", "dispatch"} => asked < MaxRequests) /\ WakeupInv
  BY DEF Init, WakeupInv, NoSleepOnDispatch
<1>3. PatientInv
  BY DEF Init, PatientInv, One, Serving, HaltedByLongRequest
<1> QED
  BY <1>1, <1>2, <1>3 DEF IInv

LEMMA TypeStep ==
  IInv /\ [Next]_vars =>
    TypeOK' /\ (ppc \in {"writing", "dispatch"} => asked < MaxRequests)'
<1> SUFFICES ASSUME IInv, [Next]_vars
             PROVE  TypeOK' /\ (ppc \in {"writing", "dispatch"} => asked < MaxRequests)'
  OBVIOUS
<1>1. FlagsOK'
  BY TypeSplit, NextFlags DEF IInv
<1>2. Others /\ (ppc \in {"writing", "dispatch"} => asked < MaxRequests)
  BY TypeSplit DEF IInv
<1>3. Others' /\ (ppc \in {"writing", "dispatch"} => asked < MaxRequests)'
  <2> USE CakeAssumption DEF Others
  <2>1. CASE Peer
    BY <1>2, <2>1 DEF Peer, Ask, AskEnd, Dispatch, Await, threadVars, Messages,
                      Request, Mixed, Text
  <2>2. CASE Callback
    BY <1>2, <2>2
    DEF Callback, TakeDispatch, SetOccurred, PostDispatch, RegisterAgain, Register
  <2>3. CASE Main
    BY <1>2, <2>3 DEF Main, Initialise, FirstWait, Wait, SemWait, CountLeft, AllButOne,
                      TestOccurred, ClearOccurred,
                      ReadPort, ErasePort, WriteReply, ReplyLengths, AfterErase,
                      CopyEnd, ReadyEmit, serverOutside,
                      Messages, Empty, Mixed, Copying, Text
  <2>4. CASE UNCHANGED vars
    BY <1>2, <2>4 DEF vars, threadVars
  <2> QED
    BY <2>1, <2>2, <2>3, <2>4 DEF Next
<1>4. TypeOK'
  BY <1>1, <1>3 DEF TypeOK, FlagsOK, Others
<1> QED
  BY <1>3, <1>4

LEMMA WakeupStep == IInv /\ [Next]_vars => WakeupInv'
<1> SUFFICES ASSUME Others, WakeupInv, [Next]_vars
             PROVE  WakeupInv'
  BY TypeSplit DEF IInv
<1> USE DEF Others, WakeupInv, NoSleepOnDispatch
<1>1. CASE Peer
  BY <1>1 DEF Peer, Ask, AskEnd, Dispatch, Await, threadVars
<1>2. CASE Callback
  BY <1>2 DEF Callback, TakeDispatch, SetOccurred, PostDispatch, RegisterAgain, Register
<1>3. CASE Main
  BY <1>3 DEF Main, Initialise, FirstWait, Wait, SemWait, CountLeft, AllButOne,
              TestOccurred, ClearOccurred, ReadPort,
              ErasePort, WriteReply, AfterErase, CopyEnd, ReadyEmit, serverOutside
<1>4. CASE UNCHANGED vars
  BY <1>4 DEF vars, threadVars
<1> QED
  BY <1>1, <1>2, <1>3, <1>4 DEF Next

LEMMA PatientStep == IInv /\ patient /\ [Next]_vars => PatientInv'
<1> SUFFICES ASSUME IInv, Others, patient, PatientInv, WakeupInv, [Next]_vars
             PROVE  PatientInv'
  BY TypeSplit DEF IInv
<1> USE CakeAssumption DEF Others, PatientInv, One, Serving, InPort, Replied, WholeOrCut,
        HaltedByLongRequest, Messages, Request, Mixed, Text
<1>1. CASE Ask \/ AskEnd
  BY <1>1 DEF Ask, AskEnd, threadVars
<1>2. CASE Dispatch
  BY <1>2 DEF Dispatch, threadVars
<1>3. CASE Await
  BY <1>3 DEF Await, threadVars
<1>4. CASE TakeDispatch
  BY <1>4 DEF TakeDispatch
<1>5. CASE SetOccurred
  BY <1>5 DEF SetOccurred
<1>6. CASE PostDispatch \/ RegisterAgain
  BY <1>6 DEF PostDispatch, RegisterAgain, Register
<1>7. CASE Initialise \/ FirstWait \/ Wait \/ TestOccurred
  BY <1>7 DEF Initialise, FirstWait, Wait, SemWait, CountLeft, AllButOne,
              TestOccurred, serverOutside
<1>8. CASE ClearOccurred
  BY <1>8 DEF ClearOccurred, serverOutside, WakeupInv
<1>9. CASE ReadPort
  BY <1>9 DEF ReadPort, serverOutside
<1>10. CASE ErasePort
  BY <1>10 DEF ErasePort, serverOutside
<1>11. CASE WriteReply
  BY <1>11 DEF WriteReply, ReplyLengths, AfterErase, Copying, Text, serverOutside
<1>12. CASE CopyEnd
  BY <1>12 DEF CopyEnd, serverOutside
<1>13. CASE ReadyEmit
  BY <1>13 DEF ReadyEmit, serverOutside
<1>14. CASE UNCHANGED vars
  BY <1>14 DEF vars, threadVars
<1> QED
  BY <1>1, <1>2, <1>3, <1>4, <1>5, <1>6, <1>7, <1>8, <1>9, <1>10, <1>11, <1>12, <1>13, <1>14
     DEF Next, Peer, Callback, Main

LEMMA Inductive == Spec => []IInv
<1>1. IInv /\ [Next]_vars => IInv'
  <2>1. [Next]_vars => (patient' => patient)
    BY DEF Next, Peer, Callback, Main, vars
  <2> QED
    BY <2>1, TypeStep, WakeupStep, PatientStep DEF IInv
<1> QED
  BY <1>1, InitIInv, PTL DEF Spec

(* The two flags and the semaphore keep their types.                       *)
THEOREM TypeCorrect == Spec => []TypeOK
<1>1. IInv => TypeOK
  BY DEF IInv
<1> QED
  BY <1>1, Inductive, PTL

(* Set and taken in separate steps of two threads, the flag is never left  *)
(* up without a wake-up on its way.                                        *)
THEOREM WakeupsReach == Spec => []NoSleepOnDispatch
<1>1. IInv => NoSleepOnDispatch
  BY DEF IInv, WakeupInv
<1> QED
  BY <1>1, Inductive, PTL

(* With a patient peer the server signs the request, never its own reply.  *)
THEOREM RequestsSigned == Spec => []SignsTheRequest
<1>1. IInv => SignsTheRequest
  BY DEF IInv, PatientInv, SignsTheRequest
<1> QED
  BY <1>1, Inductive, PTL

(* With a patient peer, ready means that the reply to the request is in    *)
(* the port, whole or cut within its signature, and nothing else is.       *)
THEOREM RepliesReady == Spec => []ReadyMeansReplied
<1>1. IInv => ReadyMeansReplied
  BY DEF IInv, PatientInv, ReadyMeansReplied, Replied, WholeOrCut
<1> QED
  BY <1>1, Inductive, PTL

(* With a patient peer, the buffers suffice for every request that leaves  *)
(* room for the signature, the newline and a 0.                            *)
THEOREM BuffersSuffice == Spec => []HaltedByLongRequest
<1>1. IInv => HaltedByLongRequest
  BY Zenon DEF IInv, PatientInv, HaltedByLongRequest
<1> QED
  BY <1>1, Inductive, PTL
=============================================================================
