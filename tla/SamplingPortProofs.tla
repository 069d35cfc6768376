------------------------- MODULE SamplingPortProofs -------------------------
(***************************************************************************)
(* The sampling port is correct for any set of readers, any data and any   *)
(* number of sequence numbers (2^64 - 1 of them in the code).              *)
(***************************************************************************)
EXTENDS SamplingPort, NumberLemmas

LEMMA NextSeqNumCounts ==
  ASSUME count \in Nat, seqNum = count % DIRTY_SEQ_NUM
  PROVE  /\ NextSeqNum(seqNum) = (count + 1) % DIRTY_SEQ_NUM
         /\ NextSeqNum(seqNum) \in 0 .. DIRTY_SEQ_NUM - 1
<1> DEFINE D == DIRTY_SEQ_NUM
<1>1. D \in Nat \ {0}
  BY PortAssumption
<1>2. count \in Int
  OBVIOUS
<1> HIDE DEF D
<1>3. ((count % D) + 1) % D = (count + 1) % D
  BY <1>1, <1>2, NextRemainder
<1>4. (count + 1) % D \in 0 .. D - 1
  BY <1>1, <1>2, Division
<1> QED
  BY <1>3, <1>4 DEF NextSeqNum, D

LEMMA InitIInv == Init => IInv
  BY PortAssumption, Division
     DEF Init, IInv, TypeOK, PageInv, ReaderInv, SeqNums, Writing

LEMMA TypeStep == IInv /\ [Next]_vars => TypeOK'
<1> SUFFICES ASSUME TypeOK, PageInv, [Next]_vars
             PROVE  TypeOK'
  BY DEF IInv
<1> USE PortAssumption DEF TypeOK, SeqNums
<1>1. CASE InitPort
  BY <1>1 DEF InitPort, readerVars
<1>2. CASE MarkDirty
  BY <1>2 DEF MarkDirty, Dirty, readerVars
<1>3. CASE WriteData
  BY <1>3 DEF WriteData, readerVars
<1>4. CASE PublishMessage
  BY <1>4, NextSeqNumCounts DEF PublishMessage, readerVars, PageInv, Writing
<1>5. ASSUME NEW r \in Readers, LoadSeqNum(r)
      PROVE  TypeOK'
  BY <1>5 DEF LoadSeqNum, writerVars, Writing
<1>6. ASSUME NEW r \in Readers, LoadData(r)
      PROVE  TypeOK'
  BY <1>6 DEF LoadData, writerVars
<1>7. ASSUME NEW r \in Readers, Recheck(r)
      PROVE  TypeOK'
  <2>1. result' \in [Readers -> [ok : BOOLEAN, seq : SeqNums, data : Data]]
    <3>1. PICK x \in [ok : BOOLEAN, seq : SeqNums, data : Data] :
            result' = [result EXCEPT ![r] = x]
      <4>1. CASE Unmoved(r)
        <5> WITNESS [ok |-> TRUE, seq |-> newSeqNum[r], data |-> data[r]]
              \in [ok : BOOLEAN, seq : SeqNums, data : Data]
        <5> QED
          BY <1>7, <4>1 DEF Recheck
      <4>2. CASE ~Unmoved(r)
        <5> WITNESS [ok |-> FALSE, seq |-> DIRTY_SEQ_NUM, data |-> data[r]]
              \in [ok : BOOLEAN, seq : SeqNums, data : Data]
        <5> QED
          BY <1>7, <4>2 DEF Recheck
      <4> QED
        BY <4>1, <4>2
    <3> QED
      BY <3>1
  <2>2. lastGood' \in [Readers -> [num : Nat, seq : SeqNums]]
    <3>1. \/ lastGood' = [lastGood EXCEPT ![r] = [num |-> count, seq |-> newSeqNum[r]]]
          \/ lastGood' = lastGood
      BY <1>7 DEF Recheck
    <3> QED
      BY <3>1
  <2>3. rpc' \in [Readers -> {"idle", "load", "check"}]
    BY <1>7 DEF Recheck
  <2> QED
    BY <1>7, <2>1, <2>2, <2>3 DEF Recheck, writerVars
<1>8. CASE UNCHANGED vars
  BY <1>8 DEF vars, writerVars, readerVars
<1> QED
  BY <1>1, <1>2, <1>3, <1>4, <1>5, <1>6, <1>7, <1>8 DEF Next, Writer, Reader

LEMMA PageStep == IInv /\ [Next]_vars => PageInv'
<1> SUFFICES ASSUME TypeOK, PageInv, [Next]_vars
             PROVE  PageInv'
  BY DEF IInv
<1> USE PortAssumption DEF TypeOK, SeqNums, PageInv, Writing
<1>1. CASE InitPort
  BY <1>1 DEF InitPort
<1>2. CASE MarkDirty
  BY <1>2 DEF MarkDirty, Dirty
<1>3. CASE WriteData
  BY <1>3 DEF WriteData
<1>4. CASE PublishMessage
  BY <1>4, NextSeqNumCounts DEF PublishMessage
<1>5. ASSUME NEW r \in Readers, Reader(r)
      PROVE  PageInv'
  BY <1>5 DEF Reader, LoadSeqNum, LoadData, Recheck, writerVars
<1>6. CASE UNCHANGED vars
  BY <1>6 DEF vars, writerVars
<1> QED
  BY <1>1, <1>2, <1>3, <1>4, <1>5, <1>6 DEF Next, Writer

LEMMA ReaderStep ==
  ASSUME NEW r \in Readers
  PROVE  IInv /\ [Next]_vars => ReaderInv(r)'
<1> SUFFICES ASSUME TypeOK, PageInv, ReaderInv(r), [Next]_vars
             PROVE  ReaderInv(r)'
  BY DEF IInv
<1> USE PortAssumption DEF TypeOK, SeqNums, PageInv, ReaderInv, Writing
<1>1. CASE InitPort
  BY <1>1 DEF InitPort, readerVars
<1>2. CASE MarkDirty
  BY <1>2 DEF MarkDirty, Dirty, readerVars
<1>3. CASE WriteData
  BY <1>3 DEF WriteData, readerVars
<1>4. CASE PublishMessage
  BY <1>4, NextSeqNumCounts DEF PublishMessage, readerVars
<1>5. ASSUME NEW s \in Readers, LoadSeqNum(s)
      PROVE  ReaderInv(r)'
  <2>1. CASE s = r
    <3>1. /\ begun'[r] = count /\ count' = count
          /\ newSeqNum'[r] = port.seqNum /\ port' = port
          /\ ~overlap'[r] => ~Writing
          /\ rpc'[r] = "load"
          /\ lastGood' = lastGood
      BY <1>5, <2>1 DEF LoadSeqNum, writerVars
    <3>2. ~Writing /\ count > 0 => port.seqNum # DIRTY_SEQ_NUM
      OBVIOUS
    <3> QED
      BY <3>1, <3>2
  <2>2. CASE s # r
    BY <1>5, <2>2 DEF LoadSeqNum, writerVars
  <2> QED
    BY <2>1, <2>2
<1>6. ASSUME NEW s \in Readers, LoadData(s)
      PROVE  ReaderInv(r)'
  <2>1. CASE s = r
    BY <1>6, <2>1 DEF LoadData, writerVars
  <2>2. CASE s # r
    BY <1>6, <2>2 DEF LoadData, writerVars
  <2> QED
    BY <2>1, <2>2
<1>7. ASSUME NEW s \in Readers, Recheck(s)
      PROVE  ReaderInv(r)'
  <2>1. CASE s = r
    BY <1>7, <2>1 DEF Recheck, Unmoved, writerVars
  <2>2. CASE s # r
    BY <1>7, <2>2 DEF Recheck, writerVars
  <2> QED
    BY <2>1, <2>2
<1>8. CASE UNCHANGED vars
  BY <1>8 DEF vars, writerVars, readerVars
<1> QED
  BY <1>1, <1>2, <1>3, <1>4, <1>5, <1>6, <1>7, <1>8 DEF Next, Writer, Reader

LEMMA NextIInv == IInv /\ [Next]_vars => IInv'
  BY TypeStep, PageStep, ReaderStep DEF IInv

LEMMA Inductive == Spec => []IInv
  BY InitIInv, NextIInv, PTL DEF Spec

-----------------------------------------------------------------------------
(* The page, the writer and the readers hold values of their types: in     *)
(* particular the writer's counter never reaches DIRTY_SEQ_NUM.            *)
THEOREM TypeCorrect == Spec => []TypeOK
<1>1. IInv => TypeOK
  BY DEF IInv
<1> QED
  BY <1>1, Inductive, PTL

(* Numbers equal modulo DIRTY_SEQ_NUM are equal unless the reader was      *)
(* lapped, and then nothing has been published since the read began.       *)
LEMMA UntornIInv == IInv => NoTornRead
<1> SUFFICES ASSUME IInv, NEW r \in Readers, rpc[r] = "check", Unmoved(r)
             PROVE  /\ newSeqNum[r] = count % DIRTY_SEQ_NUM
                    /\ ~Lapped(r) => data[r] = latest
  BY DEF NoTornRead
<1>1. newSeqNum[r] = count % DIRTY_SEQ_NUM
  BY DEF IInv, PageInv, Unmoved
<1>2. newSeqNum[r] = begun[r] % DIRTY_SEQ_NUM
  BY DEF IInv, ReaderInv, Unmoved
<1>3. ASSUME ~Lapped(r)
      PROVE  data[r] = latest
  <2>1. begun[r] \in Int /\ count \in Int /\ begun[r] <= count
    BY PortAssumption DEF IInv, TypeOK, ReaderInv
  <2>2. count - begun[r] < DIRTY_SEQ_NUM
    BY <1>3, <2>1, PortAssumption DEF Lapped
  <2>3. count = begun[r]
    BY <1>1, <1>2, <2>1, <2>2, SameRemainder, PortAssumption
  <2> QED
    BY <2>3 DEF IInv, ReaderInv, Unmoved
<1> QED
  BY <1>1, <1>3

(* No read returns parts of two messages.                                  *)
THEOREM Untorn == Spec => []NoTornRead
  BY UntornIInv, Inductive, PTL

(* No read fails without a write to blame, once there is a message.        *)
THEOREM FailuresHaveCause == Spec => []NoSpuriousFailure
<1>1. IInv => NoSpuriousFailure
  BY DEF IInv, TypeOK, ReaderInv, NoSpuriousFailure, Unmoved
<1> QED
  BY <1>1, Inductive, PTL

DropShows(r) ==
  LET old == lastGood[r]
      new == lastGood'[r]
  IN new.num - old.num < DIRTY_SEQ_NUM =>
       (new.seq - old.seq) % DIRTY_SEQ_NUM = new.num - old.num

(* The numbers of successive successful reads tell how many messages were  *)
(* published in between.                                                   *)
THEOREM DropsVisible == Spec => DropsShow
<1>1. ASSUME IInv, [Next]_vars, NEW r \in Readers
      PROVE  DropShows(r)
  <2> DEFINE old == lastGood[r]
             new == lastGood'[r]
  <2>1. /\ old.num \in Int /\ old.num <= count /\ count \in Int
        /\ old.seq = old.num % DIRTY_SEQ_NUM
    BY <1>1, PortAssumption DEF IInv, TypeOK, ReaderInv
  <2>2. CASE new = old
    <3>1. old.seq - old.seq = 0
      BY <1>1 DEF IInv, TypeOK, SeqNums
    <3>2. 0 % DIRTY_SEQ_NUM = 0
      BY PortAssumption
    <3> QED
      BY <2>1, <2>2, <3>1, <3>2 DEF DropShows
  <2>3. CASE Recheck(r) /\ Unmoved(r)
    <3>1. new = [num |-> count, seq |-> newSeqNum[r]]
      BY <1>1, <2>3 DEF Recheck, IInv, TypeOK
    <3>2. newSeqNum[r] = count % DIRTY_SEQ_NUM
      BY <1>1, <2>3 DEF IInv, PageInv, Unmoved
    <3>3. count - old.num < DIRTY_SEQ_NUM =>
            ((count % DIRTY_SEQ_NUM) - (old.num % DIRTY_SEQ_NUM)) % DIRTY_SEQ_NUM
              = count - old.num
      BY <2>1, RemainderDistance, PortAssumption
    <3> QED
      BY <2>1, <3>1, <3>2, <3>3 DEF DropShows
  <2>4. \/ new = old
        \/ Recheck(r) /\ Unmoved(r)
    <3>1. CASE InitPort \/ MarkDirty \/ WriteData \/ PublishMessage \/ UNCHANGED vars
      BY <3>1 DEF InitPort, MarkDirty, Dirty, WriteData, PublishMessage, vars, readerVars
    <3>2. ASSUME NEW s \in Readers, LoadSeqNum(s) \/ LoadData(s)
          PROVE  new = old
      BY <3>2 DEF LoadSeqNum, LoadData
    <3>3. ASSUME NEW s \in Readers, Recheck(s)
          PROVE  \/ new = old
                 \/ Recheck(r) /\ Unmoved(r)
      BY <1>1, <3>3 DEF Recheck, IInv, TypeOK
    <3> QED
      BY <1>1, <3>1, <3>2, <3>3 DEF Next, Writer, Reader
  <2> QED
    BY <2>2, <2>3, <2>4
<1>2. IInv /\ [Next]_vars =>
        [ \A r \in Readers :
            LET old == lastGood[r]
                new == lastGood'[r]
            IN new.num - old.num < DIRTY_SEQ_NUM =>
                 (new.seq - old.seq) % DIRTY_SEQ_NUM = new.num - old.num ]_vars
  BY <1>1 DEF DropShows
<1> QED
  BY <1>2, Inductive, PTL DEF Spec, DropsShow

-----------------------------------------------------------------------------
LEMMA InitRefines == Init => Published!AbstractInit
  BY DEF Init, Published!AbstractInit

(* Every step of the port is a step of whole-message publication, or none: *)
(* the last store of a write publishes, the second look at the sequence    *)
(* number ends a read.                                                     *)
LEMMA StepRefines ==
  IInv /\ IInv' /\ [Next]_vars => [Published!AbstractNext]_(Published!abstractVars)
<1> DEFINE reading == [r \in Readers |-> rpc[r] # "idle"]
<1> SUFFICES ASSUME IInv, IInv', [Next]_vars
             PROVE  \/ Published!AbstractNext
                    \/ UNCHANGED <<count, latest, reading, begun, result>>
  BY DEF Published!abstractVars
<1> USE DEF Published!AbstractNext
<1>1. CASE InitPort \/ MarkDirty \/ WriteData
  BY <1>1 DEF InitPort, MarkDirty, Dirty, WriteData, readerVars
<1>2. CASE PublishMessage
  <2>1. Published!Publish
    BY <1>2 DEF PublishMessage, readerVars, Published!Publish,
                IInv, TypeOK, PageInv, Writing
  <2> QED
    BY <2>1
<1>3. ASSUME NEW r \in Readers, LoadSeqNum(r)
      PROVE  Published!BeginRead(r)
  <2>1. reading' = [reading EXCEPT ![r] = TRUE]
    BY <1>3 DEF LoadSeqNum, IInv, TypeOK
  <2> QED
    BY <1>3, <2>1 DEF LoadSeqNum, writerVars, Published!BeginRead
<1>4. ASSUME NEW r \in Readers, LoadData(r)
      PROVE  UNCHANGED <<count, latest, reading, begun, result>>
  <2>1. reading' = reading
    BY <1>4 DEF LoadData, IInv, TypeOK
  <2> QED
    BY <1>4, <2>1 DEF LoadData, writerVars
<1>5. ASSUME NEW r \in Readers, Recheck(r)
      PROVE  Published!EndRead(r)
  <2>1. reading' = [reading EXCEPT ![r] = FALSE]
    BY <1>5 DEF Recheck, IInv, TypeOK
  <2>2. data[r] \in Data
    BY DEF IInv, TypeOK
  <2>3. CASE Unmoved(r)
    <3>1. /\ newSeqNum[r] = count % DIRTY_SEQ_NUM
          /\ ~Lapped(r) => data[r] = latest
      BY <1>5, <2>3, UntornIInv DEF NoTornRead, Recheck
    <3>2. count - begun[r] < DIRTY_SEQ_NUM => ~Lapped(r)
      BY PortAssumption DEF Lapped, IInv, TypeOK
    <3>3. Published!Deliver(r)
      BY <1>5, <2>2, <2>3, <3>1, <3>2 DEF Recheck, Published!Deliver
    <3> QED
      BY <1>5, <2>1, <3>3 DEF Recheck, writerVars, Published!EndRead
  <2>4. CASE ~Unmoved(r)
    <3>1. Published!Fail(r)
      BY <1>5, <2>2, <2>4 DEF Recheck, Published!Fail
    <3> QED
      BY <1>5, <2>1, <3>1 DEF Recheck, writerVars, Published!EndRead
  <2> QED
    BY <2>3, <2>4
<1>6. CASE UNCHANGED vars
  BY <1>6 DEF vars, writerVars, readerVars
<1> QED
  BY <1>1, <1>2, <1>3, <1>4, <1>5, <1>6 DEF Next, Writer, Reader

(* The sequence lock implements whole-message publication.                 *)
THEOREM Refinement == Spec => ImplementsPublishedPort
  BY InitRefines, StepRefines, Inductive, PTL
     DEF Spec, ImplementsPublishedPort, Published!AbstractSpec
=============================================================================
