--------------------------- MODULE KeyManagerProofs ---------------------------
(***************************************************************************)
(* Proofs of the safety properties of KeyManager: IInv is inductive,       *)
(* wherever the driver keeps its accounts.                                 *)
(***************************************************************************)
EXTENDS KeyManager, FiniteSetTheorems, TLAPS

FlagsOK == pending \in BOOLEAN /\ patient \in BOOLEAN

LEMMA InitFlags == Init => FlagsOK
  BY Zenon DEF Init, FlagsOK

LEMMA NextFlags == FlagsOK /\ [Next]_vars => FlagsOK'
<1> SUFFICES ASSUME FlagsOK, [Next]_vars
             PROVE  FlagsOK'
  OBVIOUS
<1> USE DEF FlagsOK, choices
<1>1. CASE Client
  BY <1>1, Zenon DEF Client, Ask, Collect, TakeKey, Notify
<1>2. CASE Manager
  BY <1>2, Zenon DEF Manager, WaitCallback, PollRecv, TakeRequest, AllocKey, SendKey,
                     AddUsed, PollSend
<1>3. CASE UNCHANGED vars
  BY <1>3, Zenon DEF vars
<1> QED
  BY <1>1, <1>2, <1>3 DEF Next

(* The rest of the type invariant, and that a chain is in hand only while  *)
(* it is gathered.                                                         *)
Others ==
  /\ requests \in Seq(1 .. MaxChain)
  /\ keysAvail \in Seq(Descriptors) /\ keysUsed \in Seq(Descriptors)
  /\ table \in [Descriptors -> 0 .. PoolSize]
  /\ free \subseteq Descriptors
  /\ pool \subseteq Buffers
  /\ kpc \in {"idle", "recv", "gather", "push", "send"}
  /\ buf \in 0 .. PoolSize
  /\ chain \in 0 .. MaxChain
  /\ answered \in 0 .. RecvLen
  /\ completed \in Nat /\ withheld \in Nat /\ overlaps \in Nat /\ merges \in Nat
  /\ asked \in 0 .. MaxRequests
  /\ kpc \notin {"gather", "push"} => chain = 0

LEMMA TypeSplit ==
  TypeOK /\ (kpc \notin {"gather", "push"} => chain = 0)
    <=> FlagsOK /\ Others /\ shared \subseteq {"free", "pool"}
  BY DEF TypeOK, Others, FlagsOK

LEMMA ConstantsOK ==
  /\ MaxChain \in Nat /\ QueueLen \in Nat /\ PoolSize \in Nat /\ MaxRequests \in Nat
  /\ MaxHasty \in Nat /\ RecvLen \in Nat \ {0}
  BY KeyAssumption
-----------------------------------------------------------------------------
(* The entries of a ring as it grows and shrinks.                          *)
LEMMA Appended ==
  ASSUME NEW S, NEW q \in Seq(S), NEW x \in S
  PROVE  /\ Append(q, x) \in Seq(S)
         /\ Entries(Append(q, x)) = Entries(q) \cup {x}
         /\ Len(Append(q, x)) = Len(q) + 1
<1>1. /\ Append(q, x) \in Seq(S) /\ Len(q) \in Nat
      /\ DOMAIN q = 1 .. Len(q) /\ DOMAIN Append(q, x) = 1 .. Len(q) + 1
      /\ Len(Append(q, x)) = Len(q) + 1
  OBVIOUS
<1>2. \A i \in 1 .. Len(q) + 1 : Append(q, x)[i] = IF i <= Len(q) THEN q[i] ELSE x
  BY <1>1
<1>3. 1 .. Len(q) + 1 = (1 .. Len(q)) \cup {Len(q) + 1}
  BY <1>1
<1> QED
  BY <1>1, <1>2, <1>3 DEF Entries

LEMMA Shortened ==
  ASSUME NEW S, NEW q \in Seq(S), q # <<>>
  PROVE  /\ Tail(q) \in Seq(S)
         /\ Head(q) \in S
         /\ Entries(q) = Entries(Tail(q)) \cup {Head(q)}
         /\ Len(Tail(q)) = Len(q) - 1
<1>1. /\ Len(q) \in Nat \ {0}
      /\ Tail(q) \in Seq(S) /\ Head(q) = q[1] /\ Len(Tail(q)) = Len(q) - 1
      /\ \A i \in 1 .. Len(q) - 1 : Tail(q)[i] = q[i + 1]
      /\ DOMAIN q = 1 .. Len(q) /\ DOMAIN Tail(q) = 1 .. Len(q) - 1
  OBVIOUS
<1>2. \A i \in 1 .. Len(q) :
        i = 1 \/ (i - 1 \in 1 .. Len(q) - 1 /\ q[i] = Tail(q)[i - 1])
  BY <1>1
<1>3. Head(q) \in S
  BY <1>1
<1>4. Entries(q) \subseteq Entries(Tail(q)) \cup {Head(q)}
  <2> SUFFICES ASSUME NEW i \in 1 .. Len(q)
               PROVE  q[i] \in Entries(Tail(q)) \cup {Head(q)}
    BY <1>1 DEF Entries
  <2>1. CASE i = 1
    BY <1>1, <2>1
  <2>2. CASE i # 1
    <3>1. i - 1 \in 1 .. Len(q) - 1 /\ q[i] = Tail(q)[i - 1]
      BY <1>2, <2>2
    <3>2. Tail(q)[i - 1] \in Entries(Tail(q))
      BY <1>1, <3>1 DEF Entries
    <3> QED
      BY <3>1, <3>2
  <2> QED
    BY <2>1, <2>2
<1>5. Entries(Tail(q)) \cup {Head(q)} \subseteq Entries(q)
  <2>1. \A i \in 1 .. Len(q) - 1 : i + 1 \in 1 .. Len(q)
    BY <1>1
  <2>2. 1 \in 1 .. Len(q)
    BY <1>1
  <2> QED
    BY <1>1, <2>1, <2>2 DEF Entries
<1> QED
  BY <1>1, <1>3, <1>4, <1>5

LEMMA NoEntries ==
  ASSUME NEW S, NEW q \in Seq(S)
  PROVE  /\ Entries(q) \subseteq S
         /\ Entries(q) = {} <=> q = <<>>
         /\ Len(q) = 0 <=> q = <<>>
  BY DEF Entries

(* Counting the buffers that are lost.                                     *)
LEMMA Counted ==
  ASSUME NEW S \in SUBSET Buffers
  PROVE  IsFiniteSet(S) /\ Cardinality(S) \in Nat
<1>1. IsFiniteSet(Buffers)
  BY ConstantsOK, FS_Interval DEF Buffers
<1>2. IsFiniteSet(S)
  BY <1>1, FS_Subset
<1> QED
  BY <1>2, FS_CardinalityType

LEMMA NoMoreThan ==
  ASSUME NEW S \in SUBSET Buffers, NEW T \in SUBSET Buffers, T \subseteq S
  PROVE  Cardinality(T) <= Cardinality(S)
  BY Counted, FS_Subset

LEMMA OneMoreThan ==
  ASSUME NEW S \in SUBSET Buffers, NEW T \in SUBSET Buffers, NEW x, T \subseteq S \cup {x}
  PROVE  Cardinality(T) <= Cardinality(S) + 1
<1>1. IsFiniteSet(S) /\ Cardinality(S) \in Nat
  BY Counted
<1>2. /\ IsFiniteSet(S \cup {x})
      /\ Cardinality(S \cup {x}) <= Cardinality(S) + 1
  BY <1>1, FS_AddElement
<1>3. Cardinality(T) <= Cardinality(S \cup {x})
  BY <1>2, FS_Subset
<1> QED
  BY <1>1, <1>2, <1>3, FS_CardinalityType, Counted

LEMMA AllButAtMostOne ==
  ASSUME NEW S \in SUBSET Buffers, NEW x, Buffers \subseteq S \cup {x}
  PROVE  PoolSize <= Cardinality(S) + 1
<1>1. Cardinality(Buffers) = PoolSize
  BY ConstantsOK, FS_Interval DEF Buffers
<1> QED
  BY <1>1, OneMoreThan
-----------------------------------------------------------------------------
LEMMA InitIInv == Init => IInv
<1> SUFFICES ASSUME Init PROVE IInv
  OBVIOUS
<1>1. Others /\ shared \subseteq {"free", "pool"}
  BY ConstantsOK DEF Init, Others, Buffers, Descriptors
<1>2. Outstanding = {} /\ InHand = {} /\ Sent = {} /\ Stranded = {}
  BY DEF Init, Outstanding, Entries, InHand, Sent, Stranded
<1>3. SendInv
  BY <1>2 DEF Init, SendInv, Descriptors
<1>4. BuffersAccounted
  BY <1>2, FS_EmptySet DEF Init, BuffersAccounted
<1>5. MergeInv /\ PatientInv
  BY ConstantsOK DEF Init, MergeInv, PatientInv, One
<1> QED
  BY <1>1, <1>3, <1>4, <1>5, InitFlags, TypeSplit DEF IInv

LEMMA OthersStep == Others /\ SendInv /\ [Next]_vars => Others'
<1> SUFFICES ASSUME Others, SendInv, [Next]_vars
             PROVE  Others'
  OBVIOUS
<1> USE ConstantsOK DEF Others, clientVars, recvVars, sendVars, managerVars, One
<1>1. CASE Ask
  <2>1. asked' \in 0 .. MaxRequests /\ merges' \in Nat
    BY <1>1 DEF Ask, Notify
  <2>2. requests' \in Seq(1 .. MaxChain)
    BY <1>1 DEF Ask
  <2> QED
    BY <1>1, <2>1, <2>2 DEF Ask
<1>2. CASE Collect
  BY <1>2 DEF Collect
<1>3. CASE TakeKey
  <2>1. /\ keysAvail' \in Seq(Descriptors) /\ keysUsed' \in Seq(Descriptors)
    BY <1>3, Shortened, Appended DEF TakeKey
  <2>2. merges' \in Nat
    BY <1>3 DEF TakeKey, Notify
  <2> QED
    BY <1>3, <2>1, <2>2 DEF TakeKey
<1>4. CASE PollRecv
  <2>1. CASE requests # <<>>
    <3>1. Tail(requests) \in Seq(1 .. MaxChain) /\ Head(requests) \in 0 .. MaxChain
      BY <2>1, Shortened
    <3> QED
      BY <1>4, <2>1, <3>1 DEF PollRecv, TakeRequest, RecvReady
  <2>2. CASE requests = <<>>
    BY <1>4, <2>2 DEF PollRecv, TakeRequest, RecvReady
  <2> QED
    BY <2>1, <2>2
<1>5. CASE AllocKey
  <2>1. pool' \subseteq Buffers /\ buf' \in 0 .. PoolSize
    <3>1. CASE pool = {}
      BY <1>5, <3>1 DEF AllocKey
    <3>2. CASE pool # {}
      <4>1. PICK b \in pool : buf' = b /\ pool' = ThroughCopy("pool", pool, pool \ {b})
        BY <1>5, <3>2 DEF AllocKey
      <4>2. b \in 0 .. PoolSize
        BY DEF Buffers
      <4> QED
        BY <4>1, <4>2 DEF ThroughCopy
    <3> QED
      BY <3>1, <3>2
  <2> QED
    BY <1>5, <2>1 DEF AllocKey
<1>6. CASE SendKey
  <2>1. kpc = "push" /\ buf \in Buffers
    BY <1>6 DEF SendKey, SendInv, InHand
  <2>2. CASE free # {} /\ Len(keysAvail) < QueueLen
    <3>1. PICK d \in free : /\ table' = [table EXCEPT ![d] = buf]
                            /\ keysAvail' = Append(keysAvail, d)
                            /\ free' = ThroughCopy("free", free, free \ {d})
      BY <1>6, <2>2 DEF SendKey
    <3>2. keysAvail' \in Seq(Descriptors) /\ free' \subseteq Descriptors
            /\ table' \in [Descriptors -> 0 .. PoolSize]
      BY <3>1, Appended DEF ThroughCopy
    <3> QED
      BY <1>6, <2>2, <3>2 DEF SendKey
  <2>3. CASE ~(free # {} /\ Len(keysAvail) < QueueLen)
    <3>1. pool' = ThroughCopy("pool", pool, pool \cup {buf})
      BY <1>6, <2>3 DEF SendKey, BufferFree
    <3>2. pool' \subseteq Buffers
      BY <2>1, <3>1 DEF ThroughCopy
    <3> QED
      BY <1>6, <2>3, <3>2 DEF SendKey
  <2> QED
    BY <2>2, <2>3
<1>7. CASE WaitCallback
  BY <1>7 DEF WaitCallback
<1>8. CASE AddUsed
  BY <1>8 DEF AddUsed, UsedRingRoom
<1>9. CASE PollSend
  <2>1. CASE keysUsed # <<>>
    <3>1. /\ Tail(keysUsed) \in Seq(Descriptors) /\ Head(keysUsed) \in Descriptors
          /\ Head(keysUsed) \in Entries(keysUsed)
      BY <2>1, Shortened
    <3>2. table[Head(keysUsed)] \in Buffers
      BY <3>1 DEF SendInv, Sent, Outstanding
    <3> QED
      BY <1>9, <2>1, <3>1, <3>2 DEF PollSend, SendReady, BufferFree
  <2>2. CASE keysUsed = <<>>
    BY <1>9, <2>2 DEF PollSend, SendReady
  <2> QED
    BY <2>1, <2>2
<1>10. CASE UNCHANGED vars
  BY <1>10 DEF vars
<1> QED
  BY <1>1, <1>2, <1>3, <1>4, <1>5, <1>6, <1>7, <1>8, <1>9, <1>10 DEF Next, Client, Manager

(* The buffers on their way: what an action that leaves flagger_send alone *)
(* leaves true.                                                            *)
Accounted == SendInv /\ BuffersAccounted

LEMMA SendQuiet ==
  /\ Others /\ Accounted
  /\ UNCHANGED <<keysAvail, keysUsed, table, free, pool, overlaps, shared, buf>>
  /\ kpc = "push" <=> kpc' = "push"
  => Accounted'
<1> SUFFICES ASSUME Others, Accounted, kpc = "push" <=> kpc' = "push",
                    UNCHANGED <<keysAvail, keysUsed, table, free, pool, overlaps, shared, buf>>
             PROVE  Accounted'
  OBVIOUS
<1>1. UNCHANGED <<Outstanding, Sent, InHand>>
  BY DEF Outstanding, Entries, Sent, InHand
<1>2. UNCHANGED Stranded
  BY <1>1 DEF Stranded
<1> QED
  BY <1>1, <1>2 DEF Accounted, SendInv, BuffersAccounted

LEMMA TakeKeyAccounted == Others /\ Accounted /\ TakeKey /\ UNCHANGED shared => Accounted'
<1> SUFFICES ASSUME Others, Accounted, TakeKey, UNCHANGED shared PROVE Accounted'
  OBVIOUS
<1>1. /\ keysAvail \in Seq(Descriptors) /\ keysUsed \in Seq(Descriptors) /\ keysAvail # <<>>
      /\ keysAvail' = Tail(keysAvail) /\ keysUsed' = Append(keysUsed, Head(keysAvail))
      /\ UNCHANGED <<table, free, pool, overlaps, kpc, buf>>
  BY DEF Others, TakeKey, sendVars, managerVars
<1>2. /\ Entries(keysAvail) = Entries(keysAvail') \cup {Head(keysAvail)}
      /\ Len(keysAvail') = Len(keysAvail) - 1
      /\ Entries(keysUsed') = Entries(keysUsed) \cup {Head(keysAvail)}
      /\ Len(keysUsed') = Len(keysUsed) + 1
  BY <1>1, Shortened, Appended
<1>3. Outstanding' = Outstanding
  BY <1>2 DEF Outstanding
<1>4. UNCHANGED <<Sent, InHand>>
  BY <1>1, <1>3 DEF Sent, InHand
<1>5. UNCHANGED Stranded
  BY <1>1, <1>4 DEF Stranded
<1>6. Len(keysAvail') + Len(keysUsed') = Len(keysAvail) + Len(keysUsed)
  BY <1>1, <1>2
<1> QED
  BY <1>1, <1>3, <1>4, <1>5, <1>6 DEF Accounted, SendInv, BuffersAccounted

LEMMA AllocAccounted == Others /\ Accounted /\ AllocKey /\ UNCHANGED shared => Accounted'
<1> SUFFICES ASSUME Others, Accounted, AllocKey, UNCHANGED shared PROVE Accounted'
  OBVIOUS
<1>1. kpc = "gather" /\ UNCHANGED <<keysAvail, keysUsed, table, free, overlaps>>
  BY DEF AllocKey
<1>2. UNCHANGED <<Outstanding, Sent>>
  BY <1>1 DEF Outstanding, Entries, Sent
<1>3. CASE pool # {}
  <2>1. PICK b \in pool : buf' = b /\ pool' = ThroughCopy("pool", pool, pool \ {b})
    BY <1>3 DEF AllocKey
  <2>2. kpc' = "push" /\ InHand = {} /\ InHand' = {b} /\ b \in Buffers
    BY <1>1, <1>3, <2>1 DEF AllocKey, InHand, Others
  <2>3. pool \subseteq pool' \cup InHand' /\ pool' \subseteq pool
    BY <2>1, <2>2 DEF ThroughCopy
  <2>4. Stranded' \subseteq Stranded
    BY <1>2, <2>2, <2>3 DEF Stranded
  <2>5. Cardinality(Stranded') <= Cardinality(Stranded)
    BY <2>4, NoMoreThan DEF Stranded
  <2>6. Cardinality(Stranded') <= overlaps'
    <3>1. Stranded \in SUBSET Buffers /\ Stranded' \in SUBSET Buffers
      BY DEF Stranded
    <3>2. Cardinality(Stranded) \in Nat /\ Cardinality(Stranded') \in Nat
      BY <3>1, Counted
    <3> QED
      BY <1>1, <2>5, <3>2 DEF Accounted, BuffersAccounted, Others
  <2>7. ("pool" \in shared /\ overlaps = 0 => pool \cap (InHand \cup Sent) = {})'
    BY <1>1, <1>2, <2>1, <2>2 DEF Accounted, BuffersAccounted, ThroughCopy
  <2>8. SendInv'
    <3>1. ("pool" \in shared /\ overlaps = 0 => InHand \cap Sent = {})'
      BY <1>1, <1>2, <2>1, <2>2 DEF Accounted, BuffersAccounted
    <3>2. ("pool" \notin shared => pool = Buffers)'
      BY <2>1 DEF Accounted, SendInv, ThroughCopy
    <3>3. (Sent \cup InHand \subseteq Buffers)'
      BY <1>2, <2>2 DEF Accounted, SendInv
    <3> QED
      BY <1>1, <1>2, <3>1, <3>2, <3>3 DEF Accounted, SendInv
  <2> QED
    BY <2>6, <2>7, <2>8 DEF Accounted, BuffersAccounted
<1>4. CASE pool = {}
  <2>1. UNCHANGED <<pool, kpc, buf>>
    BY <1>4 DEF AllocKey
  <2> QED
    BY <1>1, <2>1, SendQuiet
<1> QED
  BY <1>3, <1>4

LEMMA SendAccounted == Others /\ Accounted /\ SendKey /\ UNCHANGED shared => Accounted'
<1> SUFFICES ASSUME Others, Accounted, SendKey, UNCHANGED shared PROVE Accounted'
  OBVIOUS
<1>1. /\ kpc = "push" /\ kpc' = "gather" /\ keysUsed' = keysUsed
      /\ keysAvail \in Seq(Descriptors) /\ keysUsed \in Seq(Descriptors)
      /\ InHand = {buf} /\ InHand' = {} /\ buf \in Buffers
      /\ Cardinality(Stranded) <= overlaps /\ overlaps \in Nat
      /\ Stranded \in SUBSET Buffers /\ Stranded' \in SUBSET Buffers
  BY DEF SendKey, Others, InHand, Accounted, SendInv, BuffersAccounted, Stranded
<1>2. Cardinality(Stranded) \in Nat /\ Cardinality(Stranded') \in Nat
  BY <1>1, Counted
<1>3. CASE free # {} /\ Len(keysAvail) < QueueLen
  <2>1. PICK d \in free : /\ table' = [table EXCEPT ![d] = buf]
                          /\ keysAvail' = Append(keysAvail, d)
                          /\ free' = ThroughCopy("free", free, free \ {d})
    BY <1>3 DEF SendKey
  <2>2. /\ overlaps' = overlaps + One(keysAvail # <<>> \/ keysUsed # <<>>)
        /\ pool' = pool
    BY <1>3 DEF SendKey
  <2>3. d \in Descriptors
    BY DEF Others
  <2>4. /\ Entries(keysAvail') = Entries(keysAvail) \cup {d}
        /\ Len(keysAvail') = Len(keysAvail) + 1
    BY <1>1, <2>1, <2>3, Appended
  <2>5. Outstanding' = Outstanding \cup {d}
    BY <1>1, <2>4 DEF Outstanding
  <2>6. Outstanding \subseteq Descriptors
    BY <1>1, NoEntries DEF Outstanding
  <2>7. \A e \in Descriptors : table'[e] = IF e = d THEN buf ELSE table[e]
    BY <2>1, <2>3 DEF Others
  <2>8. Sent' = {table[e] : e \in Outstanding \ {d}} \cup {buf}
    BY <2>5, <2>6, <2>7, <2>3 DEF Sent
  <2>9. SendInv'
    <3>1. (Descriptors \ Outstanding \subseteq free)'
      BY <2>1, <2>5 DEF Accounted, SendInv, ThroughCopy
    <3>2. (Sent \cup InHand \subseteq Buffers)'
      BY <1>1, <2>8 DEF Accounted, SendInv, Sent
    <3>3. (overlaps = 0 => Len(keysAvail) + Len(keysUsed) <= 1)'
      BY <1>1, <2>2, <2>4 DEF One
    <3>4. (/\ "pool" \notin shared => pool = Buffers
           /\ "pool" \in shared /\ overlaps = 0 => InHand \cap Sent = {})'
      BY <1>1, <2>2 DEF Accounted, SendInv
    <3> QED
      BY <3>1, <3>2, <3>3, <3>4 DEF SendInv
  <2>10. CASE Outstanding = {}
    <3>1. Sent = {} /\ Sent' = {buf}
      BY <2>8, <2>10 DEF Sent
    <3>2. Stranded' \subseteq Stranded
      BY <1>1, <2>2, <3>1 DEF Stranded
    <3>3. overlaps' = overlaps
      BY <1>1, <2>2, <2>10, NoEntries DEF One, Outstanding
    <3>4. Cardinality(Stranded') <= overlaps'
      BY <1>1, <1>2, <3>2, <3>3, NoMoreThan
    <3>5. pool' \cap (InHand' \cup Sent') = pool \cap (InHand \cup Sent)
      BY <1>1, <2>2, <3>1
    <3> QED
      BY <2>9, <3>3, <3>4, <3>5 DEF Accounted, BuffersAccounted
  <2>11. CASE Outstanding # {}
    <3>1. Stranded' \subseteq Stranded \cup {table[d]}
      BY <1>1, <2>2, <2>8 DEF Stranded, Sent
    <3>2. overlaps' = overlaps + 1
      BY <1>1, <2>2, <2>11, NoEntries DEF One, Outstanding
    <3>3. Cardinality(Stranded') <= overlaps'
      <4>1. Cardinality(Stranded') <= Cardinality(Stranded) + 1
        BY <1>1, <3>1, OneMoreThan
      <4> QED
        BY <1>1, <1>2, <3>2, <4>1
    <3>4. overlaps' # 0
      BY <1>1, <3>2
    <3> QED
      BY <2>9, <3>3, <3>4 DEF Accounted, BuffersAccounted
  <2> QED
    BY <2>10, <2>11
<1>4. CASE ~(free # {} /\ Len(keysAvail) < QueueLen)
  <2>1. /\ UNCHANGED <<table, keysAvail, free, overlaps>>
        /\ pool' = ThroughCopy("pool", pool, pool \cup {buf})
    BY <1>4 DEF SendKey, BufferFree
  <2>2. UNCHANGED <<Outstanding, Sent>>
    BY <1>1, <2>1 DEF Outstanding, Entries, Sent
  <2>3. Stranded' \subseteq Stranded
    BY <1>1, <2>1, <2>2 DEF Stranded, ThroughCopy, Accounted, SendInv
  <2>4. Cardinality(Stranded') <= overlaps'
    BY <1>1, <1>2, <2>1, <2>3, NoMoreThan
  <2>5. ("pool" \in shared /\ overlaps = 0 => pool \cap (InHand \cup Sent) = {})'
    BY <1>1, <2>1, <2>2 DEF Accounted, SendInv, BuffersAccounted, ThroughCopy
  <2>6. SendInv'
    BY <1>1, <2>1, <2>2 DEF Accounted, SendInv, ThroughCopy
  <2> QED
    BY <2>4, <2>5, <2>6 DEF Accounted, BuffersAccounted
<1> QED
  BY <1>3, <1>4

LEMMA PollSendAccounted == Others /\ Accounted /\ PollSend /\ UNCHANGED shared => Accounted'
<1> SUFFICES ASSUME Others, Accounted, PollSend, UNCHANGED shared PROVE Accounted'
  OBVIOUS
<1>1. /\ kpc = "send" /\ kpc' = "idle" /\ InHand = {} /\ InHand' = {}
      /\ UNCHANGED <<keysAvail, table, overlaps, buf>>
      /\ keysAvail \in Seq(Descriptors) /\ keysUsed \in Seq(Descriptors)
  BY DEF PollSend, InHand, Others
<1>2. CASE keysUsed # <<>>
  <2> DEFINE d == Head(keysUsed)
  <2>1. /\ keysUsed' = Tail(keysUsed)
        /\ free' = free \cup {d}
        /\ pool' = pool \cup {table[d]}
    BY <1>2 DEF PollSend, SendReady, BufferFree
  <2>2. /\ Entries(keysUsed) = Entries(keysUsed') \cup {d}
        /\ Len(keysUsed') = Len(keysUsed) - 1
    BY <1>1, <1>2, <2>1, Shortened
  <2>3. Outstanding = Outstanding' \cup {d}
    BY <1>1, <2>2 DEF Outstanding, Entries
  <2>4. Sent = Sent' \cup {table[d]}
    BY <1>1, <2>3 DEF Sent
  <2>5. Stranded' \subseteq Stranded /\ Stranded \in SUBSET Buffers /\ Stranded' \in SUBSET Buffers
    BY <1>1, <2>1, <2>4 DEF Stranded
  <2>6. Cardinality(Stranded') <= overlaps'
    <3>1. Cardinality(Stranded) \in Nat /\ Cardinality(Stranded') \in Nat
      BY <2>5, Counted
    <3> QED
      BY <1>1, <2>5, <3>1, NoMoreThan DEF Accounted, BuffersAccounted, Others
  <2>7. overlaps = 0 => Len(keysAvail') + Len(keysUsed') = 0
    <3>1. Len(keysUsed) \in Nat /\ Len(keysAvail) \in Nat /\ Len(keysUsed) # 0
      BY <1>1, <1>2, NoEntries
    <3> QED
      BY <1>1, <2>2, <3>1 DEF Accounted, SendInv
  <2>8. keysUsed' \in Seq(Descriptors) /\ keysAvail' = keysAvail
    BY <1>1, <1>2, <2>1, Shortened
  <2>9. overlaps = 0 => Outstanding' = {} /\ Sent' = {}
    <3> SUFFICES ASSUME overlaps = 0 PROVE Outstanding' = {} /\ Sent' = {}
      OBVIOUS
    <3>1. Len(keysAvail') \in Nat /\ Len(keysUsed') \in Nat
      BY <1>1, <2>8
    <3>2. Len(keysAvail') = 0 /\ Len(keysUsed') = 0
      BY <2>7, <3>1
    <3>3. Entries(keysAvail') = {} /\ Entries(keysUsed') = {}
      <4>1. keysAvail' \in Seq(Descriptors)
        BY <1>1, <2>8
      <4> QED
        BY <2>8, <3>2, <4>1, NoEntries
    <3> QED
      BY <3>3 DEF Outstanding, Sent
  <2>10. SendInv'
    <3> HIDE DEF d
    <3>1. table[d] \in Buffers
      BY <2>4 DEF Accounted, SendInv
    <3> QED
      BY <1>1, <2>1, <2>3, <2>4, <2>7, <2>9, <3>1 DEF Accounted, SendInv, Others
  <2> QED
    BY <1>1, <2>6, <2>9, <2>10 DEF Accounted, BuffersAccounted
<1>3. CASE keysUsed = <<>>
  <2>1. UNCHANGED <<keysUsed, free, pool>>
    BY <1>3 DEF PollSend, SendReady
  <2> QED
    BY <1>1, <2>1, SendQuiet
<1> QED
  BY <1>2, <1>3

LEMMA SendStep == Others /\ Accounted /\ [Next]_vars => Accounted'
<1> SUFFICES ASSUME Others, Accounted, [Next]_vars
             PROVE  Accounted'
  OBVIOUS
<1>1. UNCHANGED shared
  BY DEF Next, Client, Manager, vars, choices
<1>2. CASE Ask \/ Collect
  BY <1>1, <1>2, SendQuiet DEF Ask, Collect, sendVars, managerVars
<1>3. CASE TakeKey
  BY <1>1, <1>3, TakeKeyAccounted
<1>4. CASE WaitCallback \/ PollRecv \/ AddUsed
  BY <1>1, <1>4, SendQuiet DEF WaitCallback, PollRecv, TakeRequest, AddUsed, sendVars
<1>5. CASE AllocKey
  BY <1>1, <1>5, AllocAccounted
<1>6. CASE SendKey
  BY <1>1, <1>6, SendAccounted
<1>7. CASE PollSend
  BY <1>1, <1>7, PollSendAccounted
<1>8. CASE UNCHANGED vars
  BY <1>1, <1>8, SendQuiet DEF vars, sendVars, managerVars
<1> QED
  BY <1>2, <1>3, <1>4, <1>5, <1>6, <1>7, <1>8 DEF Next, Client, Manager

LEMMA MergeStep == FlagsOK /\ Others /\ MergeInv /\ [Next]_vars => MergeInv'
<1> SUFFICES ASSUME FlagsOK, Others, MergeInv, [Next]_vars
             PROVE  MergeInv'
  OBVIOUS
<1>1. Len(requests) \in Nat /\ merges \in Nat /\ pending \in BOOLEAN
  BY DEF Others, FlagsOK
<1> USE DEF MergeInv, One, clientVars, recvVars, managerVars
<1>2. CASE Ask
  <2>1. Len(requests') = Len(requests) + 1
    BY <1>2 DEF Ask, Others
  <2> QED
    BY <1>1, <1>2, <2>1 DEF Ask, Notify
<1>3. CASE Collect
  BY <1>3 DEF Collect
<1>4. CASE TakeKey
  BY <1>1, <1>4 DEF TakeKey, Notify
<1>5. CASE WaitCallback
  BY <1>1, <1>5 DEF WaitCallback
<1>6. CASE PollRecv
  <2>1. CASE requests # <<>>
    <3>1. Len(requests') = Len(requests) - 1
      BY <1>6, <2>1, Shortened DEF PollRecv, TakeRequest, RecvReady, Others
    <3> QED
      BY <1>1, <1>6, <3>1 DEF PollRecv, TakeRequest
  <2>2. CASE requests = <<>>
    <3>1. Len(requests') = 0
      BY <1>6, <2>2 DEF PollRecv, TakeRequest, RecvReady
    <3> QED
      BY <1>1, <1>6, <2>2, <3>1 DEF PollRecv, TakeRequest, RecvReady
  <2> QED
    BY <2>1, <2>2
<1>7. CASE AllocKey \/ SendKey \/ AddUsed \/ PollSend
  BY <1>1, <1>7 DEF AllocKey, SendKey, AddUsed, PollSend
<1>8. CASE UNCHANGED vars
  BY <1>8 DEF vars
<1> QED
  BY <1>2, <1>3, <1>4, <1>5, <1>6, <1>7, <1>8 DEF Next, Client, Manager

(* When a patient client's key is to be sent, there is a descriptor for    *)
(* it; and when there is no buffer for it, all but one have been lost.     *)
LEMMA DescriptorLeft ==
  ASSUME Others, SendInv, Served, keysAvail = <<>>, Len(keysUsed) <= 1
  PROVE  free # {} /\ Len(keysAvail) < QueueLen
<1>1. Len(keysAvail) = 0 /\ QueueLen >= 2 /\ keysUsed \in Seq(Descriptors)
  BY DEF Served, Others
<1>2. 1 \in Descriptors /\ 2 \in Descriptors
  BY <1>1, ConstantsOK DEF Descriptors
<1>3. Outstanding = Entries(keysUsed)
  BY DEF Outstanding, Entries
<1>4. ~(1 \in Outstanding /\ 2 \in Outstanding)
  BY <1>1, <1>3 DEF Entries
<1> QED
  BY <1>1, <1>2, <1>4, ConstantsOK DEF SendInv

LEMMA LostBefore ==
  ASSUME Others, Accounted, kpc = "gather", pool = {}, Len(keysAvail) + Len(keysUsed) <= 1
  PROVE  overlaps >= PoolSize - 1
<1>1. /\ keysAvail \in Seq(Descriptors) /\ keysUsed \in Seq(Descriptors)
      /\ Len(keysAvail) \in Nat /\ Len(keysUsed) \in Nat /\ overlaps \in Nat
  BY DEF Others
<1>2. \E d : Outstanding \subseteq {d}
  <2>1. CASE Len(keysUsed) = 0
    BY <1>1, <2>1 DEF Outstanding, Entries
  <2>2. CASE Len(keysUsed) # 0
    BY <1>1, <2>2 DEF Outstanding, Entries
  <2> QED
    BY <2>1, <2>2
<1>3. PICK d : Outstanding \subseteq {d}
  BY <1>2
<1>4. Sent \subseteq {table[d]} /\ InHand = {}
  BY <1>3 DEF Sent, InHand
<1>5. Buffers \subseteq Stranded \cup {table[d]} /\ Stranded \in SUBSET Buffers
  BY <1>4 DEF Stranded
<1>6. PoolSize <= Cardinality(Stranded) + 1 /\ Cardinality(Stranded) \in Nat
  BY <1>5, AllButAtMostOne, Counted
<1> QED
  BY <1>1, <1>6, ConstantsOK DEF Accounted, BuffersAccounted

LEMMA PatientStep ==
  Others /\ Accounted /\ PatientInv /\ Served /\ [Next]_vars => PatientInv'
<1> SUFFICES ASSUME Others, Accounted, PatientInv, Served, [Next]_vars
             PROVE  PatientInv'
  OBVIOUS
<1>1. Len(keysAvail) \in Nat /\ Len(keysUsed) \in Nat /\ patient
  BY DEF Others, Served
<1> USE ConstantsOK
        DEF Others, PatientInv, One, clientVars, recvVars, sendVars, managerVars
<1>2. CASE Ask
  BY <1>1, <1>2 DEF Ask
<1>3. CASE Collect
  BY <1>3 DEF Collect
<1>4. CASE TakeKey
  <2>1. /\ Len(keysAvail') = Len(keysAvail) - 1 /\ Len(keysUsed') = Len(keysUsed) + 1
    BY <1>4, Shortened, Appended DEF TakeKey
  <2>2. requests' = <<>>
    BY <1>4 DEF TakeKey
  <2> QED
    BY <1>1, <1>4, <2>1, <2>2 DEF TakeKey
<1>5. CASE WaitCallback
  BY <1>5 DEF WaitCallback
<1>6. CASE PollRecv
  <2>1. CASE requests # <<>>
    <3>1. /\ Tail(requests) \in Seq({1}) /\ Head(requests) \in {1}
          /\ Len(Tail(requests)) = Len(requests) - 1
      BY <2>1, Shortened
    <3> QED
      BY <1>1, <1>6, <2>1, <3>1 DEF PollRecv, TakeRequest, RecvReady
  <2>2. CASE requests = <<>>
    BY <1>1, <1>6, <2>2 DEF PollRecv, TakeRequest, RecvReady
  <2> QED
    BY <2>1, <2>2
<1>7. CASE AllocKey
  <2>1. CASE pool # {}
    BY <1>7, <2>1 DEF AllocKey
  <2>2. CASE pool = {}
    <3>1. kpc = "gather" /\ chain >= 1
      BY <1>7 DEF AllocKey
    <3>2. Len(keysAvail) + Len(keysUsed) <= 1
      BY <1>1, <3>1
    <3>3. overlaps >= PoolSize - 1
      BY <2>2, <3>1, <3>2, LostBefore
    <3> QED
      BY <1>1, <1>7, <2>2, <3>3 DEF AllocKey
  <2> QED
    BY <2>1, <2>2
<1>8. CASE SendKey
  <2>1. kpc = "push" /\ keysAvail = <<>> /\ Len(keysUsed) <= 1
    <3>1. kpc = "push"
      BY <1>8 DEF SendKey
    <3>2. Len(keysAvail) = 0
      BY <1>1, <3>1
    <3> QED
      BY <1>1, <3>1, <3>2, NoEntries
  <2>2. free # {} /\ Len(keysAvail) < QueueLen
    BY <2>1, DescriptorLeft DEF Accounted
  <2>3. /\ \E d \in free : keysAvail' = Append(keysAvail, d)
        /\ overlaps' = overlaps + One(keysAvail # <<>> \/ keysUsed # <<>>)
        /\ UNCHANGED <<withheld, chain, keysUsed, requests, answered, completed, asked>>
        /\ kpc' = "gather"
    BY <1>8, <2>2 DEF SendKey
  <2>4. Len(keysAvail') = Len(keysAvail) + 1
    BY <2>3, Appended
  <2>5. answered = 0 /\ requests = <<>>
    <3>1. Len(requests) = 0 /\ answered = 0
      BY <2>1
    <3> QED
      BY <3>1, NoEntries
  <2> QED
    BY <1>1, <2>1, <2>3, <2>4, <2>5
<1>9. CASE AddUsed
  BY <1>9 DEF AddUsed, UsedRingRoom
<1>10. CASE PollSend
  <2>1. CASE keysUsed # <<>>
    <3>1. Len(keysUsed') = Len(keysUsed) - 1
      BY <1>10, <2>1, Shortened DEF PollSend, SendReady
    <3> QED
      BY <1>1, <1>10, <2>1, <3>1 DEF PollSend
  <2>2. CASE keysUsed = <<>>
    <3>1. Len(keysUsed) = 0 /\ keysUsed' = keysUsed
      BY <1>10, <2>2 DEF PollSend, SendReady
    <3> QED
      BY <1>1, <1>10, <3>1 DEF PollSend
  <2> QED
    BY <2>1, <2>2
<1>11. CASE UNCHANGED vars
  BY <1>11 DEF vars
<1> QED
  BY <1>2, <1>3, <1>4, <1>5, <1>6, <1>7, <1>8, <1>9, <1>10, <1>11 DEF Next, Client, Manager

LEMMA Invariant == Spec => []IInv
<1>1. Init => IInv
  BY InitIInv
<1>2. IInv /\ [Next]_vars => IInv'
  <2>1. [Next]_vars => (Served' => Served) /\ shared' = shared
    BY DEF Next, Client, Manager, vars, choices, Served
  <2>2. IInv => FlagsOK /\ Others /\ Accounted /\ shared \subseteq {"free", "pool"}
    BY TypeSplit DEF IInv, Accounted
  <2>3. (TypeOK /\ (kpc \notin {"gather", "push"} => chain = 0))'
          <=> (FlagsOK /\ Others /\ shared \subseteq {"free", "pool"})'
    BY DEF TypeOK, FlagsOK, Others
  <2> QED
    BY <2>1, <2>2, <2>3, NextFlags, OthersStep, SendStep, MergeStep, PatientStep
       DEF IInv, Accounted
<1> QED
  BY <1>1, <1>2, PTL DEF Spec

(* Type correctness of the key manager and its queues: no free call gets   *)
(* anything but a buffer of the pool, and no ring is overrun.              *)
THEOREM TypeCorrect == Spec => []TypeOK
<1>1. IInv => TypeOK
  BY DEF IInv
<1> QED
  BY Invariant, <1>1, PTL

(* A buffer of flagger_send is lost only by a key sent before an earlier   *)
(* one was freed, wherever the driver keeps its accounts and whatever      *)
(* fails.                                                                  *)
THEOREM LossesBounded == Spec => []BuffersAccounted
<1>1. IInv => BuffersAccounted
  BY DEF IInv
<1> QED
  BY Invariant, <1>1, PTL

(* msg_wait_callback leaves a request behind only for a merged             *)
(* notification.                                                           *)
THEOREM NothingElseLeftBehind == Spec => []LeftBehindByMerge
<1>1. IInv => LeftBehindByMerge
  BY TypeSplit DEF IInv, MergeInv, LeftBehindByMerge, One, Others
<1> QED
  BY Invariant, <1>1, PTL

(* issue_key fails a patient client only after as many such keys as there  *)
(* are buffers but one.                                                    *)
THEOREM PatientClientServed == Spec => []PatientServed
<1>1. IInv => PatientServed
  BY DEF IInv, PatientInv, PatientServed
<1> QED
  BY Invariant, <1>1, PTL
=============================================================================
