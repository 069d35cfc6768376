--------------------------- MODULE VmAttestProofs ---------------------------
(***************************************************************************)
(* The assembly is correct for any guest memory, any limits and any number *)
(* of requests.  First the handshake: IntrospectManager keeps it, and so   *)
(* what the VM side may rely on (HandshakeProofs) holds of the assembly.   *)
(* Then the measurement: ManagerInv, one step lemma for each part of       *)
(* run(), and the theorems about the copy, the report, the heap and halts. *)
(***************************************************************************)
EXTENDS VmAttest, FiniteSetTheorems, TLAPS

LEMMA InitKeeps == Init => Contract!HandshakeInit
  BY DEF Init, ManagerInit, ConnectionsInit, CrossVmInit, managerState,
         Contract!HandshakeInit, Contract!ConnectionsInit, Contract!CrossVmInit

(* Every step of the assembly is a step of the handshake, or none of it.   *)
LEMMA StepKeeps == [Next]_vars => [Contract!HandshakeNext]_(Contract!handshakeVars)
<1> SUFFICES ASSUME [Next]_vars
             PROVE  \/ Contract!HandshakeNext
                    \/ UNCHANGED <<managerState, ready, done, begun, acked, guestVars>>
  BY DEF Contract!handshakeVars, Contract!guestVars, guestVars
<1> USE DEF Contract!HandshakeNext
<1>1. CASE Vm
  <2>1. UNCHANGED managerState
    BY <1>1 DEF Vm, managerVars, managerState
  <2>2. Contract!CrossVmNext
    BY <1>1 DEF Vm, CrossVmNext, GuestEmit, SysIpaToPa, Resume, GuestWait, ConsumeCallback,
                TakeDone, GuestWake,
                Contract!CrossVmNext, Contract!GuestEmit, Contract!SysIpaToPa,
                Contract!Resume, Contract!GuestWait, Contract!ConsumeCallback,
                Contract!TakeDone, Contract!GuestWake
  <2> QED
    BY <2>1, <2>2
<1>2. CASE GuestStore
  BY <1>2 DEF GuestStore, StoreToMemory, managerVars, managerState
<1>3. CASE ReadyWait /\ UNCHANGED guestVars
  <2>1. managerState = "waiting" /\ managerState' = "measuring"
    BY <1>3 DEF ReadyWait, managerState
  <2>2. Contract!BeginPass
    BY <1>3, <2>1 DEF ReadyWait, TakeReady, guestVars, Contract!BeginPass, Contract!guestVars
  <2> QED
    BY <2>2
<1>4. CASE /\ CopyByte \/ AllocateHeaders \/ Scan \/ ScanDone \/ ReadTables \/ PrintELF
              \/ NextLoop \/ FreeTables
           /\ UNCHANGED guestVars
  <2>1. UNCHANGED <<ready, done, begun, acked>>
    BY <1>4 DEF CopyByte, AllocateHeaders, Scan, ScanDone, ReadTables, PrintELF,
                NextLoop, FreeTables, outside
  <2>2. managerState = "measuring" /\ managerState' \in {"measuring", "halted"}
    BY <1>4 DEF CopyByte, AllocateHeaders, Scan, ScanDone, ReadTables, PrintELF,
                NextLoop, FreeTables, Halt, managerState
  <2>3. CASE managerState' = "measuring"
    BY <1>4, <2>1, <2>2, <2>3
  <2>4. CASE managerState' = "halted"
    BY <1>4, <2>1, <2>2, <2>4 DEF Contract!EndPass, Contract!guestVars, guestVars
  <2> QED
    BY <2>2, <2>3, <2>4
<1>5. CASE FreeHeaders /\ UNCHANGED guestVars
  <2>1. managerState = "measuring" /\ managerState' = "underlying"
    BY <1>5 DEF FreeHeaders, managerState
  <2>2. Contract!EndPass
    BY <1>5, <2>1 DEF FreeHeaders, outside, Contract!EndPass, Contract!guestVars, guestVars
  <2> QED
    BY <2>2
<1>6. CASE DoneEmitUnderlying /\ UNCHANGED guestVars
  <2>1. managerState = "underlying" /\ managerState' = "emit"
    BY <1>6 DEF DoneEmitUnderlying, managerState
  <2>2. Contract!SignalUnderlying
    BY <1>6, <2>1 DEF DoneEmitUnderlying, Contract!SignalUnderlying,
                      Contract!guestVars, guestVars
  <2> QED
    BY <2>2
<1>7. CASE DoneEmit /\ UNCHANGED guestVars
  <2>1. managerState = "emit" /\ managerState' = "waiting"
    BY <1>7 DEF DoneEmit, managerState
  <2>2. Contract!SignalAgain
    BY <1>7, <2>1 DEF DoneEmit, Contract!SignalAgain, Contract!guestVars, guestVars
  <2> QED
    BY <2>2
<1>8. CASE UNCHANGED vars
  BY <1>8 DEF vars, managerVars, managerState
<1> QED
  BY <1>1, <1>2, <1>3, <1>4, <1>5, <1>6, <1>7, <1>8 DEF Next, Manager, ManagerNext

(* IntrospectManager's loop implements the handshake.                      *)
THEOREM ManagerKeepsHandshake == Spec => KeepsHandshake
  BY InitKeeps, StepKeeps, PTL DEF Spec, KeepsHandshake, Contract!HandshakeSpec

-----------------------------------------------------------------------------
Proved == INSTANCE HandshakeProofs WITH manager <- managerState

LEMMA SameSpec == KeepsHandshake => Proved!HandshakeSpec
<1>1. Contract!HandshakeInit => Proved!HandshakeInit
  BY DEF Contract!HandshakeInit, Contract!ConnectionsInit, Contract!CrossVmInit,
         Proved!HandshakeInit, Proved!ConnectionsInit, Proved!CrossVmInit
<1>2. [Contract!HandshakeNext]_(Contract!handshakeVars)
        => [Proved!HandshakeNext]_(Proved!handshakeVars)
  BY DEF Contract!HandshakeNext, Contract!BeginPass, Contract!EndPass,
         Contract!SignalUnderlying, Contract!SignalAgain, Contract!CrossVmNext,
         Contract!GuestEmit, Contract!SysIpaToPa, Contract!Resume, Contract!GuestWait,
         Contract!ConsumeCallback, Contract!TakeDone, Contract!GuestWake,
         Contract!handshakeVars, Contract!guestVars,
         Proved!HandshakeNext, Proved!BeginPass, Proved!EndPass,
         Proved!SignalUnderlying, Proved!SignalAgain, Proved!CrossVmNext,
         Proved!GuestEmit, Proved!SysIpaToPa, Proved!Resume, Proved!GuestWait,
         Proved!ConsumeCallback, Proved!TakeDone, Proved!GuestWake,
         Proved!handshakeVars, Proved!guestVars
<1> QED
  BY <1>1, <1>2, PTL DEF KeepsHandshake, Contract!HandshakeSpec, Proved!HandshakeSpec

LEMMA AssemblyKeepsHandshakeInv ==
  Spec => [](Proved!HandshakeInv /\ PassesNeedRequests /\ AtMostTwoWakesPerPass
               /\ FifthWakeIsFresh)
<1>1. Proved!RequestsAssumption
  BY RequestsAssumption DEF RequestsAssumption, Proved!RequestsAssumption
<1>2. Proved!HandshakeInv => PassesNeedRequests /\ AtMostTwoWakesPerPass /\ FifthWakeIsFresh
  BY <1>1, Proved!HandshakeInvSuffices
     DEF PassesNeedRequests, AtMostTwoWakesPerPass, FifthWakeIsFresh,
         Proved!PassesNeedRequests, Proved!AtMostTwoWakesPerPass, Proved!FifthWakeIsFresh
<1>3. Proved!HandshakeSpec => []Proved!HandshakeInv
  BY <1>1, Proved!HandshakeInvariant, PTL
<1> QED
  BY <1>2, <1>3, ManagerKeepsHandshake, SameSpec, PTL

(* In the whole assembly no pass runs without a request of its own.        *)
THEOREM PassesRequested == Spec => []PassesNeedRequests
  BY AssemblyKeepsHandshakeInv, PTL

(* A pass wakes the guest program at most twice.                           *)
THEOREM WakesBounded == Spec => []AtMostTwoWakesPerPass
  BY AssemblyKeepsHandshakeInv, PTL

(* The fifth wake-up after a request comes from a pass begun after it.     *)
THEOREM FifthWakeAnswers == Spec => []FifthWakeIsFresh
  BY AssemblyKeepsHandshakeInv, PTL
-----------------------------------------------------------------------------
(* The measurement.  What follows holds for every memory of the guest,     *)
(* every interleaving of its stores with the copy, and all limits.         *)

(* Blocks run() itself allocates for the tables of an image.               *)
Need(e) == SectionTableBlocks(e.header) + ProgramTableBlocks(e.header)

(* s[k] is what the tables of the first k images need.                     *)
Sums(s, n) ==
  /\ s[0] = 0
  /\ \A k \in 1 .. n : s[k] = s[k - 1] + Need(ELFList[k])
  /\ \A j, k \in 0 .. n : j <= k => s[j] <= s[k]

(* Up to position n of the copy ELFList has the accepted images, in order. *)
Reported(n) ==
  /\ \A k \in DOMAIN ELFList :
       LET e == ELFList[k]
       IN /\ e.at < n /\ MatchELFHeader(e.at) /\ Accepted(e.at)
          /\ e.header = Header(LinuxMem, e.at)
          /\ \A j \in 1 .. k - 1 : ELFList[j].at < e.at
  /\ \A c \in 1 .. n - 1 :
       MatchELFHeader(c) /\ Accepted(c) => \E k \in DOMAIN ELFList : ELFList[k].at = c

(* The two tables of one image at their largest.                           *)
LargestTables == 2 * (1 + ListSize)

(* The images whose tables have been found to fit.                         *)
Fitting(n) == \A k \in 1 .. n : TablesFit(ELFList[k].header)

CopyInv == mpc = "copy" => \A c \in Addresses : memdev[c] \in held[c]

ScanInv ==
  mpc = "scan" =>
    /\ Reported(cursor)
    /\ Len(ELFList) < cursor
    /\ tables = 0
    /\ numGoodELFs = 0

(* Every header of ELFList is there, or the heap is full.                  *)
HeadersInv ==
  /\ mpc \in {"scan", "tables", "print", "clean", "halted"} => headers <= HeadersUpperBound
  /\ mpc = "scan" => headers = HeadersUpperBound \/ headers + printed = HeapCap

LoopInv ==
  mpc \in {"tables", "print", "clean"} =>
    /\ Reported(Copied + 1)
    /\ Len(ELFList) <= Copied
    /\ cursor <= Len(ELFList) + 1
    /\ mpc = "tables" => numGoodELFs = 0
    /\ mpc = "print" => numGoodELFs < cursor

TablesInv ==
  /\ mpc = "tables" =>
       /\ Fitting(cursor - 1)
       /\ tables <= (cursor - 1) * LargestTables
       /\ \E s \in [0 .. cursor - 1 -> Nat] : Sums(s, cursor - 1) /\ tables = s[cursor - 1]
  /\ mpc = "print" =>
       /\ Fitting(Len(ELFList))
       /\ tables <= Len(ELFList) * LargestTables
       /\ \E s \in [0 .. Len(ELFList) -> Nat] : Sums(s, Len(ELFList)) /\ tables = s[Len(ELFList)]
  /\ mpc = "clean" =>
       \E s \in [0 .. Len(ELFList) -> Nat] :
         Sums(s, Len(ELFList)) /\ tables = s[Len(ELFList)] - s[cursor - 1]

FreedInv ==
  mpc \in {"wait", "copy", "underlying", "emit"} => headers = 0 /\ tables = 0

ManagerInv ==
  /\ ManagerTypeOK
  /\ CopyInv /\ SnapshotFresh
  /\ ScanInv /\ HeadersInv /\ LoopInv /\ TablesInv /\ FreedInv
  /\ HaltedBeyondLimits

LEMMA Limits ==
  /\ Copied \in Nat /\ HeadersUpperBound \in Nat /\ ListSize \in Nat /\ HeapCap \in Nat
  /\ ByteRange \in Nat \ {0}
  BY ManagerAssumption DEF ManagerAssumption

LEMMA HeaderRead ==
  ASSUME ManagerTypeOK, NEW c \in Addresses
  PROVE  Header(LinuxMem, c) \in Headers
<1>1. LinuxMem \in Memories
  BY DEF ManagerTypeOK
<1> QED
  BY <1>1, ManagerAssumption, Zenon DEF ManagerAssumption

LEMMA HeaderTyped ==
  ASSUME NEW h \in Headers
  PROVE  /\ h.shnum \in Nat /\ h.phnum \in Nat /\ h.shstrndx \in Nat /\ h.named \in Nat
         /\ NumEntries(h.shnum) \in Nat /\ NumEntries(h.phnum) \in Nat
         /\ SectionTableBlocks(h) \in Nat /\ ProgramTableBlocks(h) \in Nat
<1>1. h.shnum \in Nat /\ h.phnum \in Nat /\ h.shstrndx \in Nat /\ h.named \in Nat
  BY DEF Headers
<1>2. \A n \in Nat : NumEntries(n) \in Nat
  BY Limits DEF NumEntries
<1> QED
  BY <1>1, <1>2 DEF SectionTableBlocks, ProgramTableBlocks

(* What one image can cost at most, if its tables fit.                     *)
LEMMA NeedBounded ==
  ASSUME NEW h \in Headers, TablesFit(h)
  PROVE  /\ SectionTableBlocks(h) \in 1 .. 1 + ListSize
         /\ ProgramTableBlocks(h) \in 1 .. 1 + ListSize
  BY HeaderTyped, Limits DEF TablesFit, SectionTableBlocks, ProgramTableBlocks

LEMMA Multiply ==
  ASSUME NEW a \in Nat, NEW b \in Nat, NEW c \in Nat, NEW d \in Nat, a <= c, b <= d
  PROVE  a * b \in Nat /\ a * b <= c * d
<1>1. a * b <= c * b
  OBVIOUS
<1>2. c * b <= c * d
  OBVIOUS
<1> QED
  BY <1>1, <1>2

LEMMA PrintBounded ==
  ASSUME NEW h \in Headers, TablesFit(h)
  PROVE  PrintBlocks(h) \in Nat /\ PrintBlocks(h) <= LargestPrint
<1> DEFINE entries == NumEntries(h.shnum)
           printing == 1 + PrintedSections(h)
           section == SectionTableBlocks(h)
<1>1. /\ h.named \in Nat /\ entries \in Nat /\ entries <= ListSize
  BY HeaderTyped DEF TablesFit
<1>2. printing \in Nat /\ printing <= 1 + ListSize
  BY <1>1, Limits DEF PrintedSections, Good
<1>3. section \in Nat /\ section <= 1 + ListSize
  BY NeedBounded, Limits
<1>4. printing * section \in Nat /\ printing * section <= (1 + ListSize) * (1 + ListSize)
  <2> HIDE DEF printing, section
  <2> QED
    BY <1>2, <1>3, Multiply, Limits
<1>5. ProgramTableBlocks(h) \in Nat /\ ProgramTableBlocks(h) <= 1 + ListSize
  BY NeedBounded, Limits
<1>6. LargestPrint = (1 + ListSize) + (1 + ListSize) * (1 + ListSize)
  BY Limits DEF LargestPrint
<1>7. (1 + ListSize) * (1 + ListSize) \in Nat
  BY Limits
<1>8. PrintBlocks(h) = ProgramTableBlocks(h) + printing * section
  BY DEF PrintBlocks
<1> HIDE DEF printing, section
<1> QED
  BY <1>4, <1>5, <1>6, <1>7, <1>8, Limits

(* Images found at increasing places are as many as there are such places. *)
LEMMA DistinctPlaces ==
  ASSUME NEW n \in Nat, NEW place \in [1 .. n -> Images],
         \A k \in 1 .. n : \A j \in 1 .. k - 1 : place[j] < place[k]
  PROVE  n <= Cardinality(Images)
<1>1. IsFiniteSet(Addresses) /\ IsFiniteSet(1 .. n) /\ Cardinality(1 .. n) = n
  BY Limits, FS_Interval DEF Addresses
<1>2. IsFiniteSet(Images)
  BY <1>1, FS_Subset DEF Images
<1>3. \A k \in 1 .. n : place[k] \in Int
  BY Limits DEF Images, Addresses
<1>4. \A j, k \in 1 .. n : place[j] = place[k] => j = k
  BY <1>3
<1>5. place \in Injection(1 .. n, Images)
  BY <1>4, Zenon DEF Injection, IsInjective
<1> QED
  BY <1>1, <1>2, <1>5, FS_Injection

LEMMA ImagesCounted == IsFiniteSet(Images) /\ Cardinality(Images) \in Nat
<1>1. IsFiniteSet(Addresses)
  BY Limits, FS_Interval DEF Addresses
<1>2. IsFiniteSet(Images)
  BY <1>1, FS_Subset DEF Images
<1> QED
  BY <1>2, FS_CardinalityType

LEMMA InitManagerInv == Init => ManagerInv
<1> SUFFICES ASSUME Init PROVE ManagerInv
  OBVIOUS
<1>1. ManagerTypeOK
  <2>1. LinuxMem \in Memories
    BY ManagerAssumption DEF Init, ManagerInit, ManagerAssumption, Memories
  <2>2. ELFList = <<>> /\ ELFList \in Seq([at : Addresses, header : Headers])
    BY DEF Init, ManagerInit
  <2>3. held \in [Addresses -> SUBSET Bytes]
    BY DEF Init, ManagerInit
  <2>4. Live <= HeapCap /\ {headers, tables, printed} \subseteq Nat
    BY Limits DEF Init, ManagerInit, Live
  <2> QED
    BY <2>1, <2>2, <2>3, <2>4, Limits DEF Init, ManagerInit, ManagerTypeOK
<1> QED
  BY <1>1 DEF Init, ManagerInit, ManagerInv, CopyInv, SnapshotFresh, ScanInv, HeadersInv,
              LoopInv, TablesInv, FreedInv, HaltedBeyondLimits

(* What is said of the copy and the tables stays true while they stay.     *)
LEMMA Unmoved == ManagerInv /\ UNCHANGED <<managerVars, memdev, held>> => ManagerInv'
<1> SUFFICES ASSUME ManagerInv, UNCHANGED <<managerVars, memdev, held>>
             PROVE  ManagerInv'
  OBVIOUS
<1>1. UNCHANGED <<mpc, uncopied, LinuxMem, cursor, ELFList, numGoodELFs,
                  headers, tables, printed, memdev, held>>
  BY DEF managerVars
<1> USE <1>1 DEF ManagerInv
<1>2. ManagerTypeOK'
  BY DEF ManagerTypeOK, Live
<1>3. CopyInv' /\ SnapshotFresh' /\ HeadersInv' /\ FreedInv'
  BY DEF CopyInv, SnapshotFresh, HeadersInv, FreedInv
<1>4. ScanInv'
  BY DEF ScanInv, Reported, MatchELFHeader, Accepted
<1>5. LoopInv'
  BY DEF LoopInv, Reported, MatchELFHeader, Accepted
<1>6. TablesInv'
  BY DEF TablesInv, Sums, Need, Fitting
<1>7. HaltedBeyondLimits'
  BY DEF HaltedBeyondLimits, Images
<1> QED
  BY <1>2, <1>3, <1>4, <1>5, <1>6, <1>7

LEMMA StoreKeepsInv == ManagerInv /\ GuestStore => ManagerInv'
<1> SUFFICES ASSUME ManagerInv, NEW c \in Addresses, NEW v \in Bytes, StoreToMemory(c, v)
             PROVE  ManagerInv'
  BY DEF GuestStore
<1>1. UNCHANGED <<mpc, uncopied, LinuxMem, cursor, ELFList, numGoodELFs,
                  headers, tables, printed>>
  BY DEF StoreToMemory, managerVars
<1>2. memdev' = [memdev EXCEPT ![c] = v]
  BY DEF StoreToMemory
<1>3. held' = IF mpc = "copy" THEN [held EXCEPT ![c] = held[c] \cup {v}] ELSE held
  BY DEF StoreToMemory
<1>4. memdev \in Memories /\ held \in [Addresses -> SUBSET Bytes]
  BY DEF ManagerInv, ManagerTypeOK
<1>5. memdev' \in Memories /\ held' \in [Addresses -> SUBSET Bytes]
  BY <1>2, <1>3, <1>4 DEF Memories
<1>6. \A d \in Addresses : held[d] \subseteq held'[d]
  BY <1>3, <1>4
<1>7. ManagerTypeOK'
  BY <1>1, <1>5 DEF ManagerInv, ManagerTypeOK, Live
<1>8. CopyInv'
  BY <1>1, <1>2, <1>3, <1>4 DEF ManagerInv, CopyInv
<1>9. SnapshotFresh'
  BY <1>1, <1>6 DEF ManagerInv, SnapshotFresh
<1> USE <1>1 DEF ManagerInv
<1>10. HeadersInv' /\ FreedInv'
  BY DEF HeadersInv, FreedInv
<1>11. ScanInv'
  BY DEF ScanInv, Reported, MatchELFHeader, Accepted
<1>12. LoopInv'
  BY DEF LoopInv, Reported, MatchELFHeader, Accepted
<1>13. TablesInv'
  BY DEF TablesInv, Sums, Need, Fitting
<1>14. HaltedBeyondLimits'
  BY DEF HaltedBeyondLimits, Images
<1> QED
  BY <1>7, <1>8, <1>9, <1>10, <1>11, <1>12, <1>13, <1>14

LEMMA CopyKeepsInv ==
  ManagerInv /\ (ReadyWait \/ CopyByte \/ AllocateHeaders) => ManagerInv'
<1> SUFFICES ASSUME ManagerInv, ReadyWait \/ CopyByte \/ AllocateHeaders
             PROVE  ManagerInv'
  OBVIOUS
<1>1. ManagerTypeOK
  BY DEF ManagerInv
<1>2. mpc \in {"wait", "copy"} /\ mpc' \in {"copy", "scan"}
  BY DEF ReadyWait, CopyByte, AllocateHeaders
<1>3. headers = 0 /\ tables = 0
  BY <1>2 DEF ManagerInv, FreedInv
<1>4. LoopInv' /\ TablesInv' /\ HaltedBeyondLimits'
  BY <1>2 DEF LoopInv, TablesInv, HaltedBeyondLimits
<1>5. CASE ReadyWait
  <2>1. /\ mpc' = "copy" /\ uncopied' = Addresses
        /\ held' = [c \in Addresses |-> {memdev[c]}]
        /\ UNCHANGED <<memdev, LinuxMem, cursor, ELFList, numGoodELFs, headers, tables, printed>>
    BY <1>5 DEF ReadyWait, ToCopy
  <2>2. ManagerTypeOK'
    BY <1>1, <2>1 DEF ManagerTypeOK, Live, Memories
  <2>3. CopyInv' /\ SnapshotFresh' /\ ScanInv' /\ HeadersInv' /\ FreedInv'
    BY <1>3, <2>1 DEF CopyInv, SnapshotFresh, ScanInv, HeadersInv, FreedInv
  <2> QED
    BY <1>4, <2>2, <2>3 DEF ManagerInv
<1>6. CASE CopyByte
  <2>1. PICK c \in uncopied : /\ LinuxMem' = [LinuxMem EXCEPT ![c] = memdev[c]]
                              /\ uncopied' = uncopied \ {c}
    BY <1>6 DEF CopyByte
  <2>2. /\ mpc = "copy" /\ mpc' = "copy"
        /\ UNCHANGED <<memdev, held, cursor, ELFList, numGoodELFs, headers, tables, printed>>
    BY <1>6 DEF CopyByte, outside
  <2>3. c \in Addresses /\ memdev[c] \in Bytes
    BY <1>1, <2>1 DEF ManagerTypeOK, Memories
  <2>4. ManagerTypeOK'
    BY <1>1, <2>1, <2>2, <2>3 DEF ManagerTypeOK, Live, Memories
  <2>5. CopyInv'
    BY <2>2 DEF ManagerInv, CopyInv
  <2>6. SnapshotFresh'
    <3> SUFFICES ASSUME NEW d \in Addresses \ uncopied'
                 PROVE  LinuxMem'[d] \in held[d]
      BY <2>2 DEF SnapshotFresh
    <3>1. CASE d = c
      BY <1>1, <2>1, <2>2, <2>3, <3>1 DEF ManagerInv, CopyInv, ManagerTypeOK, Memories
    <3>2. CASE d # c
      BY <1>1, <2>1, <2>2, <3>2 DEF ManagerInv, SnapshotFresh, ManagerTypeOK, Memories
    <3> QED
      BY <3>1, <3>2
  <2>7. ScanInv' /\ HeadersInv' /\ FreedInv'
    BY <1>3, <2>2 DEF ScanInv, HeadersInv, FreedInv
  <2> QED
    BY <1>4, <2>4, <2>5, <2>6, <2>7 DEF ManagerInv
<1>7. CASE AllocateHeaders
  <2>1. /\ mpc = "copy" /\ uncopied = {} /\ mpc' = "scan"
        /\ headers' = IF Room < HeadersUpperBound THEN Room ELSE HeadersUpperBound
        /\ cursor' = 1 /\ ELFList' = <<>> /\ numGoodELFs' = 0
        /\ UNCHANGED <<memdev, held, uncopied, LinuxMem, tables, printed>>
    BY <1>7 DEF AllocateHeaders, outside, HeaderSlots
  <2>2. printed \in Nat /\ printed <= HeapCap /\ Room = HeapCap - printed
    BY <1>1, <1>3, Limits DEF ManagerTypeOK, Live, Room
  <2>3. /\ headers' \in Nat /\ headers' <= HeadersUpperBound
        /\ headers' + printed <= HeapCap
        /\ headers' = HeadersUpperBound \/ headers' + printed = HeapCap
    BY <2>1, <2>2, Limits
  <2>4. Live' <= HeapCap
    BY <1>3, <2>1, <2>2, <2>3, Limits DEF Live
  <2>5. ELFList' \in Seq([at : Addresses, header : Headers]) /\ Len(ELFList') = 0
          /\ DOMAIN ELFList' = {}
    BY <2>1
  <2>6. ManagerTypeOK'
    BY <1>1, <1>3, <2>1, <2>2, <2>3, <2>4, <2>5, Limits DEF ManagerTypeOK
  <2>7. CopyInv' /\ SnapshotFresh'
    BY <2>1 DEF ManagerInv, CopyInv, SnapshotFresh
  <2>8. ScanInv'
    BY <1>3, <2>1, <2>5 DEF ScanInv, Reported
  <2>9. HeadersInv' /\ FreedInv'
    BY <2>1, <2>3 DEF HeadersInv, FreedInv
  <2> QED
    BY <1>4, <2>6, <2>7, <2>8, <2>9 DEF ManagerInv
<1> QED
  BY <1>5, <1>6, <1>7

(* Appending to a sequence of elements of S.                               *)
LEMMA ListGrows ==
  ASSUME NEW S, NEW list \in Seq(S), NEW e \in S
  PROVE  /\ Len(list) \in Nat /\ DOMAIN list = 1 .. Len(list)
         /\ \A k \in 1 .. Len(list) : list[k] \in S
         /\ Append(list, e) \in Seq(S)
         /\ Len(Append(list, e)) = Len(list) + 1
         /\ DOMAIN Append(list, e) = 1 .. Len(list) + 1
         /\ \A k \in 1 .. Len(list) : Append(list, e)[k] = list[k]
         /\ Append(list, e)[Len(list) + 1] = e
  OBVIOUS

(* The headers found so far lie at different images of the copy.           *)
LEMMA FoundImages ==
  ASSUME ManagerTypeOK, NEW n, Reported(n), n \in 1 .. Copied + 1
  PROVE  /\ [k \in 1 .. Len(ELFList) |-> ELFList[k].at] \in [1 .. Len(ELFList) -> Images]
         /\ \A k \in 1 .. Len(ELFList) :
              /\ ELFList[k].at \in Images /\ ELFList[k].at < n
              /\ ELFList[k].header \in Headers
              /\ ELFList[k].header = Header(LinuxMem, ELFList[k].at)
              /\ \A j \in 1 .. k - 1 : ELFList[j].at < ELFList[k].at
         /\ Len(ELFList) \in Nat /\ Len(ELFList) <= Cardinality(Images)
<1>1. ELFList \in Seq([at : Addresses, header : Headers])
  BY DEF ManagerTypeOK
<1>2. Len(ELFList) \in Nat /\ DOMAIN ELFList = 1 .. Len(ELFList)
  BY <1>1
<1>3. \A k \in 1 .. Len(ELFList) : ELFList[k] \in [at : Addresses, header : Headers]
  <2> DEFINE Found == [at : Addresses, header : Headers]
  <2>1. ELFList \in Seq(Found)
    BY <1>1
  <2> HIDE DEF Found
  <2>2. \A k \in 1 .. Len(ELFList) : ELFList[k] \in Found
    BY <2>1
  <2> QED
    BY <2>2 DEF Found
<1>4. \A k \in 1 .. Len(ELFList) :
        /\ ELFList[k].at \in Images /\ ELFList[k].at < n
        /\ ELFList[k].header \in Headers
        /\ ELFList[k].header = Header(LinuxMem, ELFList[k].at)
        /\ \A j \in 1 .. k - 1 : ELFList[j].at < ELFList[k].at
  BY <1>2, <1>3 DEF Reported, Images, MatchELFHeader
<1> DEFINE place == [k \in 1 .. Len(ELFList) |-> ELFList[k].at]
<1>5. place \in [1 .. Len(ELFList) -> Images]
  BY <1>4
<1>6. \A k \in 1 .. Len(ELFList) : \A j \in 1 .. k - 1 : place[j] < place[k]
  BY <1>2, <1>4
<1>7. Len(ELFList) <= Cardinality(Images)
  <2> HIDE DEF place
  <2> QED
    BY <1>2, <1>5, <1>6, DistinctPlaces
<1> QED
  BY <1>2, <1>4, <1>5, <1>7

(* An image that has no slot in ELFList is one too many, or the heap was   *)
(* too full for the slot to be allocated.                                  *)
LEMMA NoSlot ==
  ASSUME ManagerInv, mpc = "scan", cursor <= Copied,
         MatchELFHeader(cursor), Len(ELFList) >= headers
  PROVE  \/ Cardinality(Images) > HeadersUpperBound
         \/ HeapCap < HeadersUpperBound + Cardinality(Images) * 2 * (1 + ListSize)
                        + printed + LargestPrint
<1> DEFINE n == Len(ELFList)
           place == [k \in 1 .. n + 1 |-> IF k <= n THEN ELFList[k].at ELSE cursor]
<1>1. ManagerTypeOK /\ Reported(cursor) /\ cursor \in 1 .. Copied
  BY Limits DEF ManagerInv, ScanInv, ManagerTypeOK
<1>2. \A k \in 1 .. n : /\ ELFList[k].at \in Images /\ ELFList[k].at < cursor
                        /\ \A j \in 1 .. k - 1 : ELFList[j].at < ELFList[k].at
  BY <1>1, FoundImages, Limits
<1>3. n \in Nat /\ n <= Cardinality(Images)
  BY <1>1, FoundImages, Limits
<1>4. cursor \in Images
  BY <1>1 DEF Images, Addresses, MatchELFHeader
<1>5. n + 1 \in Nat /\ place \in [1 .. n + 1 -> Images]
  <2>1. \A k \in 1 .. n + 1 : k <= n => k \in 1 .. n
    BY <1>3
  <2> QED
    BY <1>2, <1>3, <1>4, <2>1
<1>6. \A k \in 1 .. n + 1 : \A j \in 1 .. k - 1 : place[j] < place[k]
  <2> SUFFICES ASSUME NEW k \in 1 .. n + 1, NEW j \in 1 .. k - 1 PROVE place[j] < place[k]
    OBVIOUS
  <2>1. j \in 1 .. n /\ place[j] = ELFList[j].at
    BY <1>3
  <2>2. CASE k \in 1 .. n
    BY <1>2, <2>1, <2>2, <1>3
  <2>3. CASE k = n + 1
    BY <1>2, <2>1, <2>3, <1>3
  <2> QED
    BY <1>3, <2>2, <2>3
<1>7. n + 1 <= Cardinality(Images)
  <2> HIDE DEF place, n
  <2> QED
    BY <1>5, <1>6, DistinctPlaces
<1>8. headers \in Nat /\ printed \in Nat /\ n >= headers
  BY <1>1 DEF ManagerTypeOK
<1>9. CASE headers = HeadersUpperBound
  <2>2. Cardinality(Images) \in Nat
    BY ImagesCounted
  <2>3. Cardinality(Images) > HeadersUpperBound
    <3> HIDE DEF place
    <3> QED
      BY <1>3, <1>7, <1>8, <1>9, <2>2, Limits
  <2> QED
    BY <2>3
<1>10. CASE headers + printed = HeapCap
  <2>2. Cardinality(Images) \in Nat
    BY ImagesCounted
  <2>3. Cardinality(Images) * 2 * (1 + ListSize) \in Nat
    BY <2>2, Limits
  <2>4. LargestPrint \in Nat /\ LargestPrint > 0
    <3>1. (1 + ListSize) * (1 + ListSize) \in Nat
      BY Limits
    <3>2. LargestPrint = (1 + ListSize) + (1 + ListSize) * (1 + ListSize)
      BY Limits DEF LargestPrint
    <3> QED
      BY <3>1, <3>2, Limits
  <2>5. headers <= HeadersUpperBound
    BY DEF ManagerInv, HeadersInv
  <2> HIDE DEF n, place
  <2> QED
    BY <1>8, <1>10, <2>3, <2>4, <2>5, Limits
<1> QED
  BY <1>9, <1>10 DEF ManagerInv, HeadersInv

(* A halt leaves everything as it was found.                               *)
LEMMA HaltKeepsInv ==
  ASSUME ManagerInv, Halt, UNCHANGED outside, mpc \in {"scan", "tables", "print"},
         HaltedBeyondLimits'
  PROVE  ManagerInv'
<1>1. /\ mpc' = "halted"
      /\ UNCHANGED <<uncopied, LinuxMem, cursor, ELFList, numGoodELFs,
                     headers, tables, printed, memdev, held>>
  BY DEF Halt, outside
<1>2. ManagerTypeOK'
  BY <1>1 DEF ManagerInv, ManagerTypeOK, Live
<1>3. CopyInv' /\ SnapshotFresh' /\ ScanInv' /\ LoopInv' /\ TablesInv' /\ FreedInv'
  BY <1>1 DEF CopyInv, SnapshotFresh, ScanInv, LoopInv, TablesInv, FreedInv
<1>4. HeadersInv'
  BY <1>1 DEF ManagerInv, HeadersInv
<1> QED
  BY <1>2, <1>3, <1>4 DEF ManagerInv

LEMMA ScanKeepsInv == ManagerInv /\ Scan => ManagerInv'
<1> SUFFICES ASSUME ManagerInv, Scan PROVE ManagerInv'
  OBVIOUS
<1>1. /\ ManagerTypeOK /\ mpc = "scan" /\ cursor \in 1 .. Copied /\ Len(ELFList) < cursor
      /\ Reported(cursor) /\ tables = 0 /\ numGoodELFs = 0
  BY Limits DEF ManagerInv, ManagerTypeOK, ScanInv, Scan
<1>2. CASE MatchELFHeader(cursor) /\ Len(ELFList) >= headers
  <2>1. Halt /\ UNCHANGED outside
    BY <1>2 DEF Scan
  <2>2. HaltedBeyondLimits'
    <3>1. UNCHANGED <<LinuxMem, printed>>
      BY <2>1 DEF Halt
    <3>2. Images' = Images
      BY <3>1 DEF Images
    <3> QED
      BY <1>1, <1>2, <3>1, <3>2, NoSlot DEF HaltedBeyondLimits
  <2> QED
    BY <1>1, <2>1, <2>2, HaltKeepsInv
<1>3. CASE ~(MatchELFHeader(cursor) /\ Len(ELFList) >= headers)
  <2> DEFINE e == [at |-> cursor, header |-> Header(LinuxMem, cursor)]
             hit == MatchELFHeader(cursor) /\ Accepted(cursor)
  <2>1. /\ cursor' = cursor + 1
        /\ ELFList' = IF hit THEN Append(ELFList, e) ELSE ELFList
        /\ UNCHANGED <<mpc, uncopied, LinuxMem, numGoodELFs, headers, tables, printed,
                       memdev, held>>
    BY <1>3 DEF Scan, outside
  <2>2. e \in [at : Addresses, header : Headers]
    <3>1. cursor \in Addresses
      BY <1>1, Limits DEF ManagerTypeOK, Addresses
    <3>2. Header(LinuxMem, cursor) \in Headers
      BY <1>1, <3>1, HeaderRead
    <3> QED
      BY <3>1, <3>2
  <2>3. ELFList \in Seq([at : Addresses, header : Headers])
    BY <1>1 DEF ManagerTypeOK
  <2>4. /\ ELFList' \in Seq([at : Addresses, header : Headers])
        /\ Len(ELFList') \in Nat /\ Len(ELFList) \in Nat
        /\ Len(ELFList) <= Len(ELFList') /\ Len(ELFList') <= Len(ELFList) + 1
        /\ DOMAIN ELFList' = 1 .. Len(ELFList')
        /\ DOMAIN ELFList = 1 .. Len(ELFList)
        /\ \A k \in 1 .. Len(ELFList) : ELFList'[k] = ELFList[k]
        /\ \A k \in 1 .. Len(ELFList) : ELFList[k] \in [at : Addresses, header : Headers]
        /\ hit => Len(ELFList') = Len(ELFList) + 1 /\ ELFList'[Len(ELFList) + 1] = e
    <3> DEFINE Found == [at : Addresses, header : Headers]
    <3> HIDE DEF e, hit
    <3> SUFFICES /\ ELFList' \in Seq(Found)
                 /\ Len(ELFList') \in Nat /\ Len(ELFList) \in Nat
                 /\ Len(ELFList) <= Len(ELFList') /\ Len(ELFList') <= Len(ELFList) + 1
                 /\ DOMAIN ELFList' = 1 .. Len(ELFList')
                 /\ DOMAIN ELFList = 1 .. Len(ELFList)
                 /\ \A k \in 1 .. Len(ELFList) : ELFList'[k] = ELFList[k]
                 /\ \A k \in 1 .. Len(ELFList) : ELFList[k] \in Found
                 /\ hit => /\ Len(ELFList') = Len(ELFList) + 1
                           /\ ELFList'[Len(ELFList) + 1] = e
      OBVIOUS
    <3>1. ELFList \in Seq(Found) /\ e \in Found
      BY <2>2, <2>3
    <3> HIDE DEF Found
    <3>2. CASE hit
      <4>1. ELFList' = Append(ELFList, e)
        BY <2>1, <3>2
      <4>2. /\ Len(ELFList) \in Nat /\ DOMAIN ELFList = 1 .. Len(ELFList)
            /\ \A k \in 1 .. Len(ELFList) : ELFList[k] \in Found
            /\ ELFList' \in Seq(Found)
            /\ Len(ELFList') = Len(ELFList) + 1
            /\ DOMAIN ELFList' = 1 .. Len(ELFList) + 1
            /\ \A k \in 1 .. Len(ELFList) : ELFList'[k] = ELFList[k]
            /\ ELFList'[Len(ELFList) + 1] = e
        BY <3>1, <4>1, ListGrows
      <4>3. /\ Len(ELFList') \in Nat /\ Len(ELFList) <= Len(ELFList')
            /\ Len(ELFList') <= Len(ELFList) + 1
        BY <4>2
      <4> QED
        BY <4>2, <4>3, Zenon
    <3>3. CASE ~hit
      <4>1. ELFList' = ELFList
        BY <2>1, <3>3
      <4>2. /\ Len(ELFList) \in Nat /\ DOMAIN ELFList = 1 .. Len(ELFList)
            /\ \A k \in 1 .. Len(ELFList) : ELFList[k] \in Found
        BY <3>1, ListGrows
      <4>3. Len(ELFList) <= Len(ELFList) /\ Len(ELFList) <= Len(ELFList) + 1
        BY <4>2
      <4> QED
        BY <3>1, <3>3, <4>1, <4>2, <4>3, Zenon
    <3> QED
      BY <3>2, <3>3
  <2>5. ManagerTypeOK'
    BY <1>1, <2>1, <2>4, Limits DEF ManagerTypeOK, Live
  <2>6. CopyInv' /\ SnapshotFresh' /\ HeadersInv' /\ LoopInv' /\ TablesInv' /\ FreedInv'
          /\ HaltedBeyondLimits'
    BY <1>1, <2>1 DEF ManagerInv, CopyInv, SnapshotFresh, HeadersInv, LoopInv, TablesInv,
                      FreedInv, HaltedBeyondLimits
  <2>7. /\ \A k \in 1 .. Len(ELFList) :
             /\ ELFList[k].at < cursor /\ MatchELFHeader(ELFList[k].at)
             /\ Accepted(ELFList[k].at)
             /\ ELFList[k].header = Header(LinuxMem, ELFList[k].at)
             /\ \A j \in 1 .. k - 1 : ELFList[j].at < ELFList[k].at
        /\ \A c \in 1 .. cursor - 1 :
             MatchELFHeader(c) /\ Accepted(c) =>
               \E k \in 1 .. Len(ELFList) : ELFList[k].at = c
    BY <1>1, <2>4 DEF Reported
  <2>8. \A k \in 1 .. Len(ELFList) : ELFList[k].at \in Addresses
    BY <2>4
  <2>9. Reported(cursor)'
    <3>1. CASE hit
      <4>1. /\ Len(ELFList') = Len(ELFList) + 1
            /\ ELFList'[Len(ELFList) + 1] = e
        BY <2>4, <3>1
      <4>2. ASSUME NEW k \in 1 .. Len(ELFList')
            PROVE  /\ ELFList'[k].at < cursor' /\ MatchELFHeader(ELFList'[k].at)
                   /\ Accepted(ELFList'[k].at)
                   /\ ELFList'[k].header = Header(LinuxMem, ELFList'[k].at)
                   /\ \A j \in 1 .. k - 1 : ELFList'[j].at < ELFList'[k].at
        <5>1. CASE k \in 1 .. Len(ELFList)
          <6>1. \A j \in 1 .. k - 1 : j \in 1 .. Len(ELFList) /\ ELFList'[j] = ELFList[j]
            <7>1. Len(ELFList) \in Nat /\ \A j \in 1 .. Len(ELFList) : ELFList'[j] = ELFList[j]
              BY <2>4
            <7> QED
              BY <5>1, <7>1
          <6> QED
            BY <1>1, <2>1, <2>4, <2>7, <2>8, <5>1, <6>1, Limits DEF Addresses
        <5>2. CASE k = Len(ELFList) + 1
          <6>1. \A j \in 1 .. k - 1 : j \in 1 .. Len(ELFList) /\ ELFList'[j] = ELFList[j]
            <7>1. Len(ELFList) \in Nat /\ \A j \in 1 .. Len(ELFList) : ELFList'[j] = ELFList[j]
              BY <2>4
            <7> QED
              BY <5>2, <7>1
          <6>2. ELFList'[k].at = cursor /\ ELFList'[k].header = Header(LinuxMem, cursor)
            BY <4>1, <5>2
          <6> QED
            BY <1>1, <2>1, <2>7, <3>1, <6>1, <6>2
        <5> QED
          BY <2>4, <4>1, <5>1, <5>2
      <4>3. ASSUME NEW c \in 1 .. cursor, MatchELFHeader(c), Accepted(c)
            PROVE  \E k \in 1 .. Len(ELFList') : ELFList'[k].at = c
        <5>1. CASE c = cursor
          <6>1. Len(ELFList) + 1 \in 1 .. Len(ELFList')
            BY <2>4, <4>1
          <6> QED
            BY <4>1, <5>1, <6>1
        <5>2. CASE c # cursor
          <6>1. c \in 1 .. cursor - 1
            BY <5>2, <1>1
          <6>2. PICK k \in 1 .. Len(ELFList) : ELFList[k].at = c
            BY <2>7, <4>3, <6>1
          <6>3. k \in 1 .. Len(ELFList') /\ ELFList'[k].at = c
            <7>1. /\ Len(ELFList) \in Nat /\ Len(ELFList') = Len(ELFList) + 1
                  /\ \A j \in 1 .. Len(ELFList) : ELFList'[j] = ELFList[j]
              BY <2>4, <4>1
            <7> QED
              BY <6>2, <7>1
          <6> QED
            BY <6>3
        <5> QED
          BY <5>1, <5>2
      <4>4. cursor' - 1 = cursor
        BY <1>1, <2>1
      <4> QED
        BY <2>1, <2>4, <4>2, <4>3, <4>4 DEF Reported, MatchELFHeader, Accepted
    <3>2. CASE ~hit
      <4>1. ELFList' = ELFList /\ cursor' - 1 = cursor
        BY <1>1, <2>1, <3>2
      <4>2. \A c \in 1 .. cursor : MatchELFHeader(c) /\ Accepted(c) => c \in 1 .. cursor - 1
        BY <1>1, <3>2
      <4>3. \A k \in 1 .. Len(ELFList) : ELFList[k].at < cursor'
        BY <1>1, <2>1, <2>7, <2>8 DEF Addresses
      <4> QED
        BY <2>1, <2>4, <2>7, <4>1, <4>2, <4>3 DEF Reported, MatchELFHeader, Accepted
    <3> QED
      BY <3>1, <3>2
  <2>10. ScanInv'
    <3>1. Len(ELFList') < cursor'
      BY <1>1, <2>1, <2>4
    <3> QED
      BY <1>1, <2>1, <2>9, <3>1 DEF ScanInv
  <2> QED
    BY <2>5, <2>6, <2>10 DEF ManagerInv
<1> QED
  BY <1>2, <1>3

LEMMA ScanDoneKeepsInv == ManagerInv /\ ScanDone => ManagerInv'
<1> SUFFICES ASSUME ManagerInv, ScanDone PROVE ManagerInv'
  OBVIOUS
<1>1. /\ ManagerTypeOK /\ mpc = "scan" /\ cursor = Copied + 1 /\ Len(ELFList) < cursor
      /\ Reported(cursor) /\ tables = 0 /\ numGoodELFs = 0
  BY Limits DEF ManagerInv, ManagerTypeOK, ScanInv, ScanDone
<1>2. /\ mpc' = "tables" /\ cursor' = 1
      /\ UNCHANGED <<uncopied, LinuxMem, ELFList, numGoodELFs, headers, tables, printed,
                     memdev, held>>
  BY DEF ScanDone, outside
<1>3. Len(ELFList) \in Nat
  BY <1>1 DEF ManagerTypeOK
<1>4. ManagerTypeOK'
  BY <1>1, <1>2, Limits DEF ManagerTypeOK, Live
<1>5. CopyInv' /\ SnapshotFresh' /\ ScanInv' /\ HeadersInv' /\ FreedInv' /\ HaltedBeyondLimits'
  BY <1>1, <1>2 DEF ManagerInv, CopyInv, SnapshotFresh, ScanInv, HeadersInv, FreedInv,
                    HaltedBeyondLimits
<1>6. LoopInv'
  <2>1. Reported(Copied + 1)'
    BY <1>1, <1>2 DEF Reported, MatchELFHeader, Accepted
  <2>2. Len(ELFList) <= Copied /\ 1 <= Len(ELFList) + 1
    BY <1>1, <1>3, Limits
  <2> QED
    BY <1>1, <1>2, <2>1, <2>2 DEF LoopInv
<1>7. TablesInv'
  <2> DEFINE s == [k \in {0} |-> 0]
  <2>1. 0 .. cursor' - 1 = {0} /\ cursor' - 1 = 0
    BY <1>2
  <2>2. s \in [{0} -> Nat] /\ s[0] = 0
    OBVIOUS
  <2>3. Sums(s, cursor - 1)' /\ tables' = s[cursor' - 1]
    BY <1>1, <1>2, <2>1, <2>2 DEF Sums
  <2>4. Fitting(cursor - 1)' /\ tables' <= (cursor' - 1) * LargestTables
    BY <1>1, <1>2, <2>1, Limits DEF Fitting, LargestTables
  <2> HIDE DEF s
  <2>5. \E t \in [0 .. cursor' - 1 -> Nat] : Sums(t, cursor - 1)' /\ tables' = t[cursor' - 1]
    BY <2>1, <2>2, <2>3
  <2> QED
    BY <1>2, <2>4, <2>5 DEF TablesInv
<1> QED
  BY <1>4, <1>5, <1>6, <1>7 DEF ManagerInv

(* The image a loop is at.                                                 *)
LEMMA AtImage ==
  ASSUME ManagerInv, mpc \in {"tables", "print", "clean"}, cursor <= Len(ELFList)
  PROVE  /\ Len(ELFList) \in Nat /\ cursor \in 1 .. Len(ELFList)
         /\ ELFList[cursor].header \in Headers
         /\ ELFList[cursor].at \in Images
         /\ ELFList[cursor].header = Header(LinuxMem, ELFList[cursor].at)
         /\ Cardinality(Images) \in Nat
         /\ Len(ELFList) <= Cardinality(Images)
<1>1. ManagerTypeOK /\ Reported(Copied + 1) /\ Copied + 1 \in 1 .. Copied + 1
  BY Limits DEF ManagerInv, LoopInv
<1>2. Len(ELFList) \in Nat /\ cursor \in 1 .. Len(ELFList)
  BY <1>1, FoundImages, Limits DEF ManagerTypeOK
<1> QED
  BY <1>1, <1>2, FoundImages, ImagesCounted

(* A loop that halts for the heap has met the last limit.                  *)
LEMMA HeapUsedUp ==
  ASSUME ManagerInv, mpc \in {"tables", "print"}, cursor <= Len(ELFList),
         NEW n \in 0 .. Cardinality(Images), tables <= n * LargestTables,
         NEW need \in Nat, need > Room,
         need + n * LargestTables <= Cardinality(Images) * LargestTables + LargestPrint
  PROVE  HeapCap < HeadersUpperBound + Cardinality(Images) * 2 * (1 + ListSize)
                     + printed + LargestPrint
<1> DEFINE N == Cardinality(Images) * LargestTables
           m == n * LargestTables
<1>1. /\ headers \in Nat /\ tables \in Nat /\ printed \in Nat /\ headers <= HeadersUpperBound
  BY DEF ManagerInv, ManagerTypeOK, HeadersInv
<1>2. Cardinality(Images) \in Nat
  BY AtImage
<1>3. N = Cardinality(Images) * 2 * (1 + ListSize) /\ N \in Nat /\ m \in Nat
  BY <1>2, Limits DEF LargestTables
<1>4. LargestPrint \in Nat
  <2>1. (2 + ListSize) \in Nat /\ (1 + ListSize) \in Nat
    BY Limits
  <2> QED
    BY <2>1 DEF LargestPrint
<1>5. HeapCap - (headers + tables + printed) < need
  BY <1>1, Limits DEF Room, Live
<1>6. tables <= m /\ need + m <= N + LargestPrint
  OBVIOUS
<1> HIDE DEF N, m
<1>7. HeapCap < HeadersUpperBound + N + printed + LargestPrint
  BY <1>1, <1>3, <1>4, <1>5, <1>6, Limits
<1> QED
  BY <1>3, <1>7

LEMMA ReadTablesKeepsInv == ManagerInv /\ ReadTables => ManagerInv'
<1> SUFFICES ASSUME ManagerInv, ReadTables PROVE ManagerInv'
  OBVIOUS
<1> DEFINE h == ELFList[cursor].header
           need == SectionTableBlocks(h) + ProgramTableBlocks(h)
<1>1. ManagerTypeOK /\ mpc = "tables" /\ cursor <= Len(ELFList)
  BY DEF ManagerInv, ReadTables
<1>2. /\ Len(ELFList) \in Nat /\ cursor \in 1 .. Len(ELFList) /\ h \in Headers
      /\ ELFList[cursor].at \in Images /\ h = Header(LinuxMem, ELFList[cursor].at)
      /\ Cardinality(Images) \in Nat /\ Len(ELFList) <= Cardinality(Images)
  BY <1>1, AtImage
<1>3. need \in Nat
  BY <1>2, HeaderTyped
<1>4. Fitting(cursor - 1) /\ tables <= (cursor - 1) * LargestTables
  BY <1>1 DEF ManagerInv, TablesInv
<1>5. LargestTables \in Nat /\ LargestPrint \in Nat
  <2>1. (2 + ListSize) \in Nat /\ (1 + ListSize) \in Nat
    BY Limits
  <2> QED
    BY <2>1 DEF LargestTables, LargestPrint
<1>6. TablesFit(h) => need <= LargestTables
  BY <1>2, NeedBounded, Limits DEF LargestTables
<1>7. cursor - 1 \in Nat /\ cursor * LargestTables = (cursor - 1) * LargestTables + LargestTables
  BY <1>2, <1>5
<1>8. CASE ~TablesFit(h) \/ need > Room
  <2>1. Halt /\ UNCHANGED outside
    BY <1>8 DEF ReadTables
  <2>2. UNCHANGED <<LinuxMem, printed>> /\ Images' = Images
    BY <2>1 DEF Halt, Images
  <2>3. CASE ~TablesFit(h)
    <3>1. HaltedBeyondLimits'
      BY <1>2, <2>2, <2>3 DEF HaltedBeyondLimits
    <3> QED
      BY <1>1, <2>1, <3>1, HaltKeepsInv
  <2>4. CASE TablesFit(h) /\ need > Room
    <3> DEFINE most == Cardinality(Images) * LargestTables
               sofar == (cursor - 1) * LargestTables
    <3>1. cursor * LargestTables <= most
      BY <1>2, <1>5, Multiply
    <3>2. sofar \in Nat /\ most \in Nat /\ sofar + LargestTables <= most
      BY <1>2, <1>5, <1>7, <3>1
    <3>3. need <= LargestTables
      BY <1>6, <2>4
    <3>4. need + sofar <= most + LargestPrint
      <4> HIDE DEF sofar, most, need
      <4> QED
        BY <1>3, <1>5, <3>2, <3>3
    <3>5. cursor - 1 \in 0 .. Cardinality(Images)
      BY <1>2
    <3> HIDE DEF need
    <3>6. HeapCap < HeadersUpperBound + Cardinality(Images) * 2 * (1 + ListSize)
                      + printed + LargestPrint
      BY <1>1, <1>3, <1>4, <2>4, <3>4, <3>5, HeapUsedUp
    <3>7. HaltedBeyondLimits'
      BY <2>2, <3>6 DEF HaltedBeyondLimits
    <3> QED
      BY <1>1, <2>1, <3>7, HaltKeepsInv
  <2> QED
    BY <1>8, <2>3, <2>4
<1>9. CASE TablesFit(h) /\ need <= Room
  <2>1. /\ tables' = tables + need /\ cursor' = cursor + 1
        /\ UNCHANGED <<mpc, uncopied, LinuxMem, ELFList, numGoodELFs, headers, printed,
                       memdev, held>>
    <3>1. Room \in Int
      BY <1>1, Limits DEF ManagerTypeOK, Room, Live
    <3>2. ~(need > Room)
      BY <1>3, <1>9, <3>1
    <3> QED
      BY <1>9, <3>2 DEF ReadTables, outside
  <2>2. headers \in Nat /\ tables \in Nat /\ printed \in Nat
    BY <1>1 DEF ManagerTypeOK
  <2>3. tables' \in Nat /\ headers + tables' + printed <= HeapCap
    BY <1>3, <1>9, <2>1, <2>2, Limits DEF Room, Live
  <2>4. cursor' \in 1 .. Copied + 1 /\ cursor' <= Len(ELFList) + 1
    BY <1>1, <1>2, <2>1, Limits DEF ManagerInv, LoopInv
  <2>5. ManagerTypeOK'
    BY <1>1, <2>1, <2>3, <2>4 DEF ManagerTypeOK, Live
  <2>6. CopyInv' /\ SnapshotFresh' /\ ScanInv' /\ HeadersInv' /\ FreedInv' /\ HaltedBeyondLimits'
    BY <1>1, <2>1 DEF ManagerInv, CopyInv, SnapshotFresh, ScanInv, HeadersInv, FreedInv,
                      HaltedBeyondLimits
  <2>7. LoopInv'
    BY <1>1, <2>1, <2>4 DEF ManagerInv, LoopInv, Reported, MatchELFHeader, Accepted
  <2>8. Fitting(cursor - 1)'
    <3>1. cursor' - 1 = cursor
      BY <1>2, <2>1
    <3>2. \A k \in 1 .. cursor : k = cursor \/ k \in 1 .. cursor - 1
      BY <1>2
    <3> QED
      BY <1>4, <1>9, <2>1, <3>1, <3>2 DEF Fitting, TablesFit
  <2>9. tables' <= (cursor' - 1) * LargestTables
    <3> DEFINE sofar == (cursor - 1) * LargestTables
    <3>1. sofar \in Nat /\ tables <= sofar /\ need <= LargestTables
      BY <1>4, <1>5, <1>6, <1>7, <1>9
    <3>2. cursor' - 1 = cursor /\ cursor * LargestTables = sofar + LargestTables
      BY <1>2, <1>7, <2>1
    <3> HIDE DEF sofar, need
    <3>3. tables + need <= sofar + LargestTables
      BY <1>3, <1>5, <2>2, <3>1
    <3> QED
      BY <2>1, <3>2, <3>3
  <2>10. \E s \in [0 .. cursor' - 1 -> Nat] : Sums(s, cursor - 1)' /\ tables' = s[cursor' - 1]
    <3>1. PICK s \in [0 .. cursor - 1 -> Nat] : Sums(s, cursor - 1) /\ tables = s[cursor - 1]
      BY <1>1 DEF ManagerInv, TablesInv
    <3>2. cursor \in Nat /\ cursor > 0 /\ cursor' - 1 = cursor
      BY <1>2, <2>1
    <3>3. tables + need \in Nat /\ \A k \in 0 .. cursor : k # cursor => s[k] \in Nat
      BY <1>3, <2>2, <3>1, <3>2
    <3>4. PICK t \in [0 .. cursor -> Nat] :
            t[cursor] = tables + need /\ \A k \in 0 .. cursor - 1 : t[k] = s[k]
      <4> DEFINE longer == [k \in 0 .. cursor |-> IF k = cursor THEN tables + need ELSE s[k]]
      <4> HIDE DEF need
      <4>1. longer \in [0 .. cursor -> Nat]
        BY <3>3
      <4>2. longer[cursor] = tables + need /\ \A k \in 0 .. cursor - 1 : longer[k] = s[k]
        BY <3>2
      <4> QED
        BY <4>1, <4>2
    <3>5. t[0] = 0
      BY <3>1, <3>2, <3>4 DEF Sums
    <3>6. \A k \in 1 .. cursor : t[k] = t[k - 1] + Need(ELFList[k])
      <4> SUFFICES ASSUME NEW k \in 1 .. cursor PROVE t[k] = t[k - 1] + Need(ELFList[k])
        OBVIOUS
      <4>1. CASE k = cursor
        <5>1. t[k - 1] = tables
          BY <3>1, <3>2, <3>4, <4>1
        <5> QED
          BY <3>4, <4>1, <5>1 DEF Need
      <4>2. CASE k # cursor
        <5>1. k \in 1 .. cursor - 1 /\ k \in 0 .. cursor - 1 /\ k - 1 \in 0 .. cursor - 1
          BY <3>2, <4>2
        <5> QED
          BY <3>1, <3>4, <5>1 DEF Sums
      <4> QED
        BY <4>1, <4>2
    <3>7. \A j, k \in 0 .. cursor : j <= k => t[j] <= t[k]
      <4> SUFFICES ASSUME NEW j \in 0 .. cursor, NEW k \in 0 .. cursor, j <= k
                   PROVE  t[j] <= t[k]
        OBVIOUS
      <4>1. CASE k = cursor /\ j # cursor
        <5>1. j \in 0 .. cursor - 1 /\ cursor - 1 \in 0 .. cursor - 1 /\ j <= cursor - 1
          BY <3>2, <4>1
        <5>2. s[j] <= tables /\ s[j] \in Nat
          BY <3>1, <5>1 DEF Sums
        <5> HIDE DEF need
        <5> QED
          BY <1>3, <2>2, <3>4, <4>1, <5>1, <5>2
      <4>2. CASE k # cursor
        <5>1. j \in 0 .. cursor - 1 /\ k \in 0 .. cursor - 1
          BY <3>2, <4>2
        <5> QED
          BY <3>1, <3>4, <5>1 DEF Sums
      <4>3. CASE j = k
        BY <3>4, <4>3
      <4> QED
        BY <4>1, <4>2, <4>3
    <3>8. Sums(t, cursor - 1)'
      BY <2>1, <3>2, <3>5, <3>6, <3>7 DEF Sums, Need
    <3> QED
      BY <2>1, <3>2, <3>4, <3>8
  <2>11. TablesInv'
    BY <1>1, <2>1, <2>8, <2>9, <2>10 DEF TablesInv
  <2> QED
    BY <2>5, <2>6, <2>7, <2>11 DEF ManagerInv
<1>10. Room \in Int
  BY <1>1, Limits DEF ManagerTypeOK, Room, Live
<1> QED
  BY <1>3, <1>8, <1>9, <1>10

LEMMA PrintKeepsInv == ManagerInv /\ PrintELF => ManagerInv'
<1> SUFFICES ASSUME ManagerInv, PrintELF PROVE ManagerInv'
  OBVIOUS
<1> DEFINE h == ELFList[cursor].header
           need == PrintBlocks(h)
<1>1. ManagerTypeOK /\ mpc = "print" /\ cursor <= Len(ELFList)
  BY DEF ManagerInv, PrintELF
<1>2. /\ Len(ELFList) \in Nat /\ cursor \in 1 .. Len(ELFList) /\ h \in Headers
      /\ ELFList[cursor].at \in Images /\ h = Header(LinuxMem, ELFList[cursor].at)
      /\ Cardinality(Images) \in Nat /\ Len(ELFList) <= Cardinality(Images)
  BY <1>1, AtImage
<1>3. /\ Fitting(Len(ELFList)) /\ tables <= Len(ELFList) * LargestTables
      /\ \E s \in [0 .. Len(ELFList) -> Nat] :
           Sums(s, Len(ELFList)) /\ tables = s[Len(ELFList)]
  BY <1>1 DEF ManagerInv, TablesInv
<1>4. TablesFit(h)
  BY <1>2, <1>3 DEF Fitting
<1>5. need \in Nat /\ need <= LargestPrint
  BY <1>2, <1>4, PrintBounded
<1>6. LargestTables \in Nat /\ LargestPrint \in Nat
  <2>1. (2 + ListSize) \in Nat /\ (1 + ListSize) \in Nat
    BY Limits
  <2> QED
    BY <2>1 DEF LargestTables, LargestPrint
<1>7. Room \in Int
  BY <1>1, Limits DEF ManagerTypeOK, Room, Live
<1>8. CASE ~Printable(h) \/ need > Room
  <2>1. Halt /\ UNCHANGED outside
    BY <1>8 DEF PrintELF
  <2>2. UNCHANGED <<LinuxMem, printed>> /\ Images' = Images
    BY <2>1 DEF Halt, Images
  <2>3. CASE ~Printable(h)
    <3>1. HaltedBeyondLimits'
      BY <1>2, <2>2, <2>3 DEF HaltedBeyondLimits
    <3> QED
      BY <1>1, <2>1, <3>1, HaltKeepsInv
  <2>4. CASE need > Room
    <3> DEFINE most == Cardinality(Images) * LargestTables
               all == Len(ELFList) * LargestTables
    <3>1. all \in Nat /\ most \in Nat /\ all <= most
      <4>1. LargestTables <= LargestTables
        BY <1>6
      <4>2. all \in Nat /\ all <= most
        BY <1>2, <1>6, <4>1, Multiply
      <4> QED
        BY <1>2, <1>6, <4>2
    <3>2. need + all <= most + LargestPrint
      <4> HIDE DEF all, most, need
      <4> QED
        BY <1>5, <1>6, <3>1
    <3>3. Len(ELFList) \in 0 .. Cardinality(Images)
      BY <1>2
    <3> HIDE DEF need
    <3>4. HeapCap < HeadersUpperBound + Cardinality(Images) * 2 * (1 + ListSize)
                      + printed + LargestPrint
      BY <1>1, <1>3, <1>5, <2>4, <3>2, <3>3, HeapUsedUp
    <3>5. HaltedBeyondLimits'
      BY <2>2, <3>4 DEF HaltedBeyondLimits
    <3> QED
      BY <1>1, <2>1, <3>5, HaltKeepsInv
  <2> QED
    BY <1>8, <2>3, <2>4
<1>9. CASE Printable(h) /\ ~(need > Room)
  <2>1. /\ printed' = printed + need /\ cursor' = cursor + 1
        /\ numGoodELFs' = IF Good(h) THEN numGoodELFs + 1 ELSE numGoodELFs
        /\ UNCHANGED <<mpc, uncopied, LinuxMem, ELFList, headers, tables, memdev, held>>
    BY <1>9 DEF PrintELF, outside
  <2>2. headers \in Nat /\ tables \in Nat /\ printed \in Nat
    BY <1>1 DEF ManagerTypeOK
  <2>3. printed' \in Nat /\ headers + tables + printed' <= HeapCap
    <3> HIDE DEF need
    <3> QED
      BY <1>5, <1>9, <2>1, <2>2, Limits DEF Room, Live
  <2>4. Len(ELFList) <= Copied /\ numGoodELFs \in Nat /\ numGoodELFs < cursor
    BY <1>1 DEF ManagerInv, ManagerTypeOK, LoopInv
  <2>5. /\ cursor' \in 1 .. Copied + 1 /\ cursor' <= Len(ELFList) + 1
        /\ numGoodELFs' < cursor' /\ numGoodELFs' \in 0 .. Len(ELFList)
    <3> HIDE DEF h
    <3> QED
      BY <1>2, <2>1, <2>4, Limits
  <2>6. ManagerTypeOK'
    BY <1>1, <2>1, <2>3, <2>5 DEF ManagerTypeOK, Live
  <2>7. CopyInv' /\ SnapshotFresh' /\ ScanInv' /\ HeadersInv' /\ FreedInv' /\ HaltedBeyondLimits'
    BY <1>1, <2>1 DEF ManagerInv, CopyInv, SnapshotFresh, ScanInv, HeadersInv, FreedInv,
                      HaltedBeyondLimits
  <2>8. LoopInv'
    BY <1>1, <2>1, <2>5 DEF ManagerInv, LoopInv, Reported, MatchELFHeader, Accepted
  <2>9. TablesInv'
    BY <1>1, <1>3, <2>1 DEF TablesInv, Fitting, Sums, Need
  <2> QED
    BY <2>6, <2>7, <2>8, <2>9 DEF ManagerInv
<1> QED
  BY <1>8, <1>9

LEMMA NextLoopKeepsInv == ManagerInv /\ NextLoop => ManagerInv'
<1> SUFFICES ASSUME ManagerInv, NextLoop PROVE ManagerInv'
  OBVIOUS
<1>1. ManagerTypeOK /\ mpc \in {"tables", "print"} /\ cursor > Len(ELFList)
  BY DEF ManagerInv, NextLoop
<1>2. /\ mpc' = IF mpc = "tables" THEN "print" ELSE "clean"
      /\ cursor' = 1
      /\ UNCHANGED <<uncopied, LinuxMem, ELFList, numGoodELFs, headers, tables, printed,
                     memdev, held>>
  BY DEF NextLoop, outside
<1>3. Len(ELFList) \in Nat /\ Len(ELFList) <= Copied /\ cursor = Len(ELFList) + 1
  BY <1>1 DEF ManagerInv, ManagerTypeOK, LoopInv
<1>4. cursor - 1 = Len(ELFList) /\ cursor' - 1 = 0 /\ 1 <= Len(ELFList) + 1
  BY <1>2, <1>3
<1>5. ManagerTypeOK'
  BY <1>1, <1>2, Limits DEF ManagerTypeOK, Live
<1>6. CopyInv' /\ SnapshotFresh' /\ ScanInv' /\ HeadersInv' /\ FreedInv' /\ HaltedBeyondLimits'
  BY <1>1, <1>2 DEF ManagerInv, CopyInv, SnapshotFresh, ScanInv, HeadersInv, FreedInv,
                    HaltedBeyondLimits
<1>7. LoopInv'
  <2>1. Reported(Copied + 1)'
    BY <1>1, <1>2 DEF ManagerInv, LoopInv, Reported, MatchELFHeader, Accepted
  <2>2. mpc = "tables" => numGoodELFs = 0
    BY DEF ManagerInv, LoopInv
  <2> QED
    BY <1>1, <1>2, <1>3, <1>4, <2>1, <2>2 DEF LoopInv
<1>8. CASE mpc = "tables"
  <2>1. /\ Fitting(Len(ELFList)) /\ tables <= Len(ELFList) * LargestTables
        /\ \E s \in [0 .. Len(ELFList) -> Nat] :
             Sums(s, Len(ELFList)) /\ tables = s[Len(ELFList)]
    BY <1>4, <1>8 DEF ManagerInv, TablesInv
  <2>2. TablesInv'
    BY <1>2, <1>8, <2>1 DEF TablesInv, Fitting, Sums, Need
  <2> QED
    BY <1>5, <1>6, <1>7, <2>2 DEF ManagerInv
<1>9. CASE mpc = "print"
  <2>1. PICK s \in [0 .. Len(ELFList) -> Nat] :
          Sums(s, Len(ELFList)) /\ tables = s[Len(ELFList)]
    BY <1>9 DEF ManagerInv, TablesInv
  <2>2. s[Len(ELFList)] \in Nat /\ s[0] = 0
    BY <1>3, <2>1 DEF Sums
  <2>3. tables = s[Len(ELFList)] - s[cursor' - 1]
    BY <1>4, <2>1, <2>2
  <2>4. Sums(s, Len(ELFList))'
    BY <1>2, <2>1 DEF Sums, Need
  <2>5. TablesInv'
    BY <1>2, <1>9, <2>1, <2>3, <2>4 DEF TablesInv
  <2> QED
    BY <1>5, <1>6, <1>7, <2>5 DEF ManagerInv
<1> QED
  BY <1>1, <1>8, <1>9

LEMMA FreeTablesKeepsInv == ManagerInv /\ FreeTables => ManagerInv'
<1> SUFFICES ASSUME ManagerInv, FreeTables PROVE ManagerInv'
  OBVIOUS
<1> DEFINE n == Len(ELFList)
           need == Need(ELFList[cursor])
<1>1. ManagerTypeOK /\ mpc = "clean" /\ cursor <= Len(ELFList)
  BY DEF ManagerInv, FreeTables
<1>2. n \in Nat /\ cursor \in 1 .. n /\ ELFList[cursor].header \in Headers
  BY <1>1, AtImage
<1>3. need \in Nat
  BY <1>2, HeaderTyped DEF Need
<1>4. /\ tables' = tables - need /\ cursor' = cursor + 1
      /\ UNCHANGED <<mpc, uncopied, LinuxMem, ELFList, numGoodELFs, headers, printed,
                     memdev, held>>
  BY DEF FreeTables, FreedBlocks, Need, outside
<1>5. PICK s \in [0 .. n -> Nat] : Sums(s, n) /\ tables = s[n] - s[cursor - 1]
  BY <1>1 DEF ManagerInv, TablesInv
<1>6. cursor' - 1 = cursor /\ cursor \in 0 .. n /\ cursor - 1 \in 0 .. n /\ n \in 0 .. n
  BY <1>2, <1>4
<1>7. /\ s[cursor] = s[cursor - 1] + need /\ s[cursor] <= s[n]
      /\ s[cursor] \in Nat /\ s[cursor - 1] \in Nat /\ s[n] \in Nat
  BY <1>2, <1>5, <1>6 DEF Sums
<1> HIDE DEF need
<1>8. tables' = s[n] - s[cursor] /\ tables' \in Nat /\ tables' <= tables
  BY <1>3, <1>4, <1>5, <1>7
<1>9. ManagerTypeOK'
  <2>1. headers \in Nat /\ printed \in Nat /\ tables \in Nat
          /\ headers + tables + printed <= HeapCap
    BY <1>1 DEF ManagerTypeOK, Live
  <2>2. headers + tables' + printed <= HeapCap
    BY <1>8, <2>1, Limits
  <2>3. cursor' \in 1 .. Copied + 1
    BY <1>1, <1>2, <1>4, Limits DEF ManagerInv, LoopInv
  <2> QED
    BY <1>1, <1>4, <1>8, <2>2, <2>3 DEF ManagerTypeOK, Live
<1>10. CopyInv' /\ SnapshotFresh' /\ ScanInv' /\ HeadersInv' /\ FreedInv' /\ HaltedBeyondLimits'
  BY <1>1, <1>4 DEF ManagerInv, CopyInv, SnapshotFresh, ScanInv, HeadersInv, FreedInv,
                    HaltedBeyondLimits
<1>11. LoopInv'
  BY <1>1, <1>2, <1>4 DEF ManagerInv, LoopInv, Reported, MatchELFHeader, Accepted
<1>12. TablesInv'
  <2>1. Sums(s, Len(ELFList))' /\ tables' = s[Len(ELFList')] - s[cursor' - 1]
    BY <1>4, <1>5, <1>6, <1>8 DEF Sums, Need
  <2> QED
    BY <1>1, <1>4, <1>5, <2>1 DEF TablesInv
<1> QED
  BY <1>9, <1>10, <1>11, <1>12 DEF ManagerInv

LEMMA FreeHeadersKeepsInv == ManagerInv /\ FreeHeaders => ManagerInv'
<1> SUFFICES ASSUME ManagerInv, FreeHeaders PROVE ManagerInv'
  OBVIOUS
<1>1. ManagerTypeOK /\ mpc = "clean" /\ cursor > Len(ELFList)
  BY DEF ManagerInv, FreeHeaders
<1>2. /\ headers' = 0 /\ mpc' = "underlying"
      /\ UNCHANGED <<uncopied, LinuxMem, cursor, ELFList, numGoodELFs, tables, printed,
                     memdev, held>>
  BY DEF FreeHeaders, outside
<1>3. Len(ELFList) \in Nat /\ cursor - 1 = Len(ELFList)
  BY <1>1 DEF ManagerInv, ManagerTypeOK, LoopInv
<1>4. tables = 0
  <2>1. PICK s \in [0 .. Len(ELFList) -> Nat] : tables = s[Len(ELFList)] - s[Len(ELFList)]
    BY <1>1, <1>3 DEF ManagerInv, TablesInv
  <2>2. s[Len(ELFList)] \in Nat
    BY <1>3, <2>1
  <2> QED
    BY <2>1, <2>2
<1>5. ManagerTypeOK'
  BY <1>1, <1>2, <1>4, Limits DEF ManagerTypeOK, Live
<1> QED
  BY <1>1, <1>2, <1>4, <1>5
     DEF ManagerInv, CopyInv, SnapshotFresh, ScanInv, HeadersInv, LoopInv, TablesInv, FreedInv,
         HaltedBeyondLimits

LEMMA DoneKeepsInv == ManagerInv /\ (DoneEmitUnderlying \/ DoneEmit) => ManagerInv'
<1> SUFFICES ASSUME ManagerInv, DoneEmitUnderlying \/ DoneEmit PROVE ManagerInv'
  OBVIOUS
<1>1. /\ mpc \in {"underlying", "emit"} /\ mpc' \in {"emit", "wait"}
      /\ UNCHANGED <<uncopied, LinuxMem, cursor, ELFList, numGoodELFs, headers, tables, printed,
                     memdev, held>>
  BY DEF DoneEmitUnderlying, DoneEmit
<1>2. ManagerTypeOK'
  BY <1>1 DEF ManagerInv, ManagerTypeOK, Live
<1> QED
  BY <1>1, <1>2
     DEF ManagerInv, CopyInv, SnapshotFresh, ScanInv, HeadersInv, LoopInv, TablesInv, FreedInv,
         HaltedBeyondLimits

LEMMA NextManagerInv == ManagerInv /\ [Next]_vars => ManagerInv'
<1> SUFFICES ASSUME ManagerInv, [Next]_vars PROVE ManagerInv'
  OBVIOUS
<1>1. CASE Vm
  BY <1>1, Unmoved DEF Vm, memoryVars
<1>2. CASE GuestStore
  BY <1>2, StoreKeepsInv
<1>3. CASE ReadyWait \/ CopyByte \/ AllocateHeaders
  BY <1>3, CopyKeepsInv
<1>4. CASE Scan \/ ScanDone
  BY <1>4, ScanKeepsInv, ScanDoneKeepsInv
<1>5. CASE ReadTables \/ PrintELF \/ NextLoop
  BY <1>5, ReadTablesKeepsInv, PrintKeepsInv, NextLoopKeepsInv
<1>6. CASE FreeTables \/ FreeHeaders
  BY <1>6, FreeTablesKeepsInv, FreeHeadersKeepsInv
<1>7. CASE DoneEmitUnderlying \/ DoneEmit
  BY <1>7, DoneKeepsInv
<1>8. CASE UNCHANGED vars
  BY <1>8, Unmoved DEF vars, memoryVars
<1> QED
  BY <1>1, <1>2, <1>3, <1>4, <1>5, <1>6, <1>7, <1>8 DEF Next, Manager, ManagerNext

LEMMA ManagerInvariant == Spec => []ManagerInv
  BY InitManagerInv, NextManagerInv, PTL DEF Spec

LEMMA ManagerInvSuffices ==
  ManagerInv => SnapshotFresh /\ ReportExact /\ OwnBlocksReturned /\ HaltedBeyondLimits
<1> SUFFICES ASSUME ManagerInv
             PROVE  SnapshotFresh /\ ReportExact /\ OwnBlocksReturned /\ HaltedBeyondLimits
  OBVIOUS
<1>1. SnapshotFresh /\ HaltedBeyondLimits
  BY DEF ManagerInv
<1>2. OwnBlocksReturned
  BY DEF ManagerInv, FreedInv, OwnBlocksReturned
<1>3. ReportExact
  <2> SUFFICES ASSUME mpc \in {"tables", "print", "clean"}
               PROVE  /\ {ELFList[i].at : i \in DOMAIN ELFList} =
                           {c \in Addresses : MatchELFHeader(c) /\ Header(LinuxMem, c).accepted}
                      /\ \A i \in DOMAIN ELFList :
                           /\ ELFList[i].header = Header(LinuxMem, ELFList[i].at)
                           /\ \A k \in 1 .. i - 1 : ELFList[k].at < ELFList[i].at
    BY DEF ReportExact
  <2>1. ManagerTypeOK /\ Reported(Copied + 1) /\ Copied + 1 \in 1 .. Copied + 1
    BY Limits DEF ManagerInv, LoopInv
  <2>2. \A i \in DOMAIN ELFList :
          /\ ELFList[i].at \in Addresses
          /\ MatchELFHeader(ELFList[i].at) /\ Header(LinuxMem, ELFList[i].at).accepted
          /\ ELFList[i].header = Header(LinuxMem, ELFList[i].at)
          /\ \A k \in 1 .. i - 1 : ELFList[k].at < ELFList[i].at
    <3>1. DOMAIN ELFList = 1 .. Len(ELFList)
      BY <2>1 DEF ManagerTypeOK
    <3> QED
      BY <2>1, <3>1, FoundImages, Zenon DEF Images, Reported, Accepted
  <2>3. \A c \in Addresses : MatchELFHeader(c) /\ Header(LinuxMem, c).accepted =>
          \E i \in DOMAIN ELFList : ELFList[i].at = c
    <3>1. 1 .. (Copied + 1) - 1 = Addresses
      <4>1. (Copied + 1) - 1 = Copied
        BY Limits
      <4> QED
        BY <4>1 DEF Addresses
    <3>2. \A c \in Addresses : MatchELFHeader(c) /\ Accepted(c) =>
            \E i \in DOMAIN ELFList : ELFList[i].at = c
      <4>1. Reported(Copied + 1)
        BY <2>1
      <4>2. \A c \in 1 .. (Copied + 1) - 1 : MatchELFHeader(c) /\ Accepted(c) =>
              \E i \in DOMAIN ELFList : ELFList[i].at = c
        BY <4>1, Zenon DEF Reported
      <4> QED
        BY <3>1, <4>2
    <3> QED
      BY <3>2, Zenon DEF Accepted
  <2> QED
    BY <2>2, <2>3
<1> QED
  BY <1>1, <1>2, <1>3

(* The counts of the VM side, the manager's state and the heap keep their  *)
(* types: no count of live blocks goes below zero or beyond the heap,      *)
(* whatever run() allocates and frees, and the cursor stays in the copy.   *)
THEOREM TypeCorrect == Spec => []TypeOK
<1>1. Init => stores \in 0 .. MaxStores
  BY StoresAssumption DEF Init
<1>2. stores \in 0 .. MaxStores /\ [Next]_vars => (stores \in 0 .. MaxStores)'
  <2> SUFFICES ASSUME stores \in 0 .. MaxStores, [Next]_vars
               PROVE  stores' \in 0 .. MaxStores
    OBVIOUS
  <2>1. CASE GuestStore
    BY <2>1, StoresAssumption DEF GuestStore
  <2>2. CASE Vm \/ Manager \/ UNCHANGED vars
    BY <2>2 DEF Vm, Manager, vars, memoryVars
  <2> QED
    BY <2>1, <2>2 DEF Next
<1>3. Spec => [](stores \in 0 .. MaxStores)
  BY <1>1, <1>2, PTL DEF Spec
<1>4. Proved!HandshakeInv => CrossVmTypeOK
  BY DEF Proved!HandshakeInv, Proved!CrossVmTypeOK, CrossVmTypeOK
<1>5. ManagerInv => ManagerTypeOK
  BY DEF ManagerInv
<1> QED
  BY <1>3, <1>4, <1>5, ManagerInvariant, AssemblyKeepsHandshakeInv, PTL DEF TypeOK

(* What is measured was there: once the memcpy has copied a cell, what the *)
(* copy holds of it is something the guest's memory held since the pass    *)
(* began, however the guest's stores fall between the cells.               *)
THEOREM SnapshotRight == Spec => []SnapshotFresh
  BY ManagerInvariant, ManagerInvSuffices, PTL

(* The loops over the ELFs work on exactly the images of the copy, each    *)
(* once, in the order of their addresses, with the header found there.     *)
THEOREM ReportRight == Spec => []ReportExact
  BY ManagerInvariant, ManagerInvSuffices, PTL

(* The blocks malloc'ed for the headers and tables of a pass are all freed *)
(* when it signals done: what the clean-up frees of each image is what the *)
(* tables of that image took.                                              *)
THEOREM BlocksReturned == Spec => []OwnBlocksReturned
  BY ManagerInvariant, ManagerInvSuffices, PTL

(* The manager is halted only beyond the limits of its arrays, of the      *)
(* memory of the image, or of the heap.                                    *)
THEOREM HaltsHaveCause == Spec => []HaltedBeyondLimits
  BY ManagerInvariant, ManagerInvSuffices, PTL
=============================================================================
