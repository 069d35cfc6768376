--------------------------- MODULE DataportProofs ---------------------------
(***************************************************************************)
(* What the programs on a dataport may rely on, for every page size, texts *)
(* and number of descriptors: read stays inside a page that has never been *)
(* filled, only failures of mmap cost descriptors, a write nobody disturbs *)
(* leaves its text, and a read nobody disturbs returns it.                 *)
(***************************************************************************)
EXTENDS Dataport, NumberLemmas

(* Only a call that fills the page gives its last byte to a text; until    *)
(* then it is the 0 that stops a read if no other does.                    *)
LastByteZero == ~filled => dataport[PageSize] = 0

PageOK == dataport \in [1 .. PageSize -> Bytes] /\ LastByteZero

ReaderOK ==
  /\ got \in [{"read", "cake"} -> Seq(Bytes)]
  /\ reader = "printing" /\ ~filled => Len(got["read"]) < PageSize
  /\ ReadsStayInside

IInv == ToolOK /\ CakeOK /\ PageOK /\ ReaderOK

LEMMA ShortTexts ==
  ASSUME NEW c \in Texts \cup Messages \cup {<<>>}
  PROVE  c \in Seq(Bytes) /\ Len(c) \in Nat /\ Len(c) <= PageSize
<1>1. CASE c \in Texts
  <2>1. c \in Seq(Bytes \ {0}) /\ Len(c) \in 1 .. PageSize
    BY <1>1, DataportAssumption
  <2>2. c \in [1 .. Len(c) -> Bytes \ {0}] /\ Len(c) \in Nat
    BY <2>1
  <2>3. c \in [1 .. Len(c) -> Bytes]
    BY <2>2
  <2>4. c \in Seq(Bytes)
    BY <2>2, <2>3
  <2> QED
    BY <2>1, <2>4, DataportAssumption
<1>2. CASE c \in Messages
  BY <1>2, DataportAssumption
<1>3. CASE c = <<>>
  BY <1>3, DataportAssumption
<1> QED
  BY <1>1, <1>2, <1>3

(* A byte stored before the last place, or a 0 anywhere, keeps the page;   *)
(* so does any byte once the page counts as filled.                        *)
LEMMA StoreKeepsPage ==
  ASSUME PageOK, NEW k \in Nat, NEW byte \in Bytes, Store(k, byte), k < PageSize,
         filled => filled', k + 1 < PageSize \/ byte = 0 \/ filled'
  PROVE  PageOK'
<1>1. dataport' = [dataport EXCEPT ![k + 1] = byte]
  BY DEF Store
<1>2. dataport' \in [1 .. PageSize -> Bytes]
  BY <1>1 DEF PageOK
<1>3. ASSUME ~filled'
      PROVE  dataport'[PageSize] = 0
  BY <1>1, <1>3, DataportAssumption DEF PageOK, LastByteZero
<1> QED
  BY <1>2, <1>3 DEF PageOK, LastByteZero

LEMMA IInvInit == Init => IInv
<1> SUFFICES ASSUME Init PROVE IInv
  OBVIOUS
<1>1. ToolOK
  BY DEF Init, ToolOK
<1>2. CakeOK
  BY DEF Init, CakeOK, CakeIdle
<1>3. PageOK
  BY DataportAssumption DEF Init, PageOK, LastByteZero
<1>4. ReaderOK
  BY DEF Init, ReaderOK, ReadsStayInside
<1> QED
  BY <1>1, <1>2, <1>3, <1>4 DEF IInv

LEMMA WritingStep == IInv /\ Writing => IInv'
<1> SUFFICES ASSUME IInv, Writing PROVE IInv'
  OBVIOUS
<1> USE DEF IInv
<1>1. UNCHANGED <<cake, reader, got, filled>>
  BY DEF Writing, WriteOpen, WriteChar, WriteEnd
<1>2. CakeOK' /\ ReaderOK'
  BY <1>1 DEF CakeOK, ReaderOK, ReadsStayInside
<1>3. ASSUME NEW input \in Inputs, NEW length \in Lengths, WriteOpen(input, length)
      PROVE  ToolOK' /\ PageOK'
  <2>1. PageOK'
    BY <1>1, <1>3 DEF WriteOpen, PageOK, LastByteZero
  <2>2. CASE tool' = [pc |-> "mapped", input |-> input, length |-> length, at |-> 0]
    <3>1. length \in Nat /\ 0 < length
      BY DataportAssumption
    <3> QED
      BY <2>1, <2>2, <3>1 DEF ToolOK
  <2>3. CASE UNCHANGED tool
    BY <2>1, <2>3 DEF ToolOK
  <2>4. tool' = [pc |-> "mapped", input |-> input, length |-> length, at |-> 0]
          \/ UNCHANGED tool
    BY <1>3 DEF WriteOpen
  <2> QED
    BY <2>2, <2>3, <2>4
<1>4. ASSUME WriteChar
      PROVE  ToolOK' /\ PageOK'
  <2>1. /\ tool \in [pc : {"mapped"}, input : Inputs, length : Lengths, at : Nat]
        /\ tool.at < tool.length - 1
    BY <1>4 DEF WriteChar, Storing, RoomLeft, ToolOK, ToolIdle
  <2>2. tool.length \in 1 .. PageSize /\ tool.at \in Nat /\ tool.input \in Seq(Bytes)
    BY <2>1, DataportAssumption
  <2>3. Char \in Bytes
    BY <2>2, DataportAssumption DEF Char, Getchar
  <2>4. PageOK'
    BY <1>1, <1>4, <2>1, <2>2, <2>3, StoreKeepsPage, DataportAssumption DEF WriteChar
  <2>5. tool' = [tool EXCEPT !.at = tool.at + 1]
    BY <1>4 DEF WriteChar
  <2>6. ToolOK'
    BY <2>1, <2>2, <2>5 DEF ToolOK
  <2> QED
    BY <2>4, <2>6
<1>5. ASSUME WriteEnd
      PROVE  ToolOK' /\ PageOK'
  <2>1. tool \in [pc : {"mapped"}, input : Inputs, length : Lengths, at : Nat]
          /\ tool.at < tool.length
    BY <1>5 DEF WriteEnd, ToolOK, ToolIdle
  <2>2. tool.length \in 1 .. PageSize /\ tool.at \in Nat
    BY <2>1, DataportAssumption
  <2>3. PageOK'
    BY <1>1, <1>5, <2>1, <2>2, StoreKeepsPage, DataportAssumption DEF WriteEnd, Terminate
  <2>4. ToolOK'
    BY <1>5 DEF WriteEnd, ToolOK
  <2> QED
    BY <2>3, <2>4
<1> QED
  BY <1>2, <1>3, <1>4, <1>5 DEF Writing

LEMMA ReadingStep == IInv /\ Reading => IInv'
<1> SUFFICES ASSUME IInv, Reading PROVE IInv'
  OBVIOUS
<1> USE DEF IInv
<1>1. UNCHANGED <<dataport, tool, cake, filled>>
  BY DEF Reading, ReadOpen, ReadChar, ReadEnd, programs, history
<1>2. ToolOK' /\ CakeOK' /\ PageOK'
  BY <1>1 DEF ToolOK, CakeOK, PageOK, LastByteZero
<1>3. CASE ReadOpen
  <2>1. got' \in [{"read", "cake"} -> Seq(Bytes)] /\ got'["read"] = <<>>
    BY <1>3 DEF ReadOpen, ReaderOK
  <2>2. reader' = "printing"
    BY <1>3 DEF ReadOpen
  <2> QED
    BY <1>2, <2>1, <2>2, DataportAssumption DEF ReaderOK, ReadsStayInside
<1>4. CASE ReadChar
  <2> DEFINE text == got["read"]
  <2>1. text \in Seq(Bytes) /\ Len(text) \in Nat /\ Len(text) < PageSize
          /\ dataport[Len(text) + 1] # 0
    BY <1>4 DEF ReadChar, EndOfText, ReaderOK, At
  <2>2. dataport[Len(text) + 1] \in Bytes
    BY <2>1, DataportAssumption DEF PageOK
  <2>3. ~filled => Len(text) + 1 < PageSize
    BY <2>1, DataportAssumption DEF PageOK, LastByteZero
  <2>4. got' = [got EXCEPT !["read"] = Append(text, dataport[Len(text) + 1])]
    BY <1>4 DEF ReadChar, At
  <2>5. got' \in [{"read", "cake"} -> Seq(Bytes)] /\ Len(got'["read"]) = Len(text) + 1
    BY <2>1, <2>2, <2>4 DEF ReaderOK
  <2>6. reader = "printing" /\ UNCHANGED reader
    BY <1>4 DEF ReadChar, programs
  <2> QED
    BY <1>1, <1>2, <2>3, <2>5, <2>6 DEF ReaderOK, ReadsStayInside
<1>5. CASE ReadEnd
  <2>1. /\ UNCHANGED got
        /\ reader' = "idle" \/ (reader' = "beyond" /\ Len(got["read"]) = PageSize)
    BY <1>5 DEF ReadEnd, At
  <2>2. reader = "printing"
    BY <1>5 DEF ReadEnd
  <2> QED
    BY <1>1, <1>2, <2>1, <2>2, DataportAssumption DEF ReaderOK, ReadsStayInside
<1> QED
  BY <1>3, <1>4, <1>5 DEF Reading

(* A step of the CakeML program that leaves the page and the printed text. *)
LEMMA QuietKeeps ==
  ASSUME IInv, UNCHANGED <<tool, reader, dataport, filled>>, CakeOK',
         got' \in [{"read", "cake"} -> Seq(Bytes)], got'["read"] = got["read"]
  PROVE  IInv'
BY DEF IInv, ToolOK, PageOK, LastByteZero, ReaderOK, ReadsStayInside

LEMMA CakeStep == IInv /\ Cake => IInv'
<1> SUFFICES ASSUME IInv, Cake PROVE IInv'
  OBVIOUS
<1> USE DEF IInv
<1>1. UNCHANGED <<tool, reader>>
  BY DEF Cake, DataportWrite, WriteDataport, DataportRead, CakeCall, CakeStore,
         TextEnd, MessageEnd, CakeCopy, CopyEnd, programs
<1>2. ToolOK'
  BY <1>1 DEF ToolOK
<1>3. /\ cake \in [pc : {"idle", "text", "message", "copying", "aborted", "killed"},
                  c : Texts \cup Messages \cup {<<>>}, at : Nat]
      /\ cake.at <= Len(cake.c) /\ cake.at \in Nat
      /\ cake.c \in Seq(Bytes) /\ Len(cake.c) \in Nat /\ Len(cake.c) <= PageSize
  BY ShortTexts DEF CakeOK
<1>4. got \in [{"read", "cake"} -> Seq(Bytes)]
  BY DEF ReaderOK
<1>5. ASSUME NEW c \in Texts, DataportWrite(c)
      PROVE  IInv'
  <2>1. UNCHANGED <<dataport, filled, got>>
    BY <1>5 DEF DataportWrite, CakeCall
  <2>2. Len(c) \in Nat
    BY ShortTexts
  <2>3. \/ cake' = [pc |-> "text", c |-> c, at |-> 0]
        \/ cake' = [cake EXCEPT !.pc = IF OpenFails THEN "aborted" ELSE "killed"]
    BY <1>5 DEF DataportWrite
  <2>4. CakeOK'
    BY <1>3, <2>2, <2>3 DEF CakeOK
  <2> QED
    BY <1>1, <1>4, <2>1, <2>4, QuietKeeps
<1>6. ASSUME NEW msg \in Messages, WriteDataport(msg)
      PROVE  IInv'
  <2>1. UNCHANGED <<dataport, filled, got>>
    BY <1>6 DEF WriteDataport, CakeCall, MapFails, Refused
  <2>2. Len(msg) \in Nat
    BY ShortTexts
  <2>3. cake' = [pc |-> "message", c |-> msg, at |-> 0] \/ UNCHANGED cake
    BY <1>6 DEF WriteDataport, MapFails, Refused
  <2>4. CakeOK'
    BY <2>2, <2>3 DEF CakeOK
  <2> QED
    BY <1>1, <1>4, <2>1, <2>4, QuietKeeps
<1>7. ASSUME DataportRead
      PROVE  IInv'
  <2>1. UNCHANGED <<dataport, filled>>
    BY <1>7 DEF DataportRead, CakeCall
  <2>2. cake' = [pc |-> "copying", c |-> <<>>, at |-> 0] \/ UNCHANGED cake
    BY <1>7 DEF DataportRead, MapFails, Refused
  <2>3. CakeOK'
    BY <2>2 DEF CakeOK
  <2>4. got' = [got EXCEPT !["cake"] = <<>>] \/ UNCHANGED got
    BY <1>7 DEF DataportRead, MapFails, Refused
  <2>5. <<>> \in Seq(Bytes)
    OBVIOUS
  <2>6. got' \in [{"read", "cake"} -> Seq(Bytes)] /\ got'["read"] = got["read"]
    BY <1>4, <2>4, <2>5
  <2> QED
    BY <1>1, <2>1, <2>3, <2>6, QuietKeeps
<1>8. ASSUME CakeStore
      PROVE  IInv'
  <2>1. cake.at < Len(cake.c) /\ cake.c[cake.at + 1] \in Bytes /\ cake.at + 1 <= PageSize
    BY <1>3, <1>8, DataportAssumption DEF CakeStore
  <2>2. filled' = (filled \/ cake.at + 1 = PageSize)
    BY <1>8 DEF CakeStore
  <2>3. filled => filled'
    BY <2>2
  <2>4. cake.at + 1 < PageSize \/ filled'
    <3>1. cake.at + 1 < PageSize \/ cake.at + 1 = PageSize
      BY <1>3, <2>1, DataportAssumption
    <3>2. cake.at + 1 = PageSize => filled'
      BY <2>2
    <3> QED
      BY <3>1, <3>2
  <2>5. cake.at < PageSize /\ Store(cake.at, cake.c[cake.at + 1])
    BY <1>3, <1>8, <2>1, DataportAssumption DEF CakeStore
  <2>6. PageOK'
    BY <1>3, <2>1, <2>3, <2>4, <2>5, StoreKeepsPage
  <2>7. cake' = [cake EXCEPT !.at = cake.at + 1]
    BY <1>8 DEF CakeStore
  <2>8. CakeOK'
    BY <1>3, <2>1, <2>7 DEF CakeOK
  <2>9. UNCHANGED got
    BY <1>8 DEF CakeStore
  <2> QED
    BY <1>1, <1>2, <2>3, <2>6, <2>8, <2>9 DEF ReaderOK, ReadsStayInside
<1>9. ASSUME TextEnd
      PROVE  IInv'
  <2>1. UNCHANGED <<got, filled>>
    BY <1>9 DEF TextEnd
  <2>2. cake' = CakeIdle \/ cake' = [cake EXCEPT !.pc = "killed"]
    BY <1>9 DEF TextEnd, CakeReturn
  <2>3. CakeOK'
    BY <1>3, <2>2 DEF CakeOK, CakeIdle
  <2>4. PageOK'
    <3>1. CASE cake.at < PageSize /\ Store(cake.at, 0)
      BY <1>3, <2>1, <3>1, StoreKeepsPage, DataportAssumption
    <3>2. CASE UNCHANGED dataport
      BY <2>1, <3>2 DEF PageOK, LastByteZero
    <3> QED
      BY <1>9, <3>1, <3>2 DEF TextEnd
  <2> QED
    BY <1>1, <1>2, <2>1, <2>3, <2>4 DEF ReaderOK, ReadsStayInside
<1>10. ASSUME MessageEnd \/ CopyEnd
       PROVE  IInv'
  <2>1. UNCHANGED <<dataport, filled, got>>
    BY <1>10 DEF MessageEnd, CopyEnd, history
  <2>2. CakeOK'
    BY <1>10 DEF MessageEnd, CopyEnd, CakeReturn, CakeOK, CakeIdle
  <2> QED
    BY <1>1, <1>4, <2>1, <2>2, QuietKeeps
<1>11. ASSUME CakeCopy
       PROVE  IInv'
  <2> DEFINE copy == got["cake"]
  <2>1. UNCHANGED <<dataport, filled, cake>> /\ Len(copy) < PageSize
    BY <1>11 DEF CakeCopy, programs, history
  <2>2. copy \in Seq(Bytes) /\ dataport[Len(copy) + 1] \in Bytes
    BY <1>4, <2>1, DataportAssumption DEF PageOK
  <2>3. got' = [got EXCEPT !["cake"] = Append(copy, dataport[Len(copy) + 1])]
    BY <1>11 DEF CakeCopy
  <2>4. got' \in [{"read", "cake"} -> Seq(Bytes)] /\ got'["read"] = got["read"]
    BY <1>4, <2>2, <2>3
  <2>5. CakeOK'
    BY <2>1 DEF CakeOK
  <2> QED
    BY <1>1, <2>1, <2>4, <2>5, QuietKeeps
<1> QED
  BY <1>5, <1>6, <1>7, <1>8, <1>9, <1>10, <1>11 DEF Cake

LEMMA IInvNext == IInv /\ [Next]_vars => IInv'
<1>1. IInv /\ UNCHANGED vars => IInv'
  BY DEF IInv, vars, programs, history, ToolOK, CakeOK, PageOK, LastByteZero, ReaderOK,
         ReadsStayInside
<1> QED
  BY <1>1, WritingStep, ReadingStep, CakeStep DEF Next

(* No reader runs beyond the page, whoever writes at the same time.        *)
THEOREM ReaderStops == Spec => []ReadsStayInside
<1>1. IInv => ReadsStayInside
  BY DEF IInv, ReaderOK
<1> QED
  BY <1>1, IInvInit, IInvNext, PTL DEF Spec

-----------------------------------------------------------------------------
FdsInv ==
  /\ fds \in Int /\ failures \in Int
  /\ cake.pc \in {"idle", "text", "message", "copying", "aborted", "killed"}
  /\ DOMAIN cake = {"pc", "c", "at"}
  /\ DescriptorsAccounted

(* Calls that return give back their descriptor, failed ones keep it.      *)
THEOREM DescriptorsKept == Spec => []DescriptorsAccounted
<1>1. Init => FdsInv
  BY DEF Init, FdsInv, DescriptorsAccounted, Calling, CakeIdle
<1>2. FdsInv /\ [Next]_vars => FdsInv'
  <2> SUFFICES ASSUME FdsInv, [Next]_vars PROVE FdsInv'
    OBVIOUS
  <2> USE DEF FdsInv, DescriptorsAccounted, Calling
  <2>1. CASE UNCHANGED <<cake, fds, failures>>
    BY <2>1
  <2>2. ASSUME NEW c \in Texts, DataportWrite(c)
        PROVE  FdsInv'
    BY <2>2 DEF DataportWrite, CakeCall
  <2>3. ASSUME NEW msg \in Messages, WriteDataport(msg)
        PROVE  FdsInv'
    BY <2>3 DEF WriteDataport, CakeCall, MapFails, Refused
  <2>4. ASSUME DataportRead
        PROVE  FdsInv'
    BY <2>4 DEF DataportRead, CakeCall, MapFails, Refused
  <2>5. ASSUME CakeStore
        PROVE  FdsInv'
    BY <2>5 DEF CakeStore
  <2>6. ASSUME TextEnd \/ MessageEnd \/ CopyEnd
        PROVE  FdsInv'
    BY <2>6 DEF TextEnd, MessageEnd, CopyEnd, CakeReturn, CakeIdle
  <2>7. Writing \/ Reading \/ CakeCopy \/ UNCHANGED vars => UNCHANGED <<cake, fds, failures>>
    BY DEF Writing, WriteOpen, WriteChar, WriteEnd, Reading, ReadOpen, ReadChar, ReadEnd,
           CakeCopy, vars, programs
  <2> QED
    BY <2>1, <2>2, <2>3, <2>4, <2>5, <2>6, <2>7 DEF Next, Cake
<1>3. FdsInv => DescriptorsAccounted
  BY DEF FdsInv
<1> QED
  BY <1>1, <1>2, <1>3, PTL DEF Spec

-----------------------------------------------------------------------------
(* What a write and a read that nobody disturbs come to.                   *)

(* The first n bytes of the page are those of s.                           *)
Holds(s, n) == n <= Len(s) /\ \A k \in 1 .. n : dataport[k] = s[k]

(* A write that is alone has stored what it has read so far, in which it   *)
(* saw no end.                                                             *)
ToolAlone ==
  tool.pc = "mapped" =>
    /\ \A k \in 1 .. tool.at : NotEof(Getchar(tool.input, k))
    /\ solo["write"] => /\ ~Midway("cake")
                        /\ \A k \in 1 .. tool.at : dataport[k] = Getchar(tool.input, k)

CakeAlone ==
  cake.pc = "text" =>
    /\ cake.c \in Texts
    /\ solo["cake"] => tool.pc # "mapped" /\ Holds(cake.c, cake.at)

(* What a reader has seen of a page that stays as it is.                   *)
SeenSettled == \A p \in {"read", "cake"} : seen[p] # NoText => seen[p] = settled

PrintedSoFar ==
  seen["read"] # NoText =>
    /\ reader = "printing" => /\ Len(got["read"]) <= PageSize
                              /\ \A k \in 1 .. Len(got["read"]) :
                                   got["read"][k] = dataport[k] /\ dataport[k] # 0
    /\ reader = "idle" => got["read"] = seen["read"]

CopiedSoFar ==
  seen["cake"] # NoText =>
    /\ cake.pc = "copying" => /\ Len(got["cake"]) <= PageSize
                              /\ \A k \in 1 .. Len(got["cake"]) : got["cake"][k] = dataport[k]
    /\ cake.pc # "copying" => CString(got["cake"]) = seen["cake"]

FdsTyped ==
  /\ fds \in 0 .. MaxFds /\ failures \in Nat
  /\ failures + (IF Calling THEN 1 ELSE 0) <= fds

TextInv ==
  /\ ToolAlone /\ CakeAlone
  /\ WriteLeaves
  /\ SeenSettled /\ PrintedSoFar /\ CopiedSoFar

(* n is where the text in s ends, at a byte b or the end of s.             *)
EndsAt(s, b, n) == (n = Len(s) \/ s[n + 1] = b) /\ \A j \in 1 .. n : s[j] # b

LEMMA TextEnds ==
  ASSUME NEW s \in Seq(Bytes), NEW b
  PROVE  \E n \in 0 .. Len(s) : EndsAt(s, b, n)
<1> DEFINE Z == {k \in 0 .. Len(s) : k = Len(s) \/ s[k + 1] = b}
<1>1. Len(s) \in Nat /\ Z \subseteq Nat /\ Len(s) \in Z
  OBVIOUS
<1>2. PICK n \in Z : \A k \in Z : n <= k
  <2> HIDE DEF Z
  <2> QED
    BY <1>1, LeastElement
<1>3. ASSUME NEW j \in 1 .. n
      PROVE  s[j] # b
  <2>1. j - 1 \in 0 .. Len(s) /\ (j - 1) + 1 = j /\ ~(n <= j - 1)
    BY <1>1
  <2> QED
    BY <1>2, <2>1
<1> QED
  BY <1>3 DEF EndsAt

LEMMA TextEndsOnce ==
  ASSUME NEW s \in Seq(Bytes), NEW b, NEW n \in 0 .. Len(s), NEW m \in 0 .. Len(s),
         EndsAt(s, b, n), EndsAt(s, b, m)
  PROVE  n = m
BY DEF EndsAt

(* UpTo is the text, and a sequence of bytes like s.                       *)
LEMMA UpToEnds ==
  ASSUME NEW s \in Seq(Bytes), NEW b, NEW n \in 0 .. Len(s), EndsAt(s, b, n)
  PROVE  UpTo(s, b) = SubSeq(s, 1, n)
<1> DEFINE end == CHOOSE k \in 0 .. Len(s) : /\ k = Len(s) \/ s[k + 1] = b
                                             /\ \A j \in 1 .. k : s[j] # b
<1>1. end \in 0 .. Len(s) /\ EndsAt(s, b, end)
  BY Zenon DEF EndsAt
<1>2. end = n
  <2> HIDE DEF end
  <2> QED
    BY <1>1, TextEndsOnce
<1> QED
  BY <1>2, Zenon DEF UpTo

LEMMA Prefix ==
  ASSUME NEW s \in Seq(Bytes), NEW n \in 0 .. Len(s)
  PROVE  /\ SubSeq(s, 1, n) \in Seq(Bytes) /\ Len(SubSeq(s, 1, n)) = n
         /\ \A k \in 1 .. n : SubSeq(s, 1, n)[k] = s[k]
<1>1. CASE n = 0
  BY <1>1
<1>2. CASE n # 0
  BY <1>2
<1> QED
  BY <1>1, <1>2

LEMMA CStringTyped ==
  ASSUME NEW s \in Seq(Bytes)
  PROVE  CString(s) \in Seq(Bytes)
<1>1. PICK n \in 0 .. Len(s) : EndsAt(s, 0, n)
  BY TextEnds
<1> QED
  BY <1>1, UpToEnds, Prefix DEF CString

(* What write leaves is a sequence of bytes; it has ended its text after n *)
(* characters if it saw no end in them and stores no other.                *)
LEMMA LeftTyped ==
  ASSUME NEW input \in Seq(Bytes), NEW length \in 1 .. PageSize
  PROVE  /\ LeftBy(input, length) \in Seq(Bytes)
         /\ \A n \in 0 .. length - 1 :
              /\ \A k \in 1 .. n : NotEof(Getchar(input, k))
              /\ NotEof(Getchar(input, n + 1)) => n = length - 1
              => /\ Len(LeftBy(input, length)) = n
                 /\ \A k \in 1 .. n : LeftBy(input, length)[k] = Getchar(input, k)
<1> DEFINE text == [k \in 1 .. length - 1 |-> Getchar(input, k)]
<1>1. length - 1 \in Nat
  BY DataportAssumption
<1>2. \A k \in 1 .. length - 1 : Getchar(input, k) \in Bytes
  BY DataportAssumption DEF Getchar
<1>3. text \in Seq(Bytes) /\ Len(text) = length - 1
  BY <1>1, <1>2
<1>4. \A k \in 1 .. length - 1 : text[k] = Getchar(input, k)
  OBVIOUS
<1>5. LeftBy(input, length) = IF CharSigned THEN UpTo(text, EofByte) ELSE text
  BY DEF LeftBy
<1> HIDE DEF text
<1>6. CASE CharSigned
  <2>1. PICK m \in 0 .. Len(text) : EndsAt(text, EofByte, m)
    BY <1>3, TextEnds
  <2>2. LeftBy(input, length) = SubSeq(text, 1, m)
    BY <1>3, <1>5, <1>6, <2>1, UpToEnds
  <2>3. /\ SubSeq(text, 1, m) \in Seq(Bytes) /\ Len(SubSeq(text, 1, m)) = m
        /\ \A k \in 1 .. m : SubSeq(text, 1, m)[k] = text[k]
    BY <1>3, <2>1, Prefix
  <2>4. ASSUME NEW n \in 0 .. length - 1,
               \A k \in 1 .. n : NotEof(Getchar(input, k)),
               NotEof(Getchar(input, n + 1)) => n = length - 1
        PROVE  n = m
    <3>1. \A k \in 1 .. n : text[k] # EofByte
      BY <1>1, <1>4, <1>6, <2>4 DEF NotEof
    <3>2. n = Len(text) \/ text[n + 1] = EofByte
      BY <1>1, <1>3, <1>4, <1>6, <2>4 DEF NotEof
    <3>3. EndsAt(text, EofByte, n)
      BY <3>1, <3>2 DEF EndsAt
    <3>4. n \in 0 .. Len(text)
      BY <1>3
    <3> QED
      BY <1>3, <2>1, <3>3, <3>4, TextEndsOnce
  <2> QED
    BY <1>1, <1>3, <1>4, <2>1, <2>2, <2>3, <2>4
<1>7. CASE ~CharSigned
  <2>1. \A k \in Nat : NotEof(Getchar(input, k))
    BY <1>7 DEF NotEof
  <2> QED
    BY <1>1, <1>3, <1>4, <1>5, <1>7, <2>1
<1> QED
  BY <1>6, <1>7

(* Sequences of bytes that agree are the same.                             *)
LEMMA SameText ==
  ASSUME NEW s \in Seq(Bytes), NEW t \in Seq(Bytes), Len(s) = Len(t),
         \A k \in 1 .. Len(s) : s[k] = t[k]
  PROVE  s = t
BY SMT

(* The page, read as a c string, is s up to its first 0, if it has s and   *)
(* then a 0.                                                               *)
LEMMA PageText ==
  ASSUME NEW page \in [1 .. PageSize -> Bytes], NEW s \in Seq(Bytes),
         Len(s) < PageSize, page[Len(s) + 1] = 0, \A k \in 1 .. Len(s) : page[k] = s[k]
  PROVE  CString(page) = CString(s)
<1>1. page \in Seq(Bytes) /\ Len(page) = PageSize /\ PageSize \in Nat
  BY DataportAssumption
<1>2. PICK n \in 0 .. Len(s) : EndsAt(s, 0, n)
  BY TextEnds
<1>3. Len(s) \in Nat /\ n \in 0 .. Len(page)
  BY <1>1
<1>4. EndsAt(page, 0, n)
  <2>1. \A j \in 1 .. n : page[j] # 0
    BY <1>2, <1>3 DEF EndsAt
  <2>2. page[n + 1] = 0
    <3>1. CASE n = Len(s)
      BY <3>1
    <3>2. CASE n # Len(s)
      <4>1. n + 1 \in 1 .. Len(s) /\ s[n + 1] = 0
        BY <1>2, <1>3, <3>2 DEF EndsAt
      <4> QED
        BY <4>1
    <3> QED
      BY <3>1, <3>2
  <2> QED
    BY <2>1, <2>2 DEF EndsAt
<1>5. CString(page) = SubSeq(page, 1, n) /\ CString(s) = SubSeq(s, 1, n)
  BY <1>1, <1>2, <1>3, <1>4, UpToEnds DEF CString
<1>6. /\ SubSeq(page, 1, n) \in Seq(Bytes) /\ Len(SubSeq(page, 1, n)) = n
      /\ \A k \in 1 .. n : SubSeq(page, 1, n)[k] = page[k]
  BY <1>1, <1>3, Prefix
<1>7. /\ SubSeq(s, 1, n) \in Seq(Bytes) /\ Len(SubSeq(s, 1, n)) = n
      /\ \A k \in 1 .. n : SubSeq(s, 1, n)[k] = s[k]
  BY <1>2, Prefix
<1>8. \A k \in 1 .. n : page[k] = s[k]
  BY <1>3
<1> QED
  BY <1>5, <1>6, <1>7, <1>8, SameText

-----------------------------------------------------------------------------
(* Type correctness: what IInv leaves out.                                 *)
HistoryOK ==
  /\ settled \in Seq(Bytes)
  /\ seen \in [{"read", "cake"} -> Seq(Bytes)]

CountsOK ==
  /\ reader \in {"idle", "printing", "beyond"}
  /\ calls \in [{"write", "cake"} -> 0 .. MaxCalls]
  /\ FdsTyped

FlagsOK == solo \in [{"write", "cake"} -> BOOLEAN] /\ filled \in BOOLEAN

LEMMA NoTextTyped == NoText \in Seq(Bytes)
  BY DataportAssumption DEF NoText

LEMMA SettledTyped ==
  ASSUME IInv, HistoryOK, [Next]_vars
  PROVE  settled' \in Seq(Bytes)
<1>1. CASE WriteEnd
  <2>1. tool \in [pc : {"mapped"}, input : Inputs, length : Lengths, at : Nat]
    BY <1>1 DEF WriteEnd, IInv, ToolOK, ToolIdle
  <2>2. tool.input \in Seq(Bytes) /\ tool.length \in 1 .. PageSize
    BY <2>1, DataportAssumption
  <2>3. CString(LeftBy(tool.input, tool.length)) \in Seq(Bytes)
    BY <2>2, LeftTyped, CStringTyped
  <2> QED
    BY <1>1, <2>3, NoTextTyped DEF WriteEnd
<1>2. CASE TextEnd
  <2>1. cake.c \in Texts \cup Messages \cup {<<>>}
    BY DEF IInv, CakeOK
  <2>2. cake.c \in Seq(Bytes)
    BY <2>1, ShortTexts
  <2> QED
    BY <1>2, <2>2, NoTextTyped DEF TextEnd, HistoryOK
<1>3. CASE WriteChar \/ CakeStore
  BY <1>3, NoTextTyped DEF WriteChar, CakeStore
<1>4. CASE UNCHANGED settled
  BY <1>4 DEF HistoryOK
<1> QED
  BY <1>1, <1>2, <1>3, <1>4
     DEF Next, Writing, WriteOpen, Reading, ReadOpen, ReadChar, ReadEnd, Cake, DataportWrite,
         WriteDataport, DataportRead, CakeCall, MessageEnd, CakeCopy, CopyEnd, history, vars

LEMMA SeenTyped ==
  ASSUME HistoryOK, [Next]_vars
  PROVE  seen' \in [{"read", "cake"} -> Seq(Bytes)]
<1>1. \/ UNCHANGED seen
      \/ seen' = [p \in DOMAIN seen |-> NoText]
      \/ seen' = [seen EXCEPT !["read"] = settled]
      \/ seen' = [seen EXCEPT !["cake"] = settled]
  BY DEF Next, Writing, WriteOpen, WriteChar, WriteEnd, Terminate, Store, Reading, ReadOpen,
         ReadChar, ReadEnd, Cake, DataportWrite, WriteDataport, DataportRead, MapFails, Refused,
         CakeStore, TextEnd, MessageEnd, CakeCopy, CopyEnd, history, vars
<1> QED
  BY <1>1, NoTextTyped DEF HistoryOK

LEMMA CountsTyped == CakeOK /\ CountsOK /\ [Next]_vars => CountsOK'
<1> SUFFICES ASSUME CakeOK, CountsOK, [Next]_vars PROVE CountsOK'
  OBVIOUS
<1> USE DEF CountsOK
<1>1. reader' \in {"idle", "printing", "beyond"}
  BY DEF Next, Writing, WriteOpen, WriteChar, WriteEnd, Reading, ReadOpen,
         ReadChar, ReadEnd, Cake, DataportWrite, WriteDataport, DataportRead, CakeCall,
         CakeStore, TextEnd, MessageEnd, CakeCopy, CopyEnd, programs, vars
<1>2. calls' \in [{"write", "cake"} -> 0 .. MaxCalls]
  <2>1. \/ UNCHANGED calls
        \/ calls["write"] < MaxCalls /\ calls' = [calls EXCEPT !["write"] = calls["write"] + 1]
        \/ calls["cake"] < MaxCalls /\ calls' = [calls EXCEPT !["cake"] = calls["cake"] + 1]
    BY DEF Next, Writing, WriteOpen, WriteChar, WriteEnd, Reading, ReadOpen,
           ReadChar, ReadEnd, Cake, DataportWrite, WriteDataport, DataportRead, CakeCall,
           CakeStore, TextEnd, MessageEnd, CakeCopy, CopyEnd, vars
  <2> QED
    BY <2>1, DataportAssumption
<1>3. FdsTyped'
  <2> USE DEF FdsTyped, Calling
  <2>1. CASE UNCHANGED <<fds, failures>> /\ (UNCHANGED cake \/ ~Calling')
    BY <2>1, DataportAssumption
  <2>2. ASSUME CakeCall, ~OpenFails, fds' = fds + 1, UNCHANGED failures
        PROVE  FdsTyped'
    BY <2>2, DataportAssumption DEF CakeCall, OpenFails
  <2>3. ASSUME CakeCall, MapFails
        PROVE  FdsTyped'
    BY <2>3, DataportAssumption DEF CakeCall, MapFails, OpenFails
  <2>4. ASSUME Calling, CakeReturn, UNCHANGED failures
        PROVE  FdsTyped'
    BY <2>4, DataportAssumption DEF CakeReturn, CakeIdle
  <2>5. ASSUME NEW c \in Texts, DataportWrite(c)
        PROVE  FdsTyped'
    <3>1. CASE ~OpenFails /\ fds' = fds + 1
      BY <2>2, <2>5, <3>1 DEF DataportWrite
    <3>2. CASE /\ cake' = [cake EXCEPT !.pc = IF OpenFails THEN "aborted" ELSE "killed"]
               /\ UNCHANGED fds
      <4>1. ~Calling'
        BY <3>2 DEF CakeOK
      <4> QED
        BY <2>1, <2>5, <3>2, <4>1 DEF DataportWrite
    <3> QED
      BY <2>5, <3>1, <3>2 DEF DataportWrite
  <2>6. ASSUME NEW msg \in Messages, WriteDataport(msg)
        PROVE  FdsTyped'
    BY <2>1, <2>2, <2>3, <2>6 DEF WriteDataport, Refused
  <2>7. ASSUME DataportRead
        PROVE  FdsTyped'
    BY <2>1, <2>2, <2>3, <2>7 DEF DataportRead, Refused
  <2>8. ASSUME CakeStore
        PROVE  FdsTyped'
    BY <2>8, DataportAssumption DEF CakeStore
  <2>9. ASSUME TextEnd \/ MessageEnd \/ CopyEnd
        PROVE  FdsTyped'
    <3>1. CASE UNCHANGED fds /\ cake' = [cake EXCEPT !.pc = "killed"]
      <4>1. ~Calling'
        BY <3>1 DEF CakeOK
      <4> QED
        BY <2>1, <2>9, <3>1, <4>1 DEF TextEnd, MessageEnd, CopyEnd
    <3>2. CASE CakeReturn
      BY <2>4, <2>9, <3>2 DEF TextEnd, MessageEnd, CopyEnd
    <3> QED
      BY <2>9, <3>1, <3>2 DEF TextEnd, MessageEnd, CopyEnd
  <2>10. Writing \/ Reading \/ CakeCopy \/ UNCHANGED vars => UNCHANGED <<cake, fds, failures>>
    BY DEF Writing, WriteOpen, WriteChar, WriteEnd, Reading, ReadOpen, ReadChar, ReadEnd,
           CakeCopy, vars, programs
  <2> QED
    BY <2>1, <2>5, <2>6, <2>7, <2>8, <2>9, <2>10 DEF Next, Cake
<1> QED
  BY <1>1, <1>2, <1>3

LEMMA FlagsTyped == FlagsOK /\ [Next]_vars => FlagsOK'
<1> SUFFICES ASSUME FlagsOK, [Next]_vars PROVE FlagsOK'
  OBVIOUS
<1>1. filled' \in BOOLEAN
  <2>1. UNCHANGED filled \/ filled' = (filled \/ cake.at + 1 = PageSize)
    BY DEF Next, Writing, WriteOpen, WriteChar, WriteEnd, Reading, ReadOpen,
           ReadChar, ReadEnd, Cake, DataportWrite, WriteDataport, DataportRead, CakeCall,
           CakeStore, TextEnd, MessageEnd, CakeCopy, CopyEnd, history, vars
  <2> QED
    BY <2>1, Zenon DEF FlagsOK
<1>2. solo' \in [{"write", "cake"} -> BOOLEAN]
  <2>1. UNCHANGED solo \/ BeginWrite("write") \/ BeginWrite("cake")
    BY DEF Next, Writing, WriteOpen, WriteChar, WriteEnd, Reading, ReadOpen,
           ReadChar, ReadEnd, Cake, DataportWrite, WriteDataport, DataportRead, MapFails, Refused,
           CakeStore, TextEnd, MessageEnd, CakeCopy, CopyEnd, history, vars
  <2>2. ASSUME BeginWrite("write") \/ BeginWrite("cake")
        PROVE  solo' \in [{"write", "cake"} -> BOOLEAN]
    <3>1. \A x \in BOOLEAN : [solo EXCEPT !["write"] = x, !["cake"] = FALSE]
                               \in [{"write", "cake"} -> BOOLEAN]
      BY DEF FlagsOK
    <3>2. \A x \in BOOLEAN : [solo EXCEPT !["cake"] = x, !["write"] = FALSE]
                               \in [{"write", "cake"} -> BOOLEAN]
      BY DEF FlagsOK
    <3>3. (~Midway("write")) \in BOOLEAN /\ (~Midway("cake")) \in BOOLEAN
      BY Zenon
    <3>4. \/ solo' = [solo EXCEPT !["write"] = ~Midway("cake"), !["cake"] = FALSE]
          \/ solo' = [solo EXCEPT !["cake"] = ~Midway("write"), !["write"] = FALSE]
      BY <2>2 DEF BeginWrite
    <3> QED
      BY <3>1, <3>2, <3>3, <3>4, Zenon
  <2> QED
    BY <2>1, <2>2 DEF FlagsOK
<1> QED
  BY <1>1, <1>2 DEF FlagsOK

LEMMA InitTyped == Init => IInv /\ HistoryOK /\ CountsOK /\ FlagsOK
<1> SUFFICES ASSUME Init PROVE IInv /\ HistoryOK /\ CountsOK /\ FlagsOK
  OBVIOUS
<1>1. HistoryOK
  BY NoTextTyped DEF Init, HistoryOK
<1>2. CountsOK
  BY DataportAssumption DEF Init, CountsOK, FdsTyped, Calling, CakeIdle
<1>3. FlagsOK
  BY DEF Init, FlagsOK
<1> QED
  BY <1>1, <1>2, <1>3, IInvInit

LEMMA NextTyped ==
  ASSUME IInv, HistoryOK, CountsOK, FlagsOK, [Next]_vars
  PROVE  IInv' /\ HistoryOK' /\ CountsOK' /\ FlagsOK'
<1>1. IInv'
  BY IInvNext
<1>2. CountsOK' /\ FlagsOK'
  BY CountsTyped, FlagsTyped DEF IInv
<1>3. HistoryOK'
  BY SettledTyped, SeenTyped DEF HistoryOK
<1> QED
  BY <1>1, <1>2, <1>3

(* The page, the programs and the history keep their types: no descriptor  *)
(* count leaves its range, and no place in a text or message its length.   *)
THEOREM TypeCorrect == Spec => []TypeOK
<1> DEFINE Typed == IInv /\ HistoryOK /\ CountsOK /\ FlagsOK
<1>1. Init => Typed
  BY InitTyped
<1>2. Typed /\ [Next]_vars => Typed'
  BY NextTyped
<1>3. Typed => TypeOK
  <2> SUFFICES ASSUME Typed PROVE TypeOK
    OBVIOUS
  <2>1. failures \in 0 .. MaxFds
    BY DataportAssumption DEF CountsOK, FdsTyped
  <2> QED
    BY <2>1 DEF TypeOK, IInv, PageOK, ReaderOK, HistoryOK, CountsOK, FdsTyped, FlagsOK
<1> QED
  BY <1>1, <1>2, <1>3, PTL DEF Spec

-----------------------------------------------------------------------------
LEMMA TextInvInit == Init => TextInv
<1> SUFFICES ASSUME Init PROVE TextInv
  OBVIOUS
<1>1. ToolAlone /\ CakeAlone
  BY DEF Init, ToolAlone, CakeAlone, ToolIdle, CakeIdle
<1>2. WriteLeaves
  <2>1. dataport \in [1 .. PageSize -> Bytes] /\ \A k \in 1 .. PageSize : dataport[k] = 0
    BY DataportAssumption DEF Init
  <2>2. dataport \in Seq(Bytes) /\ Len(dataport) = PageSize /\ PageSize \in Nat \ {0}
    BY <2>1, DataportAssumption
  <2>3. EndsAt(dataport, 0, 0) /\ 0 \in 0 .. Len(dataport)
    BY <2>1, <2>2 DEF EndsAt
  <2>4. CString(dataport) = SubSeq(dataport, 1, 0)
    BY <2>2, <2>3, UpToEnds DEF CString
  <2>5. SubSeq(dataport, 1, 0) = <<>>
    BY <2>2
  <2> QED
    BY <2>4, <2>5 DEF WriteLeaves, Init
<1>3. SeenSettled /\ PrintedSoFar /\ CopiedSoFar
  BY DEF Init, SeenSettled, PrintedSoFar, CopiedSoFar
<1> QED
  BY <1>1, <1>2, <1>3 DEF TextInv

(* A store makes what has been seen so far a matter of the past.           *)
LEMMA StoreUnsees ==
  ASSUME HistoryOK, NEW k, NEW byte, Store(k, byte)
  PROVE  SeenSettled' /\ PrintedSoFar' /\ CopiedSoFar'
<1>1. \A p \in {"read", "cake"} : seen'[p] = NoText
  BY DEF Store, HistoryOK
<1> QED
  BY <1>1 DEF SeenSettled, PrintedSoFar, CopiedSoFar

LEMMA TextWriting ==
  ASSUME IInv, HistoryOK, FlagsOK, TextInv, Writing
  PROVE  TextInv'
<1>1. UNCHANGED <<cake, reader, got>>
  BY DEF Writing, WriteOpen, WriteChar, WriteEnd
<1>2. ASSUME NEW input \in Inputs, NEW length \in Lengths, WriteOpen(input, length)
      PROVE  TextInv'
  <2>1. UNCHANGED <<dataport, settled, seen>>
    BY <1>2 DEF WriteOpen
  <2>2. WriteLeaves' /\ SeenSettled' /\ PrintedSoFar' /\ CopiedSoFar'
    BY <1>1, <2>1 DEF TextInv, WriteLeaves, SeenSettled, PrintedSoFar, CopiedSoFar
  <2>3. CASE UNCHANGED <<tool, solo>>
    BY <1>1, <2>1, <2>2, <2>3 DEF TextInv, ToolAlone, CakeAlone, Midway, Holds
  <2>4. CASE /\ tool' = [pc |-> "mapped", input |-> input, length |-> length, at |-> 0]
             /\ BeginWrite("write")
    <3>1. solo' = [solo EXCEPT !["write"] = ~Midway("cake"), !["cake"] = FALSE]
      BY <2>4 DEF BeginWrite
    <3>2. solo'["write"] = ~Midway("cake") /\ solo'["cake"] = FALSE
      BY <3>1 DEF FlagsOK
    <3>4. ToolAlone'
      <4>1. \A k \in 1 .. tool'.at : /\ NotEof(Getchar(tool'.input, k))
                                     /\ dataport'[k] = Getchar(tool'.input, k)
        BY <2>4
      <4>2. Midway("cake")' <=> Midway("cake")
        BY <1>1 DEF Midway
      <4>3. solo'["write"] => ~Midway("cake")'
        BY <3>2, <4>2, Zenon
      <4> QED
        BY <4>1, <4>3, Zenon DEF ToolAlone
    <3>5. CakeAlone'
      BY <1>1, <3>2 DEF TextInv, CakeAlone
    <3> QED
      BY <2>2, <3>4, <3>5 DEF TextInv
  <2> QED
    BY <1>2, <2>3, <2>4 DEF WriteOpen
<1>3. ASSUME tool.pc = "mapped"
      PROVE  /\ tool \in [pc : {"mapped"}, input : Inputs, length : Lengths, at : Nat]
             /\ tool.input \in Seq(Bytes) /\ Len(tool.input) \in Nat
             /\ tool.length \in 1 .. PageSize /\ tool.at \in Nat
             /\ tool.at < tool.length
             /\ dataport \in [1 .. PageSize -> Bytes] /\ PageSize \in Nat
  <2>1. tool \in [pc : {"mapped"}, input : Inputs, length : Lengths, at : Nat]
          /\ tool.at < tool.length
    BY <1>3 DEF IInv, ToolOK, ToolIdle
  <2>2. tool.input \in Seq(Bytes) /\ tool.length \in 1 .. PageSize
    BY <2>1, DataportAssumption
  <2> QED
    BY <1>3, <2>1, <2>2, DataportAssumption DEF IInv, PageOK
<1>4. ASSUME WriteChar
      PROVE  TextInv'
  <2>1. tool.pc = "mapped" /\ NotEof(Char) /\ tool.at < tool.length - 1
    BY <1>4 DEF WriteChar, Storing, RoomLeft
  <2>2. /\ dataport' = [dataport EXCEPT ![tool.at + 1] = Char]
        /\ tool' = [tool EXCEPT !.at = tool.at + 1]
        /\ settled' = NoText /\ UNCHANGED solo
    BY <1>4 DEF WriteChar, Store
  <2>3. SeenSettled' /\ PrintedSoFar' /\ CopiedSoFar'
    BY <1>4, StoreUnsees DEF WriteChar
  <2>4. WriteLeaves'
    BY <2>2 DEF WriteLeaves
  <2>5. tool'.pc = "mapped" /\ tool'.at = tool.at + 1 /\ tool'.input = tool.input
    BY <1>3, <2>1, <2>2
  <2>6. \A k \in 1 .. tool.at + 1 : NotEof(Getchar(tool.input, k))
    <3>1. \A k \in 1 .. tool.at : NotEof(Getchar(tool.input, k))
      BY <2>1 DEF TextInv, ToolAlone
    <3> QED
      BY <1>3, <2>1, <3>1 DEF Char
  <2>7. ASSUME solo["write"]
        PROVE  \A k \in 1 .. tool.at + 1 : dataport'[k] = Getchar(tool.input, k)
    <3>1. \A k \in 1 .. tool.at : dataport[k] = Getchar(tool.input, k)
      BY <2>1, <2>7 DEF TextInv, ToolAlone
    <3> QED
      BY <1>3, <2>1, <2>2, <3>1 DEF Char
  <2>8. ToolAlone'
    BY <1>1, <2>1, <2>2, <2>5, <2>6, <2>7 DEF TextInv, ToolAlone, Midway
  <2>9. CakeAlone'
    BY <1>1, <2>1, <2>2 DEF TextInv, CakeAlone
  <2> QED
    BY <2>3, <2>4, <2>8, <2>9 DEF TextInv
<1>5. ASSUME WriteEnd
      PROVE  TextInv'
  <2> DEFINE text == LeftBy(tool.input, tool.length)
  <2>1. tool.pc = "mapped" /\ ~(NotEof(Char) /\ tool.at < tool.length - 1)
    BY <1>5 DEF WriteEnd, Storing, RoomLeft
  <2>2. /\ dataport' = [dataport EXCEPT ![tool.at + 1] = 0]
        /\ tool' = ToolIdle /\ UNCHANGED solo
        /\ settled' = IF solo["write"] THEN CString(text) ELSE NoText
    BY <1>5 DEF WriteEnd, Terminate, Store
  <2>3. SeenSettled' /\ PrintedSoFar' /\ CopiedSoFar'
    BY <1>5, StoreUnsees DEF WriteEnd, Terminate
  <2>4. ToolAlone'
    BY <2>2 DEF ToolAlone, ToolIdle
  <2>5. CakeAlone'
    BY <1>1, <2>1, <2>2 DEF TextInv, CakeAlone
  <2>6. ASSUME solo["write"]
        PROVE  CString(dataport') = CString(text)
    <3>1. tool.at \in 0 .. tool.length - 1 /\ (NotEof(Char) => tool.at = tool.length - 1)
      BY <1>3, <2>1
    <3>2. /\ \A k \in 1 .. tool.at : NotEof(Getchar(tool.input, k))
          /\ NotEof(Getchar(tool.input, tool.at + 1)) => tool.at = tool.length - 1
      BY <2>1, <3>1 DEF TextInv, ToolAlone, Char
    <3>3. /\ text \in Seq(Bytes) /\ Len(text) = tool.at
          /\ \A k \in 1 .. tool.at : text[k] = Getchar(tool.input, k)
      BY <1>3, <2>1, <3>1, <3>2, LeftTyped
    <3> HIDE DEF text
    <3>4. \A k \in 1 .. tool.at : dataport[k] = text[k]
      BY <2>1, <2>6, <3>3 DEF TextInv, ToolAlone
    <3>5. dataport' \in [1 .. PageSize -> Bytes] /\ tool.at < PageSize
      BY <1>3, <2>1, <2>2, DataportAssumption
    <3>6. dataport'[tool.at + 1] = 0 /\ \A k \in 1 .. tool.at : dataport'[k] = text[k]
      BY <1>3, <2>1, <2>2, <3>3, <3>4, <3>5
    <3> QED
      BY <3>3, <3>5, <3>6, PageText
  <2>7. WriteLeaves'
    BY <2>2, <2>6 DEF WriteLeaves
  <2> QED
    BY <2>3, <2>4, <2>5, <2>7 DEF TextInv
<1> QED
  BY <1>2, <1>4, <1>5 DEF Writing

LEMMA TextReading ==
  ASSUME IInv, HistoryOK, CountsOK, TextInv, Reading
  PROVE  TextInv'
<1>1. UNCHANGED <<dataport, tool, cake, settled, solo>>
  BY DEF Reading, ReadOpen, ReadChar, ReadEnd, programs, history
<1>2. ToolAlone' /\ CakeAlone' /\ WriteLeaves'
  BY <1>1 DEF TextInv, ToolAlone, CakeAlone, Midway, Holds, WriteLeaves
<1> DEFINE text == got["read"]
<1>3. /\ got \in [{"read", "cake"} -> Seq(Bytes)] /\ text \in Seq(Bytes) /\ Len(text) \in Nat
      /\ dataport \in [1 .. PageSize -> Bytes] /\ PageSize \in Nat
  BY DataportAssumption DEF IInv, ReaderOK, PageOK
<1>4. CASE ReadOpen
  <2>1. got' = [got EXCEPT !["read"] = <<>>] /\ seen' = [seen EXCEPT !["read"] = settled]
          /\ reader' = "printing"
    BY <1>4 DEF ReadOpen
  <2>2. /\ got'["read"] = <<>> /\ got'["cake"] = got["cake"]
        /\ seen'["read"] = settled /\ seen'["cake"] = seen["cake"]
    BY <1>3, <2>1 DEF HistoryOK
  <2>3. SeenSettled'
    BY <1>1, <2>2 DEF TextInv, SeenSettled
  <2>4. PrintedSoFar'
    BY <1>3, <2>1, <2>2 DEF PrintedSoFar
  <2>5. CopiedSoFar'
    BY <1>1, <2>2 DEF TextInv, CopiedSoFar
  <2> QED
    BY <1>2, <2>3, <2>4, <2>5 DEF TextInv
<1>5. CASE ReadChar
  <2>1. reader = "printing" /\ Len(text) < PageSize /\ dataport[Len(text) + 1] # 0
          /\ UNCHANGED <<seen, reader>>
    BY <1>5 DEF ReadChar, EndOfText, At, history, programs
  <2>2. got' = [got EXCEPT !["read"] = Append(text, dataport[Len(text) + 1])]
    BY <1>5 DEF ReadChar, At
  <2>3. got'["cake"] = got["cake"] /\ got'["read"] = Append(text, dataport[Len(text) + 1])
    BY <1>3, <2>2
  <2>4. /\ Len(got'["read"]) = Len(text) + 1
        /\ got'["read"][Len(text) + 1] = dataport[Len(text) + 1]
        /\ \A k \in 1 .. Len(text) : got'["read"][k] = text[k]
    <3>1. dataport[Len(text) + 1] \in Bytes
      BY <1>3, <2>1
    <3> QED
      BY <1>3, <2>3, <3>1
  <2>5. SeenSettled' /\ CopiedSoFar'
    BY <1>1, <2>1, <2>3 DEF TextInv, SeenSettled, CopiedSoFar
  <2>6. PrintedSoFar'
    <3> SUFFICES ASSUME seen["read"] # NoText
                 PROVE  /\ Len(got'["read"]) <= PageSize
                        /\ \A k \in 1 .. Len(got'["read"]) :
                             got'["read"][k] = dataport[k] /\ dataport[k] # 0
      BY <1>1, <2>1 DEF PrintedSoFar
    <3>1. \A k \in 1 .. Len(text) : text[k] = dataport[k] /\ dataport[k] # 0
      BY <2>1 DEF TextInv, PrintedSoFar
    <3> HIDE DEF text
    <3> QED
      BY <1>3, <2>1, <2>4, <3>1
  <2> QED
    BY <1>2, <2>5, <2>6 DEF TextInv
<1>6. CASE ReadEnd
  <2>1. reader = "printing" /\ UNCHANGED <<got, seen>>
    BY <1>6 DEF ReadEnd, history
  <2>2. SeenSettled' /\ CopiedSoFar'
    BY <1>1, <2>1 DEF TextInv, SeenSettled, CopiedSoFar
  <2>3. CASE EndOfText /\ reader' = "idle"
    <3> SUFFICES ASSUME seen["read"] # NoText PROVE text = seen["read"]
      BY <2>1, <2>2, <1>2, <2>3 DEF TextInv, PrintedSoFar
    <3>1. Len(text) < PageSize /\ dataport[Len(text) + 1] = 0
      BY <2>3 DEF EndOfText, At
    <3>2. \A k \in 1 .. Len(text) : text[k] = dataport[k] /\ dataport[k] # 0
      BY <2>1 DEF TextInv, PrintedSoFar
    <3> HIDE DEF text
    <3>3. dataport \in Seq(Bytes) /\ Len(dataport) = PageSize
      BY <1>3
    <3>4. EndsAt(dataport, 0, Len(text)) /\ Len(text) \in 0 .. Len(dataport)
      BY <1>3, <3>1, <3>2, <3>3 DEF EndsAt
    <3>5. CString(dataport) = SubSeq(dataport, 1, Len(text))
      BY <3>3, <3>4, UpToEnds DEF CString
    <3>6. /\ SubSeq(dataport, 1, Len(text)) \in Seq(Bytes)
          /\ Len(SubSeq(dataport, 1, Len(text))) = Len(text)
          /\ \A k \in 1 .. Len(text) : SubSeq(dataport, 1, Len(text))[k] = dataport[k]
      BY <3>3, <3>4, Prefix
    <3>7. SubSeq(dataport, 1, Len(text)) = text
      BY <1>3, <3>2, <3>6, SameText
    <3>8. settled # NoText /\ seen["read"] = settled
      BY DEF TextInv, SeenSettled
    <3> QED
      BY <3>5, <3>7, <3>8 DEF TextInv, WriteLeaves
  <2>4. CASE reader' = "beyond"
    BY <1>2, <2>2, <2>4 DEF TextInv, PrintedSoFar
  <2> QED
    BY <1>6, <2>3, <2>4 DEF ReadEnd
<1> QED
  BY <1>4, <1>5, <1>6 DEF Reading

LEMMA TextCake ==
  ASSUME IInv, HistoryOK, FlagsOK, TextInv, Cake
  PROVE  TextInv'
<1>1. UNCHANGED <<tool, reader>>
  BY DEF Cake, DataportWrite, WriteDataport, DataportRead, CakeCall, CakeStore,
         TextEnd, MessageEnd, CakeCopy, CopyEnd, programs
<1>2. /\ cake \in [pc : {"idle", "text", "message", "copying", "aborted", "killed"},
                  c : Texts \cup Messages \cup {<<>>}, at : Nat]
      /\ cake.at <= Len(cake.c) /\ cake.at \in Nat
      /\ cake.c \in Seq(Bytes) /\ Len(cake.c) \in Nat /\ Len(cake.c) <= PageSize
  BY ShortTexts DEF IInv, CakeOK
<1>3. /\ got \in [{"read", "cake"} -> Seq(Bytes)]
      /\ dataport \in [1 .. PageSize -> Bytes] /\ PageSize \in Nat
  BY DataportAssumption DEF IInv, ReaderOK, PageOK
(* A call that writes begins.                                              *)
<1>4. ASSUME NEW pc \in {"text", "message"}, NEW c \in Texts \cup Messages,
             pc = "text" => c \in Texts, cake.pc = "idle",
             cake' = [pc |-> pc, c |-> c, at |-> 0], BeginWrite("cake"),
             UNCHANGED <<dataport, got, settled, seen>>
      PROVE  TextInv'
  <2>1. solo' = [solo EXCEPT !["cake"] = ~Midway("write"), !["write"] = FALSE]
    BY <1>4 DEF BeginWrite
  <2>2. solo'["cake"] = ~Midway("write") /\ solo'["write"] = FALSE
    BY <2>1 DEF FlagsOK
  <2>3. ToolAlone'
    BY <1>1, <2>2 DEF TextInv, ToolAlone
  <2>4. Len(c) \in Nat
    BY ShortTexts
  <2>5. Holds(cake.c, cake.at)'
    BY <1>4, <2>4 DEF Holds
  <2>6. CakeAlone'
    <3>1. solo'["cake"] => tool'.pc # "mapped"
      BY <1>1, <2>2, Zenon DEF Midway
    <3>2. cake'.pc = "text" => cake'.c \in Texts
      BY <1>4
    <3> QED
      BY <2>5, <3>1, <3>2, Zenon DEF CakeAlone
  <2>7. WriteLeaves' /\ SeenSettled' /\ PrintedSoFar'
    BY <1>1, <1>4 DEF TextInv, WriteLeaves, SeenSettled, PrintedSoFar
  <2>8. CopiedSoFar'
    BY <1>4 DEF TextInv, CopiedSoFar
  <2> QED
    BY <2>3, <2>6, <2>7, <2>8 DEF TextInv
(* A call fails, and leaves everything but descriptors as it was.          *)
<1>5. ASSUME cake.pc = "idle", UNCHANGED <<dataport, got, settled, seen, solo>>,
             UNCHANGED cake \/ (cake' = [cake EXCEPT !.pc = IF OpenFails THEN "aborted"
                                                                        ELSE "killed"])
      PROVE  TextInv'
  <2>1. cake'.pc \in {"idle", "aborted", "killed"}
    BY <1>2, <1>5
  <2>2. ToolAlone'
    BY <1>1, <1>5, <2>1 DEF TextInv, ToolAlone, Midway, Holds
  <2>3. CakeAlone'
    BY <2>1 DEF CakeAlone
  <2>4. WriteLeaves' /\ SeenSettled' /\ PrintedSoFar'
    BY <1>1, <1>5 DEF TextInv, WriteLeaves, SeenSettled, PrintedSoFar
  <2>5. CopiedSoFar'
    BY <1>5, <2>1 DEF TextInv, CopiedSoFar
  <2> QED
    BY <2>2, <2>3, <2>4, <2>5 DEF TextInv
<1>6. ASSUME NEW c \in Texts, DataportWrite(c)
      PROVE  TextInv'
  <2>1. cake.pc = "idle" /\ UNCHANGED <<dataport, got, settled, seen>>
    BY <1>6 DEF DataportWrite, CakeCall
  <2>2. \/ cake' = [pc |-> "text", c |-> c, at |-> 0] /\ BeginWrite("cake")
        \/ /\ cake' = [cake EXCEPT !.pc = IF OpenFails THEN "aborted" ELSE "killed"]
           /\ UNCHANGED solo
    BY <1>6 DEF DataportWrite
  <2> QED
    BY <1>4, <1>5, <2>1, <2>2
<1>7. ASSUME NEW msg \in Messages, WriteDataport(msg)
      PROVE  TextInv'
  <2>1. cake.pc = "idle" /\ UNCHANGED <<dataport, got, settled, seen>>
    BY <1>7 DEF WriteDataport, CakeCall, MapFails, Refused
  <2>2. \/ cake' = [pc |-> "message", c |-> msg, at |-> 0] /\ BeginWrite("cake")
        \/ UNCHANGED <<cake, solo>>
    BY <1>7 DEF WriteDataport, MapFails, Refused
  <2> QED
    BY <1>4, <1>5, <2>1, <2>2
<1>8. ASSUME DataportRead
      PROVE  TextInv'
  <2>1. cake.pc = "idle" /\ UNCHANGED <<dataport, settled, solo>>
    BY <1>8 DEF DataportRead, CakeCall, MapFails, Refused
  <2>2. CASE UNCHANGED <<cake, got, seen>>
    BY <1>5, <2>1, <2>2
  <2>3. CASE /\ cake' = [pc |-> "copying", c |-> <<>>, at |-> 0]
             /\ got' = [got EXCEPT !["cake"] = <<>>]
             /\ seen' = [seen EXCEPT !["cake"] = settled]
    <3>1. /\ got'["cake"] = <<>> /\ got'["read"] = got["read"]
          /\ seen'["cake"] = settled /\ seen'["read"] = seen["read"]
      BY <1>3, <2>3 DEF HistoryOK
    <3>2. ToolAlone' /\ CakeAlone'
      BY <1>1, <2>1, <2>3 DEF TextInv, ToolAlone, CakeAlone, Midway, Holds
    <3>3. WriteLeaves' /\ SeenSettled' /\ PrintedSoFar'
      BY <1>1, <2>1, <3>1 DEF TextInv, WriteLeaves, SeenSettled, PrintedSoFar
    <3>4. CopiedSoFar'
      BY <1>3, <2>3, <3>1 DEF CopiedSoFar
    <3> QED
      BY <3>2, <3>3, <3>4 DEF TextInv
  <2> QED
    BY <1>8, <2>2, <2>3 DEF DataportRead, MapFails, Refused
<1>9. ASSUME CakeStore
      PROVE  TextInv'
  <2>1. /\ cake.pc \in {"text", "message"} /\ cake.at < Len(cake.c)
        /\ dataport' = [dataport EXCEPT ![cake.at + 1] = cake.c[cake.at + 1]]
        /\ cake' = [cake EXCEPT !.at = cake.at + 1]
        /\ settled' = NoText /\ UNCHANGED solo
    BY <1>9 DEF CakeStore, Store
  <2>2. SeenSettled' /\ PrintedSoFar' /\ CopiedSoFar' /\ WriteLeaves'
    BY <1>9, <2>1, StoreUnsees DEF CakeStore, WriteLeaves
  <2>3. Midway("cake")
    BY <2>1, Zenon DEF Midway
  <2>4. ToolAlone'
    BY <1>1, <2>1, <2>3 DEF TextInv, ToolAlone
  <2>5. ASSUME cake.pc = "text", solo["cake"]
        PROVE  \A k \in 1 .. cake.at + 1 : dataport'[k] = cake.c[k]
    <3>1. \A k \in 1 .. cake.at : dataport[k] = cake.c[k]
      BY <2>5 DEF TextInv, CakeAlone, Holds
    <3>2. cake.at + 1 \in 1 .. PageSize
      BY <1>2, <1>3, <2>1
    <3>3. dataport'[cake.at + 1] = cake.c[cake.at + 1]
      BY <1>3, <2>1, <3>2
    <3>4. \A k \in 1 .. cake.at : dataport'[k] = dataport[k]
      BY <1>2, <1>3, <2>1, <3>2
    <3>5. \A k \in 1 .. cake.at + 1 : k = cake.at + 1 \/ k \in 1 .. cake.at
      BY <1>2
    <3> QED
      BY <3>1, <3>3, <3>4, <3>5
  <2>6. /\ cake'.pc = cake.pc /\ cake'.c = cake.c /\ cake'.at = cake.at + 1
        /\ cake'.at <= Len(cake.c)
    BY <1>2, <2>1
  <2>7. CakeAlone'
    BY <1>1, <2>1, <2>5, <2>6 DEF TextInv, CakeAlone, Holds
  <2> QED
    BY <2>2, <2>4, <2>7 DEF TextInv
<1>10. ASSUME TextEnd
       PROVE  TextInv'
  <2>1. cake.pc = "text" /\ cake.at = Len(cake.c) /\ UNCHANGED <<got, solo>>
    BY <1>10 DEF TextEnd
  <2>2. Midway("cake") /\ cake'.pc \in {"idle", "killed"}
    BY <1>2, <1>10, <2>1 DEF TextEnd, CakeReturn, CakeIdle, Midway
  <2>3. ToolAlone' /\ CakeAlone'
    BY <1>1, <2>1, <2>2 DEF TextInv, ToolAlone, CakeAlone
  <2>4. CASE /\ cake.at < PageSize /\ Store(cake.at, 0)
             /\ settled' = IF solo["cake"] THEN cake.c ELSE NoText
    <3>1. dataport' = [dataport EXCEPT ![cake.at + 1] = 0]
      BY <2>4 DEF Store
    <3>2. ASSUME solo["cake"]
          PROVE  CString(dataport') = cake.c
      <4>1. \A k \in 1 .. cake.at : dataport[k] = cake.c[k]
        BY <2>1, <3>2 DEF TextInv, CakeAlone, Holds
      <4>2. /\ dataport' \in [1 .. PageSize -> Bytes] /\ dataport'[cake.at + 1] = 0
            /\ \A k \in 1 .. cake.at : dataport'[k] = cake.c[k]
        BY <1>2, <1>3, <2>4, <3>1, <4>1, DataportAssumption
      <4>3. CString(dataport') = CString(cake.c)
        BY <1>2, <2>1, <2>4, <4>2, PageText
      <4>4. cake.c \in Seq(Bytes \ {0})
        BY <2>1, DataportAssumption DEF TextInv, CakeAlone
      <4>5. EndsAt(cake.c, 0, Len(cake.c)) /\ Len(cake.c) \in 0 .. Len(cake.c)
        BY <1>2, <4>4 DEF EndsAt
      <4>6. CString(cake.c) = SubSeq(cake.c, 1, Len(cake.c))
        BY <1>2, <4>5, UpToEnds DEF CString
      <4>7. SubSeq(cake.c, 1, Len(cake.c)) = cake.c
        BY <1>2, <4>5, Prefix, SameText
      <4> QED
        BY <4>3, <4>6, <4>7
    <3>3. WriteLeaves'
      BY <2>4, <3>2 DEF WriteLeaves
    <3> QED
      BY <2>3, <2>4, <3>3, StoreUnsees DEF TextInv
  <2>5. CASE UNCHANGED <<dataport, seen, settled>>
    <3>1. WriteLeaves' /\ SeenSettled' /\ PrintedSoFar'
      BY <1>1, <2>1, <2>5 DEF TextInv, WriteLeaves, SeenSettled, PrintedSoFar
    <3>2. CopiedSoFar'
      BY <2>1, <2>2, <2>5 DEF TextInv, CopiedSoFar
    <3> QED
      BY <2>3, <3>1, <3>2 DEF TextInv
  <2> QED
    BY <1>10, <2>4, <2>5 DEF TextEnd
<1>11. ASSUME MessageEnd
       PROVE  TextInv'
  <2>1. cake.pc = "message" /\ cake' = CakeIdle
          /\ UNCHANGED <<dataport, got, settled, solo, seen>>
    BY <1>11 DEF MessageEnd, CakeReturn, history
  <2>2. Midway("cake") /\ cake'.pc = "idle"
    BY <2>1 DEF CakeIdle, Midway
  <2>3. ToolAlone' /\ CakeAlone'
    BY <1>1, <2>1, <2>2 DEF TextInv, ToolAlone, CakeAlone
  <2>4. WriteLeaves' /\ SeenSettled' /\ PrintedSoFar'
    BY <1>1, <2>1 DEF TextInv, WriteLeaves, SeenSettled, PrintedSoFar
  <2>5. CopiedSoFar'
    BY <2>1, <2>2 DEF TextInv, CopiedSoFar
  <2> QED
    BY <2>3, <2>4, <2>5 DEF TextInv
<1> DEFINE copy == got["cake"]
<1>12. ASSUME CakeCopy
       PROVE  TextInv'
  <2>1. cake.pc = "copying" /\ Len(copy) < PageSize
          /\ UNCHANGED <<dataport, cake, settled, solo, seen>>
    BY <1>12 DEF CakeCopy, programs, history
  <2>2. got' = [got EXCEPT !["cake"] = Append(copy, dataport[Len(copy) + 1])]
    BY <1>12 DEF CakeCopy
  <2>3. got'["read"] = got["read"] /\ got'["cake"] = Append(copy, dataport[Len(copy) + 1])
    BY <1>3, <2>2
  <2>4. copy \in Seq(Bytes) /\ Len(copy) \in Nat
    BY <1>3
  <2>5. /\ Len(got'["cake"]) = Len(copy) + 1
        /\ got'["cake"][Len(copy) + 1] = dataport[Len(copy) + 1]
        /\ \A k \in 1 .. Len(copy) : got'["cake"][k] = copy[k]
    <3>1. dataport[Len(copy) + 1] \in Bytes
      BY <1>3, <2>1, <2>4
    <3> QED
      BY <2>3, <2>4, <3>1
  <2>6. ToolAlone' /\ CakeAlone'
    BY <1>1, <2>1 DEF TextInv, ToolAlone, CakeAlone, Midway, Holds
  <2>7. WriteLeaves' /\ SeenSettled' /\ PrintedSoFar'
    BY <1>1, <2>1, <2>3 DEF TextInv, WriteLeaves, SeenSettled, PrintedSoFar
  <2>8. CopiedSoFar'
    <3> SUFFICES ASSUME seen["cake"] # NoText
                 PROVE  /\ Len(got'["cake"]) <= PageSize
                        /\ \A k \in 1 .. Len(got'["cake"]) : got'["cake"][k] = dataport[k]
      BY <2>1 DEF CopiedSoFar
    <3>1. \A k \in 1 .. Len(copy) : copy[k] = dataport[k]
      BY <2>1 DEF TextInv, CopiedSoFar
    <3> HIDE DEF copy
    <3> QED
      BY <1>3, <2>1, <2>4, <2>5, <3>1
  <2> QED
    BY <2>6, <2>7, <2>8 DEF TextInv
<1>13. ASSUME CopyEnd
       PROVE  TextInv'
  <2>1. cake.pc = "copying" /\ Len(copy) = PageSize /\ cake' = CakeIdle
          /\ UNCHANGED <<dataport, got, settled, solo, seen>>
    BY <1>13 DEF CopyEnd, CakeReturn, history
  <2>2. ToolAlone' /\ CakeAlone'
    BY <1>1, <2>1 DEF TextInv, ToolAlone, CakeAlone, CakeIdle, Midway, Holds
  <2>3. WriteLeaves' /\ SeenSettled' /\ PrintedSoFar'
    BY <1>1, <2>1 DEF TextInv, WriteLeaves, SeenSettled, PrintedSoFar
  <2>4. ASSUME seen["cake"] # NoText
        PROVE  CString(copy) = seen["cake"]
    <3>1. \A k \in 1 .. Len(copy) : copy[k] = dataport[k]
      BY <2>1, <2>4 DEF TextInv, CopiedSoFar
    <3>2. copy \in Seq(Bytes) /\ dataport \in Seq(Bytes) /\ Len(dataport) = PageSize
      BY <1>3
    <3>3. copy = dataport
      <4> HIDE DEF copy
      <4> QED
        BY <2>1, <3>1, <3>2, SameText
    <3>4. settled # NoText /\ seen["cake"] = settled
      BY <2>4 DEF TextInv, SeenSettled
    <3> QED
      BY <3>3, <3>4 DEF TextInv, WriteLeaves
  <2>5. CopiedSoFar'
    BY <2>1, <2>4 DEF CopiedSoFar, CakeIdle
  <2> QED
    BY <2>2, <2>3, <2>5 DEF TextInv
<1> QED
  BY <1>6, <1>7, <1>8, <1>9, <1>10, <1>11, <1>12, <1>13 DEF Cake

LEMMA TextInvariant == Spec => []TextInv
<1> DEFINE Kept == IInv /\ HistoryOK /\ CountsOK /\ FlagsOK /\ TextInv
<1>1. Init => Kept
  BY InitTyped, TextInvInit
<1>2. Kept /\ [Next]_vars => Kept'
  <2> SUFFICES ASSUME Kept, [Next]_vars PROVE Kept'
    OBVIOUS
  <2>1. IInv' /\ HistoryOK' /\ CountsOK' /\ FlagsOK'
    BY NextTyped
  <2>2. CASE Writing
    BY <2>1, <2>2, TextWriting
  <2>3. CASE Reading
    BY <2>1, <2>3, TextReading
  <2>4. CASE Cake
    BY <2>1, <2>4, TextCake
  <2>5. CASE UNCHANGED vars
    <3>1. UNCHANGED <<dataport, tool, cake, reader, got, settled, solo, seen>>
      BY <2>5 DEF vars, programs, history
    <3>2. TextInv'
      BY <3>1 DEF TextInv, ToolAlone, CakeAlone, Midway, Holds, WriteLeaves, SeenSettled,
                  PrintedSoFar, CopiedSoFar
    <3> QED
      BY <2>1, <3>2
  <2> QED
    BY <2>2, <2>3, <2>4, <2>5 DEF Next
<1>3. Kept => TextInv
  OBVIOUS
<1> QED
  BY <1>1, <1>2, <1>3, PTL DEF Spec

(* Whatever has been in the page before, whether a char is signed or not,  *)
(* and whatever is read from stdin, what an undisturbed write leaves is    *)
(* the one c string that LeftBy says (write.c), or the whole text given to *)
(* dataport_write.                                                         *)
THEOREM LeavesItsText == Spec => []WriteLeaves
BY TextInvariant, PTL DEF TextInv

(* A read or a copy during which nothing is stored has the whole text that *)
(* the last write left, if that write was not disturbed.                   *)
THEOREM QuietReadRight == Spec => []QuietReadExact
<1>1. TextInv => QuietReadExact
  BY DEF TextInv, QuietReadExact, PrintedSoFar, CopiedSoFar
<1> QED
  BY <1>1, TextInvariant, PTL
=============================================================================
