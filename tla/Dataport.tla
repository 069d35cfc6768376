------------------------------ MODULE Dataport ------------------------------
(***************************************************************************)
(* The guest programs that meet in one dataport page: the tools write and  *)
(* read, each run of which is a process of its own, and a CakeML program   *)
(* ("cake") that calls dataport_write, writeDataport and dataport_read.    *)
(* The page is a row of bytes; each store and each load is a step, since   *)
(* the programs share the page and nothing else.                           *)
(***************************************************************************)
EXTENDS Integers, Sequences

CONSTANTS
  PageSize,       (* getpagesize(), and what every mapping covers          *)
  Bytes,          (* values of a byte, 0 and EofByte among them            *)
  EofByte,        (* EOF made a char: 255                                  *)
  CharSigned,     (* whether a plain char is signed                        *)
  Lengths,        (* values of argv[2]                                     *)
  Inputs,         (* what write may find on stdin                          *)
  Texts,          (* c strings given to dataport_write                     *)
  Messages,       (* bytes given to writeDataport                          *)
  MaxFds,         (* descriptors the CakeML program may hold               *)
  MaxCalls        (* bound: runs of write, and calls of the CakeML program *)

(* Texts and messages longer than the page are left out: the dataport has  *)
(* no second page to map, so that mmap fails.                              *)
ASSUME DataportAssumption ==
  /\ PageSize \in Nat \ {0} /\ MaxFds \in Nat \ {0} /\ MaxCalls \in Nat
  /\ 0 \in Bytes /\ EofByte \in Bytes \ {0}
  /\ CharSigned \in BOOLEAN
  /\ Lengths \subseteq 1 .. PageSize
  /\ Inputs \subseteq Seq(Bytes)
  /\ Texts \subseteq {s \in Seq(Bytes \ {0}) : Len(s) \in 1 .. PageSize}
  /\ Messages \subseteq {s \in Seq(Bytes) : Len(s) <= PageSize}

NoText == <<EofByte, 0>>    (* no c string holds a 0 *)

VARIABLES
  dataport,       (* the page                                              *)
  tool,           (* write: pc, input, length, at (i of the code)          *)
  cake,           (* the CakeML program: pc, c, at                         *)
  reader,         (* read: its pc; "beyond" once it has left the page      *)
  got,            (* what "read" has printed and "cake" has copied         *)
  fds,            (* descriptors the CakeML program holds                  *)
  calls,          (* runs and calls begun, by program                      *)
  settled,        (* history: the text that the last write leaves, if it   *)
                  (* ran alone and nothing was stored since; else NoText   *)
  solo,           (* history: has the write under way been alone?          *)
  seen,           (* history: settled when a read began, if no store since *)
  filled,         (* history: has the CakeML program ever filled the page? *)
  failures        (* history: mmap calls of the CakeML program that failed *)

programs == <<tool, cake, reader>>
history  == <<settled, solo, seen, filled>>
vars     == <<dataport, programs, got, fds, calls, history, failures>>

(* The bytes of s up to the first that is b; as a c string, up to a 0.     *)
UpTo(s, b) ==
  LET n == CHOOSE k \in 0 .. Len(s) : /\ k = Len(s) \/ s[k + 1] = b
                                      /\ \A j \in 1 .. k : s[j] # b
  IN SubSeq(s, 1, n)

CString(s) == UpTo(s, 0)

Cut(s, n) == IF Len(s) <= n THEN s ELSE SubSeq(s, 1, n)

(* Character k of stdin, made a char: its end looks like EofByte, and the  *)
(* characters after it too.                                                *)
Getchar(input, k) == IF k <= Len(input) THEN input[k] ELSE EofByte

(* What write leaves of its input: a signed char takes the first EofByte   *)
(* for the end; for an unsigned one there is no end, and what is left of   *)
(* length - 1 is filled with EofByte.                                      *)
LeftBy(input, length) ==
  LET text == [k \in 1 .. length - 1 |-> Getchar(input, k)]
  IN IF CharSigned THEN UpTo(text, EofByte) ELSE text

ToolIdle == [pc |-> "idle", input |-> <<>>, length |-> 1, at |-> 0]
CakeIdle == [pc |-> "idle", c |-> <<>>, at |-> 0]

Init ==
  /\ dataport = [k \in 1 .. PageSize |-> 0]
  /\ tool = ToolIdle
  /\ cake = CakeIdle
  /\ reader = "idle"
  /\ got = [p \in {"read", "cake"} |-> <<>>]
  /\ fds = 0
  /\ calls = [p \in {"write", "cake"} |-> 0]
  /\ settled = <<>>
  /\ solo = [p \in {"write", "cake"} |-> TRUE]
  /\ seen = [p \in {"read", "cake"} |-> NoText]
  /\ filled = FALSE
  /\ failures = 0

-----------------------------------------------------------------------------
(* A store to the page, and the beginning and end of a write, with what    *)
(* they do to the history.                                                 *)
Store(k, byte) ==
  /\ dataport' = [dataport EXCEPT ![k + 1] = byte]
  /\ seen' = [p \in DOMAIN seen |-> NoText]

Midway(p) == IF p = "write" THEN tool.pc = "mapped" ELSE cake.pc \in {"text", "message"}

BeginWrite(p) ==
  LET other == IF p = "write" THEN "cake" ELSE "write"
  IN solo' = [solo EXCEPT ![p] = ~Midway(other), ![other] = FALSE]

(***************************************************************************)
(* write.c: open, mmap, characters up to EOF or length - 1, and a 0.  If   *)
(* mmap fails the program goes on with the pointer, and is killed by its   *)
(* first store without having changed anything.                            *)
(***************************************************************************)
WriteOpen(input, length) ==
  /\ tool.pc = "idle"
  /\ calls["write"] < MaxCalls
  /\ calls' = [calls EXCEPT !["write"] = @ + 1]
  /\ \/ /\ tool' = [pc |-> "mapped", input |-> input, length |-> length, at |-> 0]
        /\ BeginWrite("write")
     \/ UNCHANGED <<tool, solo>>
  /\ UNCHANGED <<dataport, cake, reader, got, fds, settled, seen, filled, failures>>

Char == Getchar(tool.input, tool.at + 1)

(* ch != EOF, which an unsigned char always is.                            *)
NotEof(ch) == ~(CharSigned /\ ch = EofByte)

(* (slip: the last byte is given to the text)                              *)
RoomLeftFull == tool.at < tool.length
RoomLeft     == tool.at < tool.length - 1

Storing == NotEof(Char) /\ RoomLeft

WriteChar ==
  /\ tool.pc = "mapped"
  /\ Storing
  /\ Store(tool.at, Char)
  /\ tool' = [tool EXCEPT !.at = @ + 1]
  /\ settled' = NoText
  /\ UNCHANGED <<cake, reader, got, fds, calls, solo, filled, failures>>

(* (slip: no 0 is stored)                                                  *)
TerminateNot(k) == UNCHANGED <<dataport, seen>>
Terminate(k)    == Store(k, 0)

WriteEnd ==
  /\ tool.pc = "mapped"
  /\ ~Storing
  /\ Terminate(tool.at)
  /\ tool' = ToolIdle
  /\ settled' = IF solo["write"] THEN CString(LeftBy(tool.input, tool.length)) ELSE NoText
  /\ UNCHANGED <<cake, reader, got, fds, calls, solo, filled, failures>>

(***************************************************************************)
(* dataport_ffi.c.  dataport_write asserts that open succeeds, and is      *)
(* killed like the tool when mmap fails; the others return FFI_FAILURE for *)
(* both, and after a failed mmap the descriptor stays.                     *)
(***************************************************************************)
CakeCall ==
  /\ cake.pc = "idle"
  /\ calls["cake"] < MaxCalls
  /\ calls' = [calls EXCEPT !["cake"] = @ + 1]
  /\ UNCHANGED <<dataport, tool, reader, settled, filled>>

OpenFails == fds = MaxFds

DataportWrite(c) ==
  /\ CakeCall
  /\ \/ /\ ~OpenFails
        /\ cake' = [pc |-> "text", c |-> c, at |-> 0]
        /\ fds' = fds + 1
        /\ BeginWrite("cake")
     \/ /\ cake' = [cake EXCEPT !.pc = IF OpenFails THEN "aborted" ELSE "killed"]
        /\ UNCHANGED <<fds, solo>>
  /\ UNCHANGED <<got, seen, failures>>

(* mmap may fail, and does for no bytes.                                   *)
MapFails ==
  /\ ~OpenFails
  /\ fds' = fds + 1
  /\ failures' = failures + 1
  /\ UNCHANGED <<cake, solo, got, seen>>

Refused == OpenFails /\ UNCHANGED <<cake, solo, fds, got, seen, failures>>

WriteDataport(msg) ==
  /\ CakeCall
  /\ \/ /\ ~OpenFails /\ msg # <<>>
        /\ cake' = [pc |-> "message", c |-> msg, at |-> 0]
        /\ fds' = fds + 1
        /\ BeginWrite("cake")
        /\ UNCHANGED <<got, seen, failures>>
     \/ MapFails
     \/ Refused

DataportRead ==
  /\ CakeCall
  /\ \/ /\ ~OpenFails
        /\ cake' = [pc |-> "copying", c |-> <<>>, at |-> 0]
        /\ fds' = fds + 1
        /\ got' = [got EXCEPT !["cake"] = <<>>]
        /\ seen' = [seen EXCEPT !["cake"] = settled]
        /\ UNCHANGED <<solo, failures>>
     \/ MapFails
     \/ Refused

CakeStore ==
  /\ cake.pc \in {"text", "message"}
  /\ cake.at < Len(cake.c)
  /\ Store(cake.at, cake.c[cake.at + 1])
  /\ cake' = [cake EXCEPT !.at = @ + 1]
  /\ settled' = NoText
  /\ filled' = (filled \/ cake.at + 1 = PageSize)
  /\ UNCHANGED <<tool, reader, got, fds, calls, solo, failures>>

(* munmap and close.                                                       *)
(* (slip: close is forgotten)                                              *)
CakeReturnLeaks == cake' = CakeIdle /\ UNCHANGED fds

CakeReturn == cake' = CakeIdle /\ fds' = fds - 1

(* dataport[length] = 0 is beyond the mapping for a text that fills it:    *)
(* the program is killed, or some other byte of it is overwritten.         *)
TextEnd ==
  /\ cake.pc = "text"
  /\ cake.at = Len(cake.c)
  /\ \/ /\ cake.at < PageSize
        /\ Store(cake.at, 0)
        /\ CakeReturn
        /\ settled' = IF solo["cake"] THEN cake.c ELSE NoText
     \/ /\ cake.at = PageSize
        /\ CakeReturn \/ (cake' = [cake EXCEPT !.pc = "killed"] /\ UNCHANGED fds)
        /\ UNCHANGED <<dataport, seen, settled>>
  /\ UNCHANGED <<tool, reader, got, calls, solo, filled, failures>>

(* No 0 is added: what follows the message stays.                          *)
MessageEnd ==
  /\ cake.pc = "message"
  /\ cake.at = Len(cake.c)
  /\ CakeReturn
  /\ UNCHANGED <<dataport, tool, reader, got, calls, history, failures>>

CakeCopy ==
  /\ cake.pc = "copying"
  /\ Len(got["cake"]) < PageSize
  /\ got' = [got EXCEPT !["cake"] = Append(@, dataport[Len(@) + 1])]
  /\ UNCHANGED <<dataport, programs, fds, calls, history, failures>>

CopyEnd ==
  /\ cake.pc = "copying"
  /\ Len(got["cake"]) = PageSize
  /\ CakeReturn
  /\ UNCHANGED <<dataport, tool, reader, got, calls, history, failures>>

(***************************************************************************)
(* read.c: open, mmap, printf of the page as a c string.                   *)
(***************************************************************************)
ReadOpen ==
  /\ reader # "printing"
  /\ reader' = "printing"
  /\ got' = [got EXCEPT !["read"] = <<>>]
  /\ seen' = [seen EXCEPT !["read"] = settled]
  /\ UNCHANGED <<dataport, tool, cake, fds, calls, settled, solo, filled, failures>>

At == Len(got["read"])

(* (slip: printing stops at the character before)                          *)
EndOfTextEarly == At + 1 < PageSize /\ dataport[At + 2] = 0
EndOfText      == At < PageSize /\ dataport[At + 1] = 0

ReadChar ==
  /\ reader = "printing"
  /\ At < PageSize /\ ~EndOfText
  /\ got' = [got EXCEPT !["read"] = Append(@, dataport[At + 1])]
  /\ UNCHANGED <<dataport, programs, fds, calls, history, failures>>

(* The text ends, or the page does.                                        *)
ReadEnd ==
  /\ reader = "printing"
  /\ \/ EndOfText /\ reader' = "idle"
     \/ At = PageSize /\ reader' = "beyond"
  /\ UNCHANGED <<dataport, tool, cake, got, fds, calls, history, failures>>
-----------------------------------------------------------------------------
Writing == \/ \E input \in Inputs, length \in Lengths : WriteOpen(input, length)
           \/ WriteChar \/ WriteEnd

Reading == ReadOpen \/ ReadChar \/ ReadEnd

Cake == \/ \E c \in Texts : DataportWrite(c)
        \/ \E msg \in Messages : WriteDataport(msg)
        \/ DataportRead
        \/ CakeStore \/ TextEnd \/ MessageEnd \/ CakeCopy \/ CopyEnd

Next == Writing \/ Reading \/ Cake

Spec == Init /\ [][Next]_vars
-----------------------------------------------------------------------------
Calling == cake.pc \in {"text", "message", "copying"}

ToolOK ==
  \/ tool = ToolIdle
  \/ tool \in [pc : {"mapped"}, input : Inputs, length : Lengths, at : Nat]
       /\ tool.at < tool.length

CakeOK ==
  /\ cake \in [pc : {"idle", "text", "message", "copying", "aborted", "killed"},
               c : Texts \cup Messages \cup {<<>>}, at : Nat]
  /\ cake.at <= Len(cake.c)

TypeOK ==
  /\ dataport \in [1 .. PageSize -> Bytes]
  /\ ToolOK /\ CakeOK
  /\ reader \in {"idle", "printing", "beyond"}
  /\ got \in [{"read", "cake"} -> Seq(Bytes)]
  /\ fds \in 0 .. MaxFds
  /\ calls \in [{"write", "cake"} -> 0 .. MaxCalls]
  /\ settled \in Seq(Bytes)
  /\ solo \in [{"write", "cake"} -> BOOLEAN]
  /\ seen \in [{"read", "cake"} -> Seq(Bytes)]
  /\ filled \in BOOLEAN
  /\ failures \in 0 .. MaxFds

(* However the programs overwrite each other's text, and although a write  *)
(* stores its 0 last, read meets a 0 before the end of the page (read.c:45 *)
(* prints with %s and looks at nothing else), unless the CakeML program    *)
(* has once been given bytes enough to fill the page (dataport_write then  *)
(* has no place for its 0, dataport_ffi.c:61).                             *)
ReadsStayInside == reader = "beyond" => filled

(* Whatever was in the page before, a write that is not disturbed leaves   *)
(* one c string: dataport_write its text, and write what LeftBy says, with *)
(* a signed char and with an unsigned one, and whatever its stdin holds.   *)
WriteLeaves == settled # NoText => CString(dataport) = settled

(* A read or copy during which nothing is stored, after a write that was   *)
(* not disturbed, has exactly the text that this write leaves.             *)
QuietReadExact ==
  /\ reader = "idle" /\ seen["read"] # NoText => got["read"] = seen["read"]
  /\ cake.pc = "idle" /\ seen["cake"] # NoText => CString(got["cake"]) = seen["cake"]

(* When a write that is not disturbed comes to store its 0, its stdin, cut *)
(* off at length - 1, is before it ("Writes stdin to a specified dataport  *)
(* file as a c string", write.c:27).                                       *)
WritesStdin ==
  tool.pc = "mapped" /\ solo["write"] /\ ~Storing =>
    SubSeq(dataport, 1, tool.at) = Cut(tool.input, tool.length - 1)

(* The CakeML program runs out of descriptors, and is aborted in the end,  *)
(* by failures of mmap alone: each keeps the descriptor it had opened.     *)
DescriptorsAccounted ==
  cake.pc # "killed" => fds = failures + (IF Calling THEN 1 ELSE 0)
=============================================================================
