----------------------------- MODULE SerialPort -----------------------------
(***************************************************************************)
(* EBSerialPort (Windows) and EBSerialPortBase: the program opens, reads   *)
(* and closes the port from its slots, a thread reads byte after byte.     *)
(*                                                                         *)
(* handle is a plain member that both use without a lock.  The buffer is   *)
(* used under a mutex, and readReady is emitted only for a byte that comes *)
(* into an empty buffer.  A port can be opened by one handle at a time.    *)
(***************************************************************************)
EXTENDS Integers, FiniteSets, Sequences

CONSTANTS MaxOpens,   \* bound: calls of open()
          MaxBytes    \* bound: bytes that come over the line

\* Every second byte ends a line.
NewLine(byte) == byte % 2 = 0

VARIABLES opens,    \* history: calls of open()
          handle,   \* EBSerialPort::handle is valid
          owned,    \* the device is opened by some handle
          thread,   \* EBSerialPortBase::thread is not nullptr
          user,     \* where the program's thread is
          reader,   \* where the thread is in run()
          line,     \* bytes that came over the line
          buffer,   \* the byte the thread has in its hands, 0 for none
          data,     \* EBSerialPortBase::data
          ready,    \* readReady calls in the event loop
          style,    \* how the slot of the program reads
          read      \* history: the bytes the program read

vars == <<opens, handle, owned, thread, user, reader, line, buffer, data, ready, style,
          read>>

Init == /\ opens = 0 /\ handle = FALSE /\ owned = FALSE /\ thread = FALSE
        /\ user = "idle" /\ reader = "none"
        /\ line = 0 /\ buffer = 0 /\ data = <<>> /\ ready = 0 /\ read = <<>>
        /\ style \in {"all", "line"}

-----------------------------------------------------------------------------
\* The program.

\* open(): a second handle for the device is refused, and the member is
\* overwritten with the refusal, whether the port was open or not...
OpenFails ==
    /\ user = "idle" /\ opens < MaxOpens
    /\ opens' = opens + 1
    /\ handle' = FALSE
    /\ UNCHANGED <<owned, thread, user, reader, line, buffer, data, ready, style, read>>

\* ... a wrong parity or number of stop bits throws, with the device open...
OpenThrows ==
    /\ user = "idle" /\ opens < MaxOpens /\ ~owned
    /\ opens' = opens + 1
    /\ handle' = TRUE /\ owned' = TRUE
    /\ UNCHANGED <<thread, user, reader, line, buffer, data, ready, style, read>>

\* ... or a thread is started; to overwrite one that was not joined ends the
\* program.
Open ==
    /\ user = "idle" /\ opens < MaxOpens /\ ~owned
    /\ opens' = opens + 1
    /\ handle' = TRUE /\ owned' = TRUE /\ thread' = TRUE
    /\ user' = IF thread THEN "crashed" ELSE "idle"
    /\ reader' = IF thread THEN reader ELSE "check"
    /\ UNCHANGED <<line, buffer, data, ready, style, read>>

\* close(): the handle is forgotten and closed...
Close ==
    /\ user = "idle" /\ handle
    /\ handle' = FALSE /\ owned' = FALSE
    /\ user' = "join"
    /\ UNCHANGED <<opens, thread, reader, line, buffer, data, ready, style, read>>

\* ... and the thread joined.
JoinThread ==
    /\ user = "join" /\ (thread => reader = "done")
    /\ thread' = FALSE
    /\ user' = "idle"
    /\ UNCHANGED <<opens, handle, owned, reader, line, buffer, data, ready, style, read>>

\* The slot of readReady...
SlotBegins ==
    /\ user = "idle" /\ ready > 0
    /\ ready' = ready - 1
    /\ user' = "slot"
    /\ UNCHANGED <<opens, handle, owned, thread, reader, line, buffer, data, style, read>>

\* ... reads...
Read == \E size \in 1 .. Len(data) :
    /\ user = "slot" /\ style = "all"
    /\ read' = read \o SubSeq(data, 1, size)
    /\ data' = SubSeq(data, size + 1, Len(data))
    /\ UNCHANGED <<opens, handle, owned, thread, user, reader, line, buffer, ready, style>>

\* ... until read() returns nothing.
SlotEnds ==
    /\ user = "slot" /\ style = "all" /\ data = <<>>
    /\ user' = "idle"
    /\ UNCHANGED <<opens, handle, owned, thread, reader, line, buffer, data, ready, style, read>>

\* Or it reads one line, if canReadLine() finds the end of one.
ReadLine ==
    /\ user = "slot" /\ style = "line"
    /\ LET ends == {i \in 1 .. Len(data) : NewLine(data[i])}
           size == IF ends = {} THEN 0 ELSE CHOOSE i \in ends : \A j \in ends : i <= j
       IN  /\ read' = read \o SubSeq(data, 1, size)
           /\ data' = SubSeq(data, size + 1, Len(data))
    /\ user' = "idle"
    /\ UNCHANGED <<opens, handle, owned, thread, reader, line, buffer, ready, style>>

Program == \/ OpenFails \/ OpenThrows \/ Open \/ Close \/ JoinThread
           \/ SlotBegins \/ Read \/ SlotEnds \/ ReadLine

-----------------------------------------------------------------------------
\* The thread.

\* run(): while (isOpened())
Check ==
    /\ reader = "check"
    /\ reader' = IF handle THEN "readFile" ELSE "done"
    /\ UNCHANGED <<opens, handle, owned, thread, user, line, buffer, data, ready, style, read>>

\* ReadFile() with a handle that is closed by now throws, and nobody catches.
ReadClosed ==
    /\ reader = "readFile" /\ ~handle
    /\ user' = "crashed"
    /\ UNCHANGED <<opens, handle, owned, thread, reader, line, buffer, data, ready, style, read>>

\* ReadFile() returns a byte at once, or waits for one...
ReadFile ==
    /\ reader = "readFile" /\ handle
    /\ \/ /\ line < MaxBytes
          /\ line' = line + 1 /\ buffer' = line + 1
          /\ reader' = "store"
       \/ /\ reader' = "wait"
          /\ UNCHANGED <<line, buffer>>
    /\ UNCHANGED <<opens, handle, owned, thread, user, data, ready, style, read>>

\* A thread that takes the end of every wait for a byte.
WaitEndsAnyway ==
    /\ reader = "wait"
    /\ IF handle THEN line < MaxBytes /\ line' = line + 1 /\ buffer' = line + 1
       ELSE UNCHANGED <<line, buffer>>
    /\ reader' = "store"
    /\ UNCHANGED <<opens, handle, owned, thread, user, data, ready, style, read>>

\* ... and the wait ends with one, or because the port was closed.
WaitEnds ==
    /\ reader = "wait"
    /\ \/ /\ handle /\ line < MaxBytes
          /\ line' = line + 1 /\ buffer' = line + 1
          /\ reader' = "result"
       \/ /\ ~handle
          /\ reader' = "done"
          /\ UNCHANGED <<line, buffer>>
    /\ UNCHANGED <<opens, handle, owned, thread, user, data, ready, style, read>>

\* GetOverlappedResult() needs the handle once more.
Result ==
    /\ reader = "result"
    /\ reader' = IF handle THEN "store" ELSE reader
    /\ user' = IF handle THEN user ELSE "crashed"
    /\ UNCHANGED <<opens, handle, owned, thread, line, buffer, data, ready, style, read>>

\* Under the mutex: the byte is stored, and told if the buffer was empty.
Store ==
    /\ reader = "store"
    /\ data' = Append(data, buffer) /\ buffer' = 0
    /\ ready' = IF data = <<>> THEN ready + 1 ELSE ready
    /\ reader' = "check"
    /\ UNCHANGED <<opens, handle, owned, thread, user, line, style, read>>

Run == Check \/ ReadClosed \/ ReadFile \/ WaitEnds \/ Result \/ Store

Next == user # "crashed" /\ (Program \/ Run)

Spec == Init /\ [][Next]_vars

-----------------------------------------------------------------------------

TypeOK == /\ opens \in 0 .. MaxOpens /\ line \in 0 .. MaxBytes
          /\ {handle, owned, thread} \subseteq BOOLEAN
          /\ user \in {"idle", "join", "slot", "crashed"}
          /\ reader \in {"none", "check", "readFile", "wait", "result", "store", "done"}
          /\ buffer \in 0 .. MaxBytes /\ ready \in Nat
          /\ data \in Seq(1 .. MaxBytes) /\ read \in Seq(1 .. MaxBytes)

\* A program whose slot reads until nothing is left misses no byte, although
\* only the first byte of an empty buffer is told.  (One that reads lines does:
\* once the start of a line is in the buffer, nothing is told any more.)
NoByteForgotten == style = "all" /\ data # <<>> => ready > 0 \/ user = "slot" \/ user = "crashed"

\* The program gets the bytes of the line in their order, each once, through
\* every close() and open().
BytesInOrder == LET all == read \o data IN
    \A i \in 1 .. Len(all) - 1 : all[i] < all[i + 1]

=============================================================================
