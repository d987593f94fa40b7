------------------------------ MODULE TcpSocket ------------------------------
(***************************************************************************)
(* EBTcpSocket: the thread of the program that opens, reads, closes and    *)
(* destroys the socket from its slots, the reader threads the socket makes *)
(* (one for each open() that does not throw, or one for a connection that  *)
(* a server accepted), and the peers of its connections.                   *)
(*                                                                         *)
(* socketId and connectionState are plain members that both threads read   *)
(* and write without a lock: each access that matters is a step.  The      *)
(* buffer is used under a mutex.                                           *)
(*                                                                         *)
(* Connection and descriptor n are those thread n makes; a descriptor is   *)
(* not used again after it was closed.                                     *)
(***************************************************************************)
EXTENDS Integers, FiniteSets, Sequences

CONSTANTS MaxThreads,   \* bound: reader threads
          MaxBytes      \* bound: bytes each peer sends

ASSUME TcpSocketAssumption == MaxThreads \in Nat \ {0} /\ MaxBytes \in Nat

Threads == 1 .. MaxThreads
None == 0                        \* socketId is -1, thread is nullptr

VARIABLES user,             \* where the program's thread is in a call
          request,          \* the call it makes
          thread,           \* EBTcpSocket::thread, the threads are numbered
          joinable,         \* thread->joinable()
          socketId,         \* EBTcpSocket::socketId
          connectionState,  \* EBTcpSocket::connectionState
          data,             \* EBTcpSocket::data
          pc,               \* where each thread is in run()
          fd,               \* the descriptor of the recv a thread is in
          buffer,           \* EBTcpSocket::run, buffer and nbytes
          handles,          \* descriptors of this socket that are open
          shut,             \* connections with the sending side shut down
          peer,             \* what the other end of a connection did
          sent, received,   \* bytes the peer sent, bytes recv returned
          ready,            \* readReady calls in the queue of the event loop
          signals,          \* history: the other signals, with their thread
          read,             \* history: the bytes the program read
          left              \* history: threads cut off by close() or open()

members == <<socketId, connectionState>>
program == <<user, request, thread, joinable, read, left>>
network == <<handles, shut, peer, sent, received>>
reader == <<pc, fd, buffer>>
output == <<data, ready, signals>>
vars == <<members, program, network, reader, output>>

Init == /\ user = "idle" /\ request = "close"
        /\ thread = None /\ joinable = FALSE
        /\ socketId = None /\ connectionState = FALSE
        /\ data = <<>>
        /\ pc = [n \in Threads |-> "none"]
        /\ fd = [n \in Threads |-> None]
        /\ buffer = [n \in Threads |-> <<>>]
        /\ handles = {} /\ shut = {}
        /\ peer = [n \in Threads |-> "none"]
        /\ sent = [n \in Threads |-> 0]
        /\ received = [n \in Threads |-> 0]
        /\ ready = 0 /\ signals = <<>> /\ read = <<>> /\ left = {}

-----------------------------------------------------------------------------
\* The program's thread.

\* The server makes a socket of an accepted connection and starts its thread.
Accept ==
    /\ user = "idle" /\ thread = None /\ pc[1] = "none"
    /\ socketId' = 1 /\ connectionState' = TRUE
    /\ handles' = {1} /\ peer' = [peer EXCEPT ![1] = "open"]
    /\ thread' = 1 /\ joinable' = TRUE
    /\ pc' = [pc EXCEPT ![1] = "begin"]
    /\ UNCHANGED <<user, request, read, left, fd, buffer, shut, sent, received, output>>

\* open(): forget the descriptor...
Open ==
    /\ user = "idle" /\ thread < MaxThreads
    /\ request' = "open"
    /\ socketId' = None
    /\ user' = "reset"
    /\ UNCHANGED <<thread, joinable, read, left, connectionState, network, reader, output>>

\* ... and the state; a file name that is no address ends the call here with
\* an exception.
Reset ==
    /\ user = "reset"
    /\ connectionState' = FALSE
    /\ left' = left \cup ({thread} \ {None})
    /\ user' \in {"joinThread", "idle"}
    /\ UNCHANGED <<request, thread, joinable, read, socketId, network, reader, output>>

\* What follows the end of close(), in close() itself and in the destructor.
Closed(op) == IF op = "destroy" THEN "joinThread" ELSE "idle"

\* close(), called by the program or the destructor: nothing to do if the
\* socket is not open.
Close(op) ==
    /\ user = "idle"
    /\ request' = op
    /\ connectionState' = FALSE
    /\ user' = IF connectionState THEN "shutdown" ELSE Closed(op)
    /\ left' = IF connectionState THEN left \cup ({thread} \ {None}) ELSE left
    /\ UNCHANGED <<thread, joinable, read, socketId, network, reader, output>>

\* A close() that does not shut the connection down.
ForgetShutdown ==
    /\ user = "shutdown"
    /\ user' = "join"
    /\ shut' = shut
    /\ UNCHANGED <<request, thread, joinable, read, left, members, handles, peer,
                   sent, received, reader, output>>

\* close(): shut down the sending side, if there is a connection by now.
Shutdown ==
    /\ user = "shutdown"
    /\ user' = "join"
    /\ shut' = shut \cup {c \in handles : c = socketId /\ peer[c] # "none"}
    /\ UNCHANGED <<request, thread, joinable, read, left, members, handles, peer,
                   sent, received, reader, output>>

\* close() without the join.
CloseDetached ==
    /\ user = "join"
    /\ joinable' = FALSE
    /\ user' = Closed(request)
    /\ UNCHANGED <<request, thread, read, left, members, network, reader, output>>

\* close(): wait for the reader.  A thread that was joined before cannot be
\* joined again: the exception ends the program.
CloseJoins ==
    /\ user = "join"
    /\ joinable => pc[thread] = "done"
    /\ joinable' = FALSE
    /\ user' = IF joinable THEN Closed(request) ELSE "crashed"
    /\ UNCHANGED <<request, thread, read, left, members, network, reader, output>>

\* A startThread() that lets go of a thread that still runs.
StartUnjoined ==
    /\ user = "joinThread"
    /\ IF request = "destroy"
       THEN /\ user' = "gone" /\ thread' = None /\ joinable' = FALSE
            /\ pc' = pc
       ELSE \E n \in Threads :
            /\ pc[n] = "none" /\ \A m \in 1 .. n - 1 : pc[m] # "none"
            /\ user' = "idle" /\ thread' = n /\ joinable' = TRUE
            /\ pc' = [pc EXCEPT ![n] = "begin"]
    /\ UNCHANGED <<request, read, left, members, network, fd, buffer, output>>

\* joinThread(), from the destructor or from open(), which then starts the
\* next thread.
JoinThread ==
    /\ user = "joinThread"
    /\ joinable => pc[thread] = "done"
    /\ IF request = "destroy"
       THEN /\ user' = "gone" /\ thread' = None /\ joinable' = FALSE
            /\ pc' = pc
       ELSE \E n \in Threads :
            /\ pc[n] = "none" /\ \A m \in 1 .. n - 1 : pc[m] # "none"
            /\ user' = "idle" /\ thread' = n /\ joinable' = TRUE
            /\ pc' = [pc EXCEPT ![n] = "begin"]
    /\ UNCHANGED <<request, read, left, members, network, fd, buffer, output>>

\* The slot of readReady begins...
SlotBegins ==
    /\ user = "idle" /\ ready > 0
    /\ ready' = ready - 1
    /\ user' = "reading"
    /\ UNCHANGED <<request, thread, joinable, read, left, members, network, reader,
                   data, signals>>

\* A read that returns a byte the buffer does not have.
ReadPast ==
    /\ user = "reading"
    /\ read' = Append(read \o data, <<None, None>>)
    /\ data' = <<>>
    /\ UNCHANGED <<user, request, thread, joinable, left, members, network, reader,
                   ready, signals>>

\* ... reads once more, as much as it asks for...
Read == \E size \in 1 .. Len(data) :
    /\ user = "reading"
    /\ read' = read \o SubSeq(data, 1, size)
    /\ data' = SubSeq(data, size + 1, Len(data))
    /\ UNCHANGED <<user, request, thread, joinable, left, members, network, reader,
                   ready, signals>>

\* ... and ends when atEnd() says so.
SlotEnds ==
    /\ user = "reading" /\ data = <<>>
    /\ user' = "idle"
    /\ UNCHANGED <<request, thread, joinable, read, left, members, network, reader, output>>

Program == \/ Accept \/ Open \/ Reset \/ Shutdown \/ CloseJoins \/ JoinThread
           \/ \E op \in {"close", "destroy"} : Close(op)
           \/ SlotBegins \/ Read \/ SlotEnds

-----------------------------------------------------------------------------
\* A reader thread.

Goto(n, label) == pc' = [pc EXCEPT ![n] = label]
Say(n, signal) == signals' = Append(signals, <<signal, n>>)

\* run(): is the descriptor known?
Begin(n) ==
    /\ pc[n] = "begin"
    /\ Goto(n, IF socketId = None THEN "socket" ELSE "adopt")
    /\ UNCHANGED <<program, members, network, fd, buffer, output>>

\* run(): the connection exists, as in a socket of a server.
Adopt(n) ==
    /\ pc[n] = "adopt"
    /\ connectionState' = TRUE
    /\ Goto(n, "recv")
    /\ UNCHANGED <<program, socketId, network, fd, buffer, output>>

\* connect(): a descriptor is made...
Socket(n) ==
    /\ pc[n] = "socket"
    /\ socketId' = n
    /\ handles' = handles \cup {n}
    /\ Goto(n, "connect")
    /\ UNCHANGED <<program, connectionState, shut, peer, sent, received, fd, buffer, output>>

\* ... or not.
SocketFails(n) ==
    /\ pc[n] = "socket"
    /\ socketId' = None
    /\ Say(n, "error")
    /\ Goto(n, "failed")
    /\ UNCHANGED <<program, connectionState, network, fd, buffer, data, ready>>

\* run(): the thread closes the socket, and waits for itself if it is open.
Fail(n) ==
    /\ pc[n] = "failed"
    /\ connectionState' = FALSE
    /\ user' = IF connectionState THEN "crashed" ELSE user
    /\ Goto(n, "done")
    /\ UNCHANGED <<request, thread, joinable, read, left, socketId, network, fd,
                   buffer, output>>

\* connect(): ::connect, whose result nobody looks at.
Connect(n) ==
    /\ pc[n] = "connect"
    /\ \E answer \in IF socketId = n THEN {"open", "refused"} ELSE {"refused"} :
          peer' = [peer EXCEPT ![n] = answer]
    /\ Goto(n, "set")
    /\ UNCHANGED <<program, members, handles, shut, sent, received, fd, buffer, output>>

\* A connect() that leaves the state alone.
EstablishedUnset(n) ==
    /\ pc[n] = "set"
    /\ connectionState' = connectionState
    /\ Goto(n, "connected")
    /\ UNCHANGED <<program, socketId, network, fd, buffer, output>>

\* connect(): connectionState = true.
Established(n) ==
    /\ pc[n] = "set"
    /\ connectionState' = TRUE
    /\ Goto(n, "connected")
    /\ UNCHANGED <<program, socketId, network, fd, buffer, output>>

\* run(): EB_EMIT(connected).
EmitConnected(n) ==
    /\ pc[n] = "connected"
    /\ Say(n, "connected")
    /\ Goto(n, "recv")
    /\ UNCHANGED <<program, members, network, fd, buffer, data, ready>>

\* receiveData(): recv is called with the descriptor of this moment...
Recv(n) ==
    /\ pc[n] = "recv"
    /\ fd' = [fd EXCEPT ![n] = socketId]
    /\ Goto(n, "wait")
    /\ UNCHANGED <<program, members, network, buffer, output>>

\* ... and returns some of the bytes that came...
RecvData(n) == \E c \in handles : \E size \in 1 .. sent[c] - received[c] :
    /\ pc[n] = "wait" /\ fd[n] = c /\ peer[c] \in {"open", "closed"}
    /\ received' = [received EXCEPT ![c] = @ + size]
    /\ buffer' = [buffer EXCEPT ![n] = [i \in 1 .. size |-> <<c, received[c] + i>>]]
    /\ Goto(n, "got")
    /\ UNCHANGED <<program, members, handles, shut, peer, sent, fd, output>>

\* ... or 0 at their end...
RecvEnd(n) == \E c \in handles :
    /\ pc[n] = "wait" /\ fd[n] = c
    /\ peer[c] = "closed" /\ received[c] = sent[c]
    /\ Goto(n, "end")
    /\ UNCHANGED <<program, members, network, fd, buffer, output>>

\* ... or -1, for a connection that broke or is none.
RecvFails(n) ==
    /\ pc[n] = "wait"
    /\ fd[n] \in handles => peer[fd[n]] \in {"reset", "refused"}
    /\ Goto(n, "broken")
    /\ UNCHANGED <<program, members, network, fd, buffer, output>>

\* A reader that stores the bytes of a closed socket too, and keeps quiet.
StoreAlways(n) ==
    /\ pc[n] = "got"
    /\ data' = data \o buffer[n]
    /\ buffer' = [buffer EXCEPT ![n] = <<>>]
    /\ Goto(n, IF connectionState THEN "ready" ELSE "recv")
    /\ UNCHANGED <<program, members, network, fd, ready, signals>>

\* run(): bytes are stored if the socket is open...
Store(n) ==
    /\ pc[n] = "got"
    /\ data' = IF connectionState THEN data \o buffer[n] ELSE data
    /\ buffer' = [buffer EXCEPT ![n] = <<>>]
    /\ Goto(n, IF connectionState THEN "ready" ELSE "recv")
    /\ UNCHANGED <<program, members, network, fd, ready, signals>>

\* ... and then told.
EmitReady(n) ==
    /\ pc[n] = "ready"
    /\ ready' = ready + 1
    /\ Goto(n, "recv")
    /\ UNCHANGED <<program, members, network, fd, buffer, data, signals>>

\* run(): the descriptor of this moment is closed...
CloseHandle(n) ==
    /\ pc[n] \in {"end", "broken"}
    /\ handles' = handles \ {socketId}
    /\ Goto(n, IF pc[n] = "end" THEN "ended" ELSE "failure")
    /\ UNCHANGED <<program, members, shut, peer, sent, received, fd, buffer, output>>

\* ... and the end is told, as an error if nobody called close().
Finish(n) ==
    /\ pc[n] \in {"ended", "failure"}
    /\ Say(n, IF pc[n] = "failure" /\ connectionState THEN "error" ELSE "disconnected")
    /\ Goto(n, "done")
    /\ UNCHANGED <<program, members, network, fd, buffer, data, ready>>

Run(n) == /\ user # "crashed"
          /\ \/ Begin(n) \/ Adopt(n) \/ Socket(n) \/ SocketFails(n) \/ Fail(n)
             \/ Connect(n) \/ Established(n) \/ EmitConnected(n)
             \/ Recv(n) \/ RecvData(n) \/ RecvEnd(n) \/ RecvFails(n)
             \/ Store(n) \/ EmitReady(n) \/ CloseHandle(n) \/ Finish(n)

-----------------------------------------------------------------------------
\* The peers.

PeerSends(n) ==
    /\ peer[n] = "open" /\ sent[n] < MaxBytes
    /\ sent' = [sent EXCEPT ![n] = @ + 1]
    /\ UNCHANGED <<program, members, handles, shut, peer, received, reader, output>>

PeerEnds(n) ==
    /\ peer[n] = "open"
    /\ \E how \in {"closed", "reset"} : peer' = [peer EXCEPT ![n] = how]
    /\ UNCHANGED <<program, members, handles, shut, sent, received, reader, output>>

PeerAnswersShutdown(n) == n \in shut /\ PeerEnds(n)

Next == \/ Program
        \/ \E n \in Threads : Run(n) \/ PeerSends(n) \/ PeerEnds(n)

Spec == Init /\ [][Next]_vars

\* Threads are scheduled, ::connect ends, and a peer closes a connection the
\* other side has shut down.  Nobody has to send or to close otherwise.
FairSpec == /\ Spec
            /\ WF_vars(Shutdown) /\ WF_vars(CloseJoins) /\ WF_vars(JoinThread)
            /\ \A n \in Threads : WF_vars(Run(n)) /\ WF_vars(PeerAnswersShutdown(n))

-----------------------------------------------------------------------------

Labels == {"none", "begin", "adopt", "socket", "failed", "connect", "set", "connected",
           "recv", "wait", "got", "ready", "end", "broken", "ended", "failure", "done"}
Bytes == Threads \X (1 .. MaxBytes)

TypeOK == /\ user \in {"idle", "reset", "shutdown", "join", "joinThread", "reading",
                       "gone", "crashed"}
          /\ request \in {"open", "close", "destroy"}
          /\ thread \in Threads \cup {None} /\ joinable \in BOOLEAN
          /\ socketId \in Threads \cup {None} /\ connectionState \in BOOLEAN
          /\ data \in Seq(Bytes) /\ read \in Seq(Bytes)
          /\ pc \in [Threads -> Labels]
          /\ fd \in [Threads -> Threads \cup {None}]
          /\ buffer \in [Threads -> Seq(Bytes)]
          /\ handles \subseteq Threads /\ shut \subseteq Threads
          /\ peer \in [Threads -> {"none", "open", "refused", "closed", "reset"}]
          /\ sent \in [Threads -> 0 .. MaxBytes]
          /\ received \in [Threads -> 0 .. MaxBytes]
          /\ ready \in Nat
          /\ signals \in Seq({"connected", "disconnected", "error"} \X Threads)
          /\ left \subseteq Threads

\* Only the thread the socket still has to join is alive: after a close() that
\* found the socket open, and after the destructor, no signal comes any more
\* and the buffer does not grow.
OneReader == \A n \in Threads :
    pc[n] \notin {"none", "done"} => n = thread /\ joinable

\* The program reads what the peers sent, connection after connection, each
\* from its first byte on, with no byte lost, repeated or out of place.
BytesInOrder == LET all == read \o data IN \A i \in 1 .. Len(all) :
    \/ all[i][2] = 1 /\ (i > 1 => all[i - 1][1] < all[i][1])
    \/ i > 1 /\ all[i] = <<all[i - 1][1], all[i - 1][2] + 1>>

\* A program that reads in the slot of readReady until atEnd() misses nothing:
\* as long as bytes are in the buffer, the slot runs or will.
NoByteForgotten == user # "crashed" /\ data # <<>> =>
    ready > 0 \/ user = "reading" \/ \E n \in Threads : pc[n] = "ready"

\* When a connection the program did not cut off ends with disconnected, every
\* byte its peer sent has been stored first.
EndAfterData == \A n \in Threads \ left :
    (\E i \in 1 .. Len(signals) : signals[i] = <<"disconnected", n>>) =>
        sent[n] = Cardinality({i \in 1 .. Len(read \o data) : (read \o data)[i][1] = n})

\* close() of a connection that was made returns: the peer sees the end of the
\* stream and closes.  (An open() that found the thread before it still
\* connecting can leave the state TRUE while its own thread connects; a close()
\* that comes then has nothing to shut down and waits for the peer.)
CloseReturns ==
    (user = "shutdown" /\ pc[thread] \notin {"begin", "socket", "connect"})
        ~> (user \notin {"shutdown", "join"})

\* "Returns the current connection state, true if the connection es
\* established, false if the connection is closed": what isOpened() says.
OpenedMeansConnected == user = "idle" /\ connectionState => socketId \in handles

=============================================================================
