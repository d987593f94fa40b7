----------------------------- MODULE HttpClient -----------------------------
(***************************************************************************)
(* EBHttpClient: one request after another over one EBTcpSocket, with an   *)
(* EBTimer for the timeout.  The slots of the client run on the event      *)
(* loop; the reader thread of the socket and the thread of the timer emit. *)
(*                                                                         *)
(* A response is Lines header lines, the last of them empty, and Body      *)
(* pieces.  receiveFirstLine is never reset, so no header line is ever     *)
(* looked at: receiveHeader stays empty, receiveSize stays -1, and the     *)
(* branches that need them do not happen.                                  *)
(*                                                                         *)
(* How the socket and its reader work is in TcpSocket; here a connection   *)
(* is made or refused, brings pieces, and ends.  Request n has the         *)
(* connection n.  A piece of the header is a whole line: a readReady with  *)
(* part of a line, which the code leaves in the buffer, does not occur.    *)
(*                                                                         *)
(* Only the answers are modelled, not what is sent.  (post() adds its      *)
(* arguments to sendPayload and nothing clears it, so every later request, *)
(* a get() too, sends those of all earlier posts again.)                   *)
(***************************************************************************)
EXTENDS Integers, FiniteSets, Sequences

CONSTANTS MaxRequests,   \* bound: calls of get() or post()
          Timeout,       \* HTTP_TIMEOUT
          Lines, Body    \* pieces of a response

Requests == 1 .. MaxRequests
Pieces == Requests \X (1 .. Lines + Body)

VARIABLES request,            \* the latest request, 0 before the first
          isFinished,         \* EBHttpClient::isFinished
          isError,            \* EBHttpClient::isError
          receivingFinished,  \* EBHttpClient::receivingFinished
          headerReceived,     \* EBHttpClient::headerReceived
          receivePayload,     \* EBHttpClient::receivePayload
          time,               \* EBHttpClient::time
          timer,              \* the timer runs
          connected,          \* the slots are connected to the socket
          loop,               \* "idle", or the slot that waits in close()
          queue,              \* calls in the event loop
          state,              \* EBTcpSocket::connectionState
          data,               \* EBTcpSocket::data
          reader,             \* where the thread of the socket is
          peer,               \* what the server does
          received,           \* pieces that came over this connection
          outcomes,           \* history: signals emitted for each request
          thrown              \* history: requests whose open() threw

client == <<request, isFinished, isError, receivingFinished, headerReceived,
            receivePayload, connected>>
socket == <<state, data, reader, peer, received>>
vars == <<client, time, timer, loop, queue, socket, outcomes, thrown>>

Init == /\ request = 0 /\ isFinished = TRUE
        /\ isError \in BOOLEAN /\ receivingFinished \in BOOLEAN
        /\ headerReceived = FALSE /\ receivePayload = <<>>
        /\ time = 0 /\ timer = FALSE /\ connected = FALSE
        /\ loop = "idle" /\ queue = <<>>
        /\ state = FALSE /\ data = <<>> /\ reader = "none"
        /\ peer = "none" /\ received = 0
        /\ outcomes = [n \in Requests |-> <<>>] /\ thrown = {}

-----------------------------------------------------------------------------
\* The program, and the slots of the client.

\* A get() that keeps what the last response brought.
GetKeepsPayload ==
    /\ loop = "idle" /\ isFinished /\ request < MaxRequests
    /\ request' = request + 1
    /\ isFinished' = FALSE /\ connected' = TRUE
    /\ headerReceived' = FALSE /\ receivePayload' = receivePayload
    /\ time' = 0 /\ timer' = TRUE
    /\ state' = FALSE
    /\ \/ reader' = "connect" /\ peer' = "none" /\ received' = 0 /\ thrown' = thrown
       \/ thrown' = thrown \cup {request'} /\ UNCHANGED <<reader, peer, received>>
    /\ UNCHANGED <<isError, receivingFinished, data, loop, queue, outcomes>>

\* get() and post(), which return at once while a request is under way.  The
\* file name made of host and port may be none open() accepts: it throws.
Get ==
    /\ loop = "idle" /\ isFinished /\ request < MaxRequests
    /\ request' = request + 1
    /\ isFinished' = FALSE /\ connected' = TRUE
    /\ headerReceived' = FALSE /\ receivePayload' = <<>>
    /\ time' = 0 /\ timer' = TRUE
    /\ state' = FALSE
    /\ \/ reader' = "connect" /\ peer' = "none" /\ received' = 0 /\ thrown' = thrown
       \/ thrown' = thrown \cup {request'} /\ UNCHANGED <<reader, peer, received>>
    /\ UNCHANGED <<isError, receivingFinished, data, loop, queue, outcomes>>

Call(slot) == loop = "idle" /\ queue # <<>> /\ Head(queue) = slot

\* timeout(): the request is given up, if it is connected; without a
\* connection only the timer ends.
TimeoutSlot ==
    /\ Call("timeout")
    /\ time' = time + 1
    /\ queue' = Tail(queue)
    /\ IF time + 1 >= Timeout
       THEN /\ isError' = (isError \/ state)
            /\ loop' = IF state THEN "timeout" ELSE "idle"
            /\ timer' = (timer /\ state)
            /\ state' = FALSE
       ELSE UNCHANGED <<isError, loop, timer, state>>
    /\ UNCHANGED <<request, isFinished, receivingFinished, headerReceived, receivePayload,
                   connected, data, reader, peer, received, outcomes, thrown>>

\* tcpConnected(): the request is sent.
TcpConnected ==
    /\ Call("connected")
    /\ headerReceived' = FALSE /\ receivingFinished' = FALSE /\ isError' = FALSE
    /\ queue' = Tail(queue)
    /\ UNCHANGED <<request, isFinished, receivePayload, connected, time, timer, loop,
                   socket, outcomes, thrown>>

\* tcpReadReady(): header lines up to the empty one, then all there is.
TcpReadReady ==
    /\ Call("readReady")
    /\ time' = 0
    /\ LET blanks == {i \in 1 .. Len(data) : data[i][2] = Lines}
           first == CHOOSE i \in blanks : \A j \in blanks : i <= j
           lines == IF headerReceived THEN 0 ELSE first
       IN  IF headerReceived \/ blanks # {}
           THEN /\ headerReceived' = TRUE
                /\ receivingFinished' = (receivingFinished \/ ~headerReceived)
                /\ receivePayload' = receivePayload \o SubSeq(data, lines + 1, Len(data))
           ELSE UNCHANGED <<headerReceived, receivingFinished, receivePayload>>
    /\ data' = <<>>
    /\ queue' = Tail(queue)
    /\ UNCHANGED <<request, isFinished, isError, connected, timer, loop, state, reader,
                   peer, received, outcomes, thrown>>

\* tcpError() begins; close() waits for the reader if the socket is open.
TcpError ==
    /\ Call("error")
    /\ timer' = FALSE /\ connected' = FALSE
    /\ isError' = TRUE /\ isFinished' = TRUE
    /\ loop' = IF state THEN "error" ELSE "failed"
    /\ state' = FALSE
    /\ queue' = Tail(queue)
    /\ UNCHANGED <<request, receivingFinished, headerReceived, receivePayload, time, data,
                   reader, peer, received, outcomes, thrown>>

\* close() in a slot ends when the reader does.
CloseJoins ==
    /\ loop \in {"timeout", "error"} /\ reader = "done"
    /\ loop' = IF loop = "error" THEN "failed" ELSE "idle"
    /\ timer' = (timer /\ loop = "error")
    /\ UNCHANGED <<client, time, queue, socket, outcomes, thrown>>

Outcome(signal) == outcomes' = [outcomes EXCEPT ![request] = Append(@, signal)]

\* tcpError() ends.
EmitError ==
    /\ loop = "failed"
    /\ Outcome("error")
    /\ loop' = "idle"
    /\ UNCHANGED <<client, time, timer, queue, socket, thrown>>

\* tcpDisconnected()
TcpDisconnected ==
    /\ Call("disconnected")
    /\ timer' = FALSE /\ connected' = FALSE
    /\ isError' = (isError \/ ~receivingFinished)
    /\ isFinished' = TRUE
    /\ Outcome(IF isError' THEN "error" ELSE "finished")
    /\ queue' = Tail(queue)
    /\ UNCHANGED <<request, receivingFinished, headerReceived, receivePayload, time, loop,
                   socket, thrown>>

Slots == \/ TimeoutSlot \/ TcpConnected \/ TcpReadReady \/ TcpError \/ CloseJoins
         \/ EmitError \/ TcpDisconnected

-----------------------------------------------------------------------------
\* The two threads and the server.

Emit(signal) == queue' = IF connected THEN Append(queue, signal) ELSE queue

\* EBTimer emits timeout; the queue holds no more than two of them here.
Tick ==
    /\ timer
    /\ Len(SelectSeq(queue, LAMBDA c : c = "timeout")) < 2
    /\ queue' = Append(queue, "timeout")
    /\ UNCHANGED <<client, time, timer, loop, socket, outcomes, thrown>>

\* The socket fails to connect, which it tells, or is connected: the result
\* of ::connect is not looked at.
Connect ==
    /\ reader = "connect"
    /\ \/ /\ Emit("error")
          /\ reader' = "done"
          /\ UNCHANGED <<state, peer>>
       \/ /\ state' = TRUE
          /\ peer' \in {"open", "refused"}
          /\ reader' = "connected"
          /\ queue' = queue
    /\ UNCHANGED <<client, time, timer, loop, data, received, outcomes, thrown>>

EmitConnected ==
    /\ reader = "connected"
    /\ Emit("connected")
    /\ reader' = "recv"
    /\ UNCHANGED <<client, time, timer, loop, state, data, peer, received, outcomes, thrown>>

\* Pieces of the response come, and are stored while the socket is open...
Receive == \E size \in 1 .. Lines + Body - received :
    /\ reader = "recv" /\ peer = "open"
    /\ received' = received + size
    /\ data' = IF state THEN data \o [i \in 1 .. size |-> <<request, received + i>>] ELSE data
    /\ reader' = IF state THEN "ready" ELSE "recv"
    /\ UNCHANGED <<client, time, timer, loop, queue, state, peer, outcomes, thrown>>

EmitReadReady ==
    /\ reader = "ready"
    /\ Emit("readReady")
    /\ reader' = "recv"
    /\ UNCHANGED <<client, time, timer, loop, state, data, peer, received, outcomes, thrown>>

\* ... until the stream ends.
EndOfStream ==
    /\ reader = "recv" /\ peer \in {"closed", "reset", "refused"}
    /\ Emit(IF peer # "closed" /\ state THEN "error" ELSE "disconnected")
    /\ reader' = "done"
    /\ UNCHANGED <<client, time, timer, loop, state, data, peer, received, outcomes, thrown>>

PeerEnds ==
    /\ peer = "open"
    /\ peer' \in {"closed", "reset"}
    /\ UNCHANGED <<client, time, timer, loop, queue, state, data, reader, received,
                   outcomes, thrown>>

Next == \/ Get \/ Slots \/ Tick \/ Connect \/ EmitConnected \/ Receive
        \/ EmitReadReady \/ EndOfStream \/ PeerEnds

Spec == Init /\ [][Next]_vars

-----------------------------------------------------------------------------

TypeOK == /\ request \in 0 .. MaxRequests
          /\ {isFinished, isError, receivingFinished, headerReceived, timer, connected,
              state} \subseteq BOOLEAN
          /\ receivePayload \in Seq(Pieces) /\ data \in Seq(Pieces)
          /\ time \in Nat /\ received \in 0 .. Lines + Body
          /\ loop \in {"idle", "timeout", "error", "failed"}
          /\ queue \in Seq({"timeout", "connected", "readReady", "error", "disconnected"})
          /\ reader \in {"none", "connect", "connected", "recv", "ready", "done"}
          /\ peer \in {"none", "open", "refused", "closed", "reset"}
          /\ outcomes \in [Requests -> Seq({"finished", "error"})]
          /\ thrown \subseteq Requests

Pending(slot) == \E i \in 1 .. Len(queue) : queue[i] = slot

\* A request ends with one of finished and error, once, whatever happens to
\* the connection and whenever the timeout comes.
OneOutcome == \A n \in Requests :
    /\ Len(outcomes[n]) <= 1
    /\ n < request => Len(outcomes[n]) = 1 \/ n \in thrown

\* A request that is under way has somebody left to end it: its reader is
\* still there, or the last call of the socket is in the queue.  (Unless open()
\* threw: then isFinished stays FALSE and the client refuses every further
\* request.)  It may still last for ever: a timeout that finds the socket
\* unconnected only stops the timer, and from then on nothing ends a reader
\* whose server never acts.
NoRequestHangs == ~isFinished /\ request \notin thrown =>
    \/ reader \notin {"none", "done"}
    \/ Pending("error") \/ Pending("disconnected")

\* The payload is what this response brought after its header, in order and
\* without a gap; nothing of an earlier response is in it.  A request that is
\* told as finished has its whole header.
AnswerIsOwn ==
    /\ \A i \in 1 .. Len(receivePayload) : receivePayload[i] = <<request, Lines + i>>
    /\ \A n \in Requests : n = request /\ outcomes[n] = <<"finished">> => headerReceived

=============================================================================
