----------------------------- MODULE HttpServer -----------------------------
(***************************************************************************)
(* EBHttpServer on an EBTcpServer or an EBSslServer: the thread that       *)
(* accepts connections, one reader thread per accepted socket, and the     *)
(* event loop, which runs the slots of both servers and of the requests    *)
(* and the program's own slot of newRequest, which sends the reply.        *)
(*                                                                         *)
(* The list of clients is used by the accepting thread and by the loop     *)
(* without a lock: push_back finds the last element and links the new one  *)
(* to it in two steps.  A request is MaxPieces pieces long; how it is      *)
(* parsed is in HttpRequest.  A socket is named after its client.          *)
(***************************************************************************)
EXTENDS Integers, FiniteSets, SequencesExt

CONSTANTS MaxClients,   \* bound: connections
          MaxPieces     \* pieces of a request

Clients == 1 .. MaxClients
None == 0

VARIABLES tls,        \* the server is an EBSslServer
          peer,       \* what each client does
          bound,      \* EBTcpServer::bound
          listening,  \* socketId is open
          acceptor,   \* where EBTcpServer::thread is, "none" if nullptr
          held,       \* the socket it has in its hands
          tail,       \* the last element push_back found
          clients,    \* EBTcpServer::clients
          reader,     \* where the reader thread of each socket is
          received,   \* pieces it received
          data,       \* pieces in the buffer of the socket
          state,      \* sockets with connectionState
          slots,      \* signals of each socket that have a receiver
          queue,      \* calls in the event loop
          loop,       \* where the loop is in a slot
          current,    \* the client of the slot
          requests,   \* EBHttpServer::requests
          refused,    \* requests whose first line is none
          taken,      \* pieces each request has read
          finished,   \* requests with readFinished
          announced,  \* history: how often newRequest was emitted
          early,      \* history: sockets that ended before anyone listened
          broken      \* history: sockets that ended with an error

accepting == <<bound, listening, acceptor, held, tail>>
sockets == <<reader, received, early, broken>>
serving == <<requests, refused, taken, finished, announced>>
vars == <<tls, peer, accepting, sockets, data, state, slots, queue, loop, current,
          clients, serving>>

Init == /\ tls \in BOOLEAN
        /\ peer = [n \in Clients |-> "none"]
        /\ bound = FALSE /\ listening = FALSE
        /\ acceptor = "none" /\ held = None /\ tail = None
        /\ clients = <<>>
        /\ reader = [n \in Clients |-> "none"]
        /\ received = [n \in Clients |-> 0]
        /\ data = [n \in Clients |-> 0]
        /\ state = {} /\ slots = [n \in Clients |-> {}]
        /\ queue = <<>> /\ loop = "idle" /\ current = None
        /\ requests = {} /\ refused = {} /\ taken = [n \in Clients |-> 0] /\ finished = {}
        /\ announced = [n \in Clients |-> 0]
        /\ early = {} /\ broken = {}

Post(slot, n) == queue' = Append(queue, <<slot, n>>)
Listed(n) == \E i \in 1 .. Len(clients) : clients[i] = n

-----------------------------------------------------------------------------
\* The clients.

Backlog == {n \in Clients : peer[n] # "none" /\ reader[n] = "none" /\ held # n}

ClientConnects(n) ==
    /\ listening
    /\ peer[n] = "none" /\ \A m \in 1 .. n - 1 : peer[m] # "none"
    /\ peer' = [peer EXCEPT ![n] = "open"]
    /\ UNCHANGED <<tls, accepting, sockets, data, state, slots, queue, loop,
                   current, clients, serving>>

ClientEnds(n) ==
    /\ peer[n] = "open"
    /\ peer' = [peer EXCEPT ![n] = "gone"]
    /\ UNCHANGED <<tls, accepting, sockets, data, state, slots, queue,
                   loop, current, clients, serving>>

-----------------------------------------------------------------------------
\* bind() and unbind(), which the program calls between two slots.

Bind ==
    /\ loop = "idle" /\ acceptor = "none"
    /\ bound' = TRUE /\ listening' = TRUE
    /\ acceptor' = "check"
    /\ UNCHANGED <<tls, peer, held, tail, sockets, data, state, slots, queue, loop,
                   current, clients, serving>>

Unbind ==
    /\ loop = "idle"
    /\ bound' = FALSE /\ listening' = FALSE
    /\ loop' = IF acceptor = "none" THEN "idle" ELSE "unbind"
    /\ UNCHANGED <<tls, peer, acceptor, held, tail, sockets, data, state, slots, queue,
                   current, clients, serving>>

\* unbind(): an accept() that has begun ends with the next client only.
UnbindJoins ==
    /\ loop = "unbind" /\ acceptor = "done"
    /\ acceptor' = "none" /\ loop' = "idle"
    /\ UNCHANGED <<tls, peer, bound, listening, held, tail, sockets, data, state,
                   slots, queue, current, clients, serving>>

-----------------------------------------------------------------------------
\* The accepting thread.

\* acceptConnections(): while (bound) ...
CheckBound ==
    /\ acceptor = "check"
    /\ acceptor' = IF bound THEN "accept" ELSE "done"
    /\ UNCHANGED <<tls, peer, bound, listening, held, tail, sockets, data, state,
                   slots, queue, loop, current, clients, serving>>

\* nextConnection(): accept() of a descriptor that was closed fails.
CallAccept ==
    /\ acceptor = "accept"
    /\ acceptor' = IF listening THEN "blocked" ELSE "check"
    /\ UNCHANGED <<tls, peer, bound, listening, held, tail, sockets, data, state,
                   slots, queue, loop, current, clients, serving>>

\* nextConnection(): accept() returns a client.
AcceptReturns == \E n \in Backlog :
    /\ acceptor = "blocked"
    /\ held' = n
    /\ acceptor' = IF tls THEN "handshake" ELSE "start"
    /\ UNCHANGED <<tls, peer, bound, listening, tail, sockets, data, state, slots,
                   queue, loop, current, clients, serving>>

\* EBSslServer::nextConnection(): SSL_accept() waits for the client and ends
\* with a session...
Handshake ==
    /\ acceptor = "handshake" /\ peer[held] = "open"
    /\ acceptor' = "start"
    /\ UNCHANGED <<tls, peer, bound, listening, held, tail, sockets, data, state,
                   slots, queue, loop, current, clients, serving>>

\* ... or not, and the descriptor is closed again.
HandshakeFails ==
    /\ acceptor = "handshake"
    /\ acceptor' = "check" /\ held' = None
    /\ reader' = [reader EXCEPT ![held] = "done"]
    /\ UNCHANGED <<tls, peer, bound, listening, tail, received, early, broken, data,
                   state, slots, queue, loop, current, clients, serving>>

\* nextConnection(): a socket for the connection, and its thread.
StartThread ==
    /\ acceptor = "start"
    /\ state' = state \cup {held}
    /\ reader' = [reader EXCEPT ![held] = "recv"]
    /\ acceptor' = "connect"
    /\ UNCHANGED <<tls, peer, bound, listening, held, tail, received, early, broken,
                   data, slots, queue, loop, current, clients, serving>>

\* acceptConnections(): disconnected.connect...
ConnectDisconnected ==
    /\ acceptor = "connect"
    /\ slots' = [slots EXCEPT ![held] = @ \cup {"disconnected"}]
    /\ acceptor' = "push"
    /\ UNCHANGED <<tls, peer, bound, listening, held, tail, sockets, data, state,
                   queue, loop, current, clients, serving>>

\* ... clients.push_back finds the end...
PushFindsEnd ==
    /\ acceptor = "push"
    /\ tail' = IF clients = <<>> THEN None ELSE clients[Len(clients)]
    /\ acceptor' = "link"
    /\ UNCHANGED <<tls, peer, bound, listening, held, sockets, data, state, slots,
                   queue, loop, current, clients, serving>>

\* ... and links the socket to it, or to an element the loop has removed...
PushLinks ==
    /\ acceptor = "link"
    /\ clients' = IF tail = None \/ Listed(tail) THEN Append(clients, held) ELSE clients
    /\ acceptor' = "emit" /\ tail' = None
    /\ UNCHANGED <<tls, peer, bound, listening, held, sockets, data, state,
                   slots, queue, loop, current, serving>>

\* ... and newConnection is emitted.
EmitNewConnection ==
    /\ acceptor = "emit"
    /\ Post("newConnection", held)
    /\ acceptor' = "check" /\ held' = None
    /\ UNCHANGED <<tls, peer, bound, listening, tail, sockets, data, state, slots,
                   loop, current, clients, serving>>

AcceptConnections == \/ CheckBound \/ CallAccept \/ AcceptReturns
                     \/ Handshake \/ HandshakeFails \/ StartThread
                     \/ ConnectDisconnected \/ PushFindsEnd \/ PushLinks
                     \/ EmitNewConnection

-----------------------------------------------------------------------------
\* The reader thread of a socket.

\* Bytes come and are stored, if the socket was not closed...
Receive(n) == \E size \in 1 .. MaxPieces - received[n] :
    /\ reader[n] = "recv" /\ peer[n] = "open"
    /\ received' = [received EXCEPT ![n] = @ + size]
    /\ data' = IF n \in state THEN [data EXCEPT ![n] = @ + size] ELSE data
    /\ reader' = IF n \in state THEN [reader EXCEPT ![n] = "ready"] ELSE reader
    /\ UNCHANGED <<tls, peer, accepting, early, broken, state, slots, queue, loop,
                   current, clients, serving>>

\* ... and told to those who listen by now.
EmitReadReady(n) ==
    /\ reader[n] = "ready"
    /\ IF "readReady" \in slots[n] THEN Post("readReady", n) ELSE queue' = queue
    /\ reader' = [reader EXCEPT ![n] = "recv"]
    /\ UNCHANGED <<tls, peer, accepting, received, early, broken, data, state, slots,
                   loop, current, clients, serving>>

\* recv returns 0 or -1: an error, which no server listens to, if it broke
\* while the socket was open, or else disconnected.
EndOfStream(n) == \E result \in {0, -1} :
    /\ reader[n] = "recv" /\ peer[n] = "gone"
    /\ LET fails == result = -1 /\ n \in state IN
         /\ broken' = IF fails THEN broken \cup {n} ELSE broken
         /\ early' = IF "disconnected" \in slots[n] THEN early ELSE early \cup {n}
         /\ IF ~fails /\ "disconnected" \in slots[n]
            THEN Post("disconnected", n) ELSE queue' = queue
    /\ reader' = [reader EXCEPT ![n] = "done"]
    /\ UNCHANGED <<tls, peer, accepting, received, data, state, slots, loop, current,
                   clients, serving>>

Read(n) == Receive(n) \/ EmitReadReady(n) \/ EndOfStream(n)

-----------------------------------------------------------------------------
\* The event loop.

Call(slot) == loop = "idle" /\ queue # <<>> /\ Head(queue)[1] = slot
Sender == Head(queue)[2]

\* EBTcpServer::disconnected(): the client is looked for; if the list does not
\* have it, the pointer to it is null and get() throws through the loop.
Disconnected ==
    /\ Call("disconnected")
    /\ \/ \E i \in 1 .. Len(clients) :
             /\ clients[i] = Sender /\ \A j \in 1 .. i - 1 : clients[j] # Sender
             /\ clients' = RemoveAt(clients, i) /\ loop' = loop
       \/ ~Listed(Sender) /\ clients' = clients /\ loop' = "crashed"
    /\ queue' = Tail(queue)
    /\ UNCHANGED <<tls, peer, accepting, sockets, data, state, slots, current, serving>>

\* A setSocket() that relies on the signals to come.
NewConnectionSignalsOnly ==
    /\ Call("newConnection")
    /\ requests' = requests \cup {Sender}
    /\ slots' = [slots EXCEPT ![Sender] = @ \cup {"readReady"}]
    /\ queue' = Tail(queue)
    /\ UNCHANGED <<tls, peer, accepting, sockets, data, state, loop, current, clients,
                   refused, taken, finished, announced>>

\* EBHttpServer::newConnection(): a request, which listens to the socket...
NewConnection ==
    /\ Call("newConnection")
    /\ requests' = requests \cup {Sender}
    /\ slots' = [slots EXCEPT ![Sender] = @ \cup {"readReady"}]
    /\ loop' = "setSocket" /\ current' = Sender
    /\ queue' = Tail(queue)
    /\ UNCHANGED <<tls, peer, accepting, sockets, data, state, clients,
                   refused, taken, finished, announced>>

\* A readReady() without the test of readFinished.
ParseAgain(n, rest) ==
    /\ taken' = [taken EXCEPT ![n] = @ + data[n]]
    /\ data' = [data EXCEPT ![n] = 0]
    /\ LET complete == taken[n] + data[n] = MaxPieces IN
         /\ finished' = IF complete THEN finished \cup {n} ELSE finished
         /\ queue' = IF complete THEN Append(rest, <<"requestReady", n>>) ELSE rest
    /\ loop' = "idle" /\ current' = None
    /\ UNCHANGED <<state, refused>>

\* EBHttpRequest::readReady() of client n: nothing once the request was read;
\* a first line that is none closes the socket and ends the slot; otherwise
\* what is there is read, and a complete request is ready.
Parse(n, rest) ==
    \/ /\ n \in finished
       /\ loop' = "idle" /\ current' = None /\ queue' = rest
       /\ UNCHANGED <<data, state, refused, taken, finished>>
    \/ /\ n \notin finished /\ taken[n] = 0 /\ data[n] > 0
       /\ refused' = refused \cup {n}
       /\ taken' = [taken EXCEPT ![n] = 1]
       /\ data' = [data EXCEPT ![n] = @ - 1]
       /\ state' = state \ {n}
       /\ loop' = "refuse" /\ current' = n /\ queue' = rest
       /\ finished' = finished
    \/ /\ n \notin finished
       /\ taken' = [taken EXCEPT ![n] = @ + data[n]]
       /\ data' = [data EXCEPT ![n] = 0]
       /\ LET complete == taken[n] + data[n] = MaxPieces IN
            /\ finished' = IF complete THEN finished \cup {n} ELSE finished
            /\ queue' = IF complete THEN Append(rest, <<"requestReady", n>>) ELSE rest
       /\ loop' = "idle" /\ current' = None
       /\ UNCHANGED <<state, refused>>

\* setSocket(): ... and reads what came before it did.
SetSocketReads ==
    /\ loop = "setSocket"
    /\ Parse(current, queue)
    /\ UNCHANGED <<tls, peer, accepting, sockets, slots, clients, requests,
                   announced>>

ReadReady ==
    /\ Call("readReady")
    /\ Parse(Sender, Tail(queue))
    /\ UNCHANGED <<tls, peer, accepting, sockets, slots, clients, requests,
                   announced>>

\* protocolError(): close() waits for the reader; the exception that follows
\* is caught in readReady().
Refuse ==
    /\ loop = "refuse" /\ reader[current] = "done"
    /\ loop' = "idle" /\ current' = None
    /\ UNCHANGED <<tls, peer, accepting, sockets, data, state, slots, queue, clients,
                   serving>>

\* EBHttpServer::requestReady()
RequestReady ==
    /\ Call("requestReady")
    /\ announced' = [announced EXCEPT ![Sender] = @ + 1]
    /\ queue' = Append(Tail(queue), <<"newRequest", Sender>>)
    /\ UNCHANGED <<tls, peer, accepting, sockets, data, state, slots, loop, current,
                   clients, requests, refused, taken, finished>>

\* The program's slot: sendReply() writes and closes the socket...
SendReply ==
    /\ Call("newRequest")
    /\ state' = state \ {Sender}
    /\ loop' = IF Sender \in state THEN "close" ELSE "sent"
    /\ current' = Sender
    /\ queue' = Tail(queue)
    /\ UNCHANGED <<tls, peer, accepting, sockets, data, slots, clients, serving>>

\* ... which waits for the reader...
CloseJoins ==
    /\ loop = "close" /\ reader[current] = "done"
    /\ loop' = "sent"
    /\ UNCHANGED <<tls, peer, accepting, sockets, data, state, slots, queue, current,
                   clients, serving>>

\* ... does not listen any more and is finished.
ReplySent ==
    /\ loop = "sent"
    /\ slots' = [slots EXCEPT ![current] = @ \ {"readReady"}]
    /\ Post("requestFinished", current)
    /\ loop' = "idle" /\ current' = None
    /\ UNCHANGED <<tls, peer, accepting, sockets, data, state, clients, serving>>

\* EBHttpServer::requestFinished()
RequestFinished ==
    /\ Call("requestFinished")
    /\ requests' = requests \ {Sender}
    /\ queue' = Tail(queue)
    /\ UNCHANGED <<tls, peer, accepting, sockets, data, state, slots, loop, current,
                   clients, refused, taken, finished, announced>>

Loop == \/ Disconnected \/ NewConnection \/ SetSocketReads \/ ReadReady \/ Refuse
        \/ RequestReady \/ SendReply \/ CloseJoins \/ ReplySent \/ RequestFinished

Next == /\ loop # "crashed"
        /\ \/ Bind \/ Unbind \/ UnbindJoins \/ AcceptConnections \/ Loop
           \/ \E n \in Clients : ClientConnects(n) \/ ClientEnds(n) \/ Read(n)

Spec == Init /\ [][Next]_vars

-----------------------------------------------------------------------------

TypeOK == /\ tls \in BOOLEAN /\ bound \in BOOLEAN /\ listening \in BOOLEAN
          /\ peer \in [Clients -> {"none", "open", "gone"}]
          /\ received \in [Clients -> 0 .. MaxPieces]
          /\ data \in [Clients -> 0 .. MaxPieces]
          /\ taken \in [Clients -> 0 .. MaxPieces]
          /\ acceptor \in {"none", "check", "accept", "blocked", "handshake", "start",
                           "connect", "push", "link", "emit", "done"}
          /\ {held, tail, current} \subseteq Clients \cup {None}
          /\ clients \in Seq(Clients)
          /\ reader \in [Clients -> {"none", "recv", "ready", "done"}]
          /\ slots \in [Clients -> SUBSET {"disconnected", "readReady"}]
          /\ loop \in {"idle", "unbind", "setSocket", "refuse", "close", "sent", "crashed"}
          /\ queue \in Seq({"disconnected", "newConnection", "readReady", "requestReady",
                            "newRequest", "requestFinished"} \X Clients)
          /\ announced \in [Clients -> Nat]
          /\ UNION {refused, state, requests, finished, early, broken} \subseteq Clients

Pending(slot, n) == \E i \in 1 .. Len(queue) : queue[i] = <<slot, n>>

\* A request that is being collected never waits for bytes that are here: what
\* came before the server listened is read by setSocket(), what comes later is
\* told.  (A request that was refused is not collected any more.)
NoRequestForgotten == \A n \in Clients \ (refused \cup finished) :
    data[n] > 0 => \/ reader[n] = "ready" \/ Pending("readReady", n)
                   \/ held = n \/ Pending("newConnection", n)
                   \/ loop = "setSocket" /\ current = n
                   \/ loop = "crashed"

\* However many readReady calls are queued when a request becomes complete,
\* the program is told of it once.
AnnouncedOnce == \A n \in Clients : announced[n] <= 1

\* The list of clients does not grow for ever: a socket whose thread has ended
\* leaves it, or will.  (Except for one that ended before the server listened,
\* and one that ended with an error: the server does not listen to that.)
GoneClientsAreRemoved == loop # "crashed" =>
    \A n \in Clients \ (early \cup broken) :
        Listed(n) /\ reader[n] = "done" => Pending("disconnected", n)

=============================================================================
