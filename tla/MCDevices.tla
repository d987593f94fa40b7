----------------------------- MODULE MCDevices -----------------------------
(***************************************************************************)
(* Instances of the components that deliver what they have through the     *)
(* event loop: the HTTP server on TCP or SSL, the HTTP client, the serial  *)
(* port, the ping and the SSL socket.  They do not interact, so a          *)
(* behaviour is one of any of them, and kind says of which.  Variables of  *)
(* the same name are shared; those a component does not have are 0.        *)
(***************************************************************************)
EXTENDS Integers, FiniteSets, Sequences

CONSTANTS MaxClients, MaxPieces, MaxRequests, Timeout, Lines, Body, MaxOpens, MaxBytes,
          MaxPings, Hosts

ASSUME DevicesAssumption ==
    /\ {MaxClients, MaxPieces, MaxRequests, Timeout, Lines, MaxOpens, MaxPings}
          \subseteq Nat \ {0}
    /\ {Body, MaxBytes} \subseteq Nat
    /\ Hosts # {}

VARIABLES kind, peer, reader, received, data, state, queue, loop, user, opens, outcomes,
          tls, bound, listening, acceptor, held, tail, clients, slots, current,
          requests, refused, taken, finished, announced, early, broken, request,
          isFinished, isError, receivingFinished, headerReceived, receivePayload,
          time, timer, connected, thrown, handle, owned, thread, line, buffer,
          ready, style, read, pings, destination, running, pc, pinged, host, moved,
          ssl, session, signals

serverOnly == <<tls, bound, listening, acceptor, held, tail, clients, slots,
                current, requests, refused, taken, finished, announced, early,
                broken>>
clientOnly == <<request, isFinished, isError, receivingFinished, headerReceived,
                receivePayload, time, timer, connected, thrown>>
serialOnly == <<handle, owned, thread, line, buffer, ready, style, read>>
icmpOnly == <<pings, destination, running, pc, pinged, host, moved>>
sslOnly == <<ssl, session, signals>>

Server == INSTANCE HttpServer
Client == INSTANCE HttpClient
Serial == INSTANCE SerialPort
Ping == INSTANCE Icmp
Ssl == INSTANCE SslSocket

\* The variables a component does not have.
NoServer == /\ tls = 0 /\ bound = 0 /\ listening = 0 /\ acceptor = 0 /\ held = 0
            /\ tail = 0 /\ clients = 0 /\ slots = 0 /\ current = 0 /\ requests = 0
            /\ refused = 0 /\ taken = 0 /\ finished = 0 /\ announced = 0 /\ early = 0
            /\ broken = 0
NoClient == /\ request = 0 /\ isFinished = 0 /\ isError = 0 /\ receivingFinished = 0 /\ headerReceived = 0
            /\ receivePayload = 0 /\ time = 0 /\ timer = 0 /\ connected = 0 /\ thrown = 0
NoSerial == /\ handle = 0 /\ owned = 0 /\ thread = 0 /\ line = 0 /\ buffer = 0
            /\ ready = 0 /\ style = 0 /\ read = 0
NoIcmp == /\ pings = 0 /\ destination = 0 /\ running = 0 /\ pc = 0 /\ pinged = 0
          /\ host = 0 /\ moved = 0
NoSsl == /\ ssl = 0 /\ session = 0 /\ signals = 0

Init ==
    \/ /\ kind = "server" /\ Server!Init
       /\ NoClient /\ NoSerial /\ NoIcmp /\ NoSsl
       /\ user = 0 /\ opens = 0 /\ outcomes = 0
    \/ /\ kind = "client" /\ Client!Init
       /\ NoServer /\ NoSerial /\ NoIcmp /\ NoSsl
       /\ user = 0 /\ opens = 0
    \/ /\ kind = "serial" /\ Serial!Init
       /\ NoServer /\ NoClient /\ NoIcmp /\ NoSsl
       /\ peer = 0 /\ received = 0 /\ state = 0 /\ queue = 0 /\ loop = 0 /\ outcomes = 0
    \/ /\ kind = "ping" /\ Ping!Init
       /\ NoServer /\ NoClient /\ NoSerial /\ NoSsl
       /\ peer = 0 /\ reader = 0 /\ received = 0 /\ data = 0 /\ state = 0
       /\ queue = 0 /\ loop = 0 /\ opens = 0
    \/ /\ kind = "ssl" /\ Ssl!Init
       /\ NoServer /\ NoClient /\ NoSerial /\ NoIcmp
       /\ queue = 0 /\ loop = 0 /\ outcomes = 0

ServerStep ==
    /\ kind = "server" /\ Server!Next
    /\ UNCHANGED <<kind, clientOnly, serialOnly, icmpOnly, sslOnly, user, opens,
                   outcomes>>

ClientStep ==
    /\ kind = "client" /\ Client!Next
    /\ UNCHANGED <<kind, serverOnly, serialOnly, icmpOnly, sslOnly, user, opens>>

SerialStep ==
    /\ kind = "serial" /\ Serial!Next
    /\ UNCHANGED <<kind, serverOnly, clientOnly, icmpOnly, sslOnly, peer, received,
                   state, queue, loop, outcomes>>

PingStep ==
    /\ kind = "ping" /\ Ping!Next
    /\ UNCHANGED <<kind, serverOnly, clientOnly, serialOnly, sslOnly, peer, reader,
                   received, data, state, queue, loop, opens>>

SslStep ==
    /\ kind = "ssl" /\ Ssl!Next
    /\ UNCHANGED <<kind, serverOnly, clientOnly, serialOnly, icmpOnly, queue, loop,
                   outcomes>>

Next == ServerStep \/ ClientStep \/ SerialStep \/ PingStep \/ SslStep

vars == <<kind, peer, reader, received, data, state, queue, loop, user, opens, outcomes,
          serverOnly, clientOnly, serialOnly, icmpOnly, sslOnly>>

Spec == Init /\ [][Next]_vars

-----------------------------------------------------------------------------

\* The type invariants of the components.
TypeOK == CASE kind = "server" -> Server!TypeOK
            [] kind = "client" -> Client!TypeOK
            [] kind = "serial" -> Serial!TypeOK
            [] kind = "ping" -> Ping!TypeOK
            [] kind = "ssl" -> Ssl!TypeOK

\* What was asked for is answered once: a request of an HTTP client ends with
\* one of finished and error, a ping has its one outcome in its turn, and the
\* server announces a request once.
OneOutcome == /\ kind = "server" => Server!AnnouncedOnce
              /\ kind = "client" => Client!OneOutcome
              /\ kind = "ping" => Ping!OneOutcome

\* Nothing waits for a signal that will not come: a request that is collected
\* for bytes that are here, a server's list of clients for a connection that
\* has ended, an HTTP client for one that has ended, a program for bytes in
\* the buffer of the serial port.
NothingForgotten == /\ kind = "server" => /\ Server!NoRequestForgotten
                                          /\ Server!GoneClientsAreRemoved
                    /\ kind = "client" => Client!NoRequestHangs
                    /\ kind = "serial" => Serial!NoByteForgotten

\* Everyone gets what belongs to him: the payload of an HTTP client is that of
\* its own request, the bytes of the serial port come in order and once, and a
\* ping names the host it went to.
AnswersBelong == /\ kind = "client" => Client!AnswerIsOwn
                 /\ kind = "serial" => Serial!BytesInOrder
                 /\ kind = "ping" => Ping!ResultNamesHost

\* No thread reads through an SSL session that was freed.
SessionOutlivesReader == kind = "ssl" => Ssl!SessionOutlivesReader

=============================================================================
