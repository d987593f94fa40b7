------------------------------ MODULE SslSocket ------------------------------
(***************************************************************************)
(* EBSslSocket: what differs from EBTcpSocket.  The reader thread makes    *)
(* the session inside connect(), after the TCP connection has set the      *)
(* state; a socket that a server accepted has its session from the start.  *)
(* The program writes through the session from its own thread, and the     *)
(* destructor frees it.  The member ssl has no initial value.              *)
(***************************************************************************)
EXTENDS Integers, FiniteSets, Sequences

CONSTANTS MaxOpens,   \* bound: calls of open()
          MaxBytes    \* bound: records the peer sends

VARIABLES ssl,        \* the member ssl
          session,    \* what it points at
          state,      \* EBTcpSocket::connectionState
          user,       \* where the program's thread is
          opens,      \* history: calls of open()
          reader,     \* where the reader thread is
          peer,       \* what the other end does
          received,   \* records that came
          data,       \* records in the buffer
          signals     \* history: what the socket told of its latest connection

vars == <<ssl, session, state, user, opens, reader, peer, received, data, signals>>

\* Bound: signals of one connection that the history keeps.
MaxSignals == 4

\* A new socket for a client, or the socket of EBSslServer::nextConnection().
Init == /\ user = "idle" /\ opens = 0 /\ received = 0 /\ data = 0 /\ signals = <<>>
        /\ \/ /\ ssl = "garbage" /\ session = "none" /\ state = FALSE
              /\ reader = "none" /\ peer = "none"
           \/ /\ ssl = "set" /\ session = "ready" /\ state = TRUE
              /\ reader = "read" /\ peer = "open"

-----------------------------------------------------------------------------
\* The program.

\* open(): the state is reset...
Open ==
    /\ user = "idle" /\ opens < MaxOpens
    /\ opens' = opens + 1
    /\ state' = FALSE
    /\ user' = "open"
    /\ UNCHANGED <<ssl, session, reader, peer, received, data, signals>>

\* ... and a thread follows the one before it.
StartThread ==
    /\ user = "open" /\ reader \in {"none", "done"}
    /\ reader' = "connect" /\ peer' = "none" /\ received' = 0 /\ signals' = <<>>
    /\ user' = "idle"
    /\ UNCHANGED <<ssl, session, state, opens, data>>

\* Both write() of strings ask isOpened(), the one of raw data does not; each
\* then uses the session, and a failure is told as an error.  Without a session
\* (ssl was never set, or SSL_new() returned NULL) there is nothing to use.
Write(raw) ==
    /\ user = "idle" /\ (raw \/ state)
    /\ user' = IF ssl = "set" THEN user ELSE "crashed"
    /\ signals' = IF ssl = "set" /\ (peer # "open" \/ session # "ready")
                     /\ Len(signals) < MaxSignals
                  THEN Append(signals, "error") ELSE signals
    /\ UNCHANGED <<ssl, session, state, opens, reader, peer, received, data>>

\* close(), of the program or of the destructor; it waits for the reader.
Close(op) ==
    /\ user = "idle"
    /\ state' = FALSE
    /\ user' = IF op = "destroy" THEN "free" ELSE IF state THEN "join" ELSE "idle"
    /\ UNCHANGED <<ssl, session, opens, reader, peer, received, data, signals>>

CloseJoins ==
    /\ user = "join" /\ reader \in {"none", "done"}
    /\ user' = "idle"
    /\ UNCHANGED <<ssl, session, state, opens, reader, peer, received, data, signals>>

\* A destructor that leaves the thread to the base class.
FreeUnjoined ==
    /\ user = "free"
    /\ session' = "freed" /\ ssl' = "null"
    /\ user' = IF ssl = "garbage" THEN "crashed" ELSE "gone"
    /\ UNCHANGED <<state, opens, reader, peer, received, data, signals>>

\* ~EBSslSocket(): close(), joinThread(), and SSL_free of what ssl points at,
\* which is anything if the socket was never connected.
Free ==
    /\ user = "free" /\ reader \in {"none", "done"}
    /\ session' = "freed" /\ ssl' = "null"
    /\ user' = IF ssl = "garbage" THEN "crashed" ELSE "gone"
    /\ UNCHANGED <<state, opens, reader, peer, received, data, signals>>

-----------------------------------------------------------------------------
\* The reader thread.

\* connect(): EBTcpSocket::connect() sets the state, or tells an error.
TcpConnect ==
    /\ reader = "connect"
    /\ \/ /\ state' = TRUE /\ reader' = "new"
          /\ peer' \in {"open", "refused"}
          /\ signals' = signals
       \/ /\ signals' = Append(signals, "error") /\ reader' = "failed"
          /\ UNCHANGED <<state, peer>>
    /\ UNCHANGED <<ssl, session, user, opens, received, data>>

\* connect(): SSL_new() makes a session or returns NULL, which ends connect();
\* NULL replaces the session there was as well.
NewSession ==
    /\ reader = "new"
    /\ \/ ssl' = "set" /\ session' = "new" /\ reader' = "handshake"
       \/ ssl' = "null" /\ session' = "none" /\ reader' = "failed"
    /\ UNCHANGED <<state, user, opens, peer, received, data, signals>>

\* connect(): SSL_connect makes the session and the connection is told...
Handshake ==
    /\ reader = "handshake" /\ peer = "open"
    /\ session' = "ready"
    /\ signals' = Append(signals, "connected")
    /\ reader' = "read"
    /\ UNCHANGED <<ssl, state, user, opens, peer, received, data>>

\* ... or fails.
HandshakeFails ==
    /\ reader = "handshake"
    /\ reader' = "failed"
    /\ UNCHANGED <<ssl, session, state, user, opens, peer, received, data, signals>>

\* run(): connect() failed, close(): if the state is set by now, the thread
\* joins itself and the exception ends the program.
ConnectFailed ==
    /\ reader = "failed"
    /\ reader' = IF state THEN "failed" ELSE "done"
    /\ user' = IF state THEN "crashed" ELSE user
    /\ UNCHANGED <<ssl, session, state, opens, peer, received, data, signals>>

\* receiveData(): SSL_read returns a record...
Receive ==
    /\ reader = "read" /\ peer = "open" /\ received < MaxBytes
    /\ received' = received + 1
    /\ data' = IF state THEN data + 1 ELSE data
    /\ UNCHANGED <<ssl, session, state, user, opens, reader, peer, signals>>

\* ... or 0 or -1, which run() tells.
ReadEnds ==
    /\ reader = "read" /\ peer \in {"closed", "reset"}
    /\ signals' = Append(signals, IF peer = "reset" /\ state THEN "error" ELSE "disconnected")
    /\ reader' = "done"
    /\ UNCHANGED <<ssl, session, state, user, opens, peer, received, data>>

PeerEnds ==
    /\ peer = "open"
    /\ peer' \in {"closed", "reset"}
    /\ UNCHANGED <<ssl, session, state, user, opens, reader, received, data, signals>>

Next == /\ user # "crashed"
        /\ \/ Open \/ StartThread \/ CloseJoins \/ Free
           \/ \E raw \in BOOLEAN : Write(raw)
           \/ \E op \in {"close", "destroy"} : Close(op)
           \/ TcpConnect \/ NewSession \/ Handshake \/ HandshakeFails \/ ConnectFailed
           \/ Receive \/ ReadEnds \/ PeerEnds

Spec == Init /\ [][Next]_vars

-----------------------------------------------------------------------------

TypeOK == /\ ssl \in {"garbage", "set", "null"}
          /\ session \in {"none", "new", "ready", "freed"}
          /\ state \in BOOLEAN /\ opens \in 0 .. MaxOpens
          /\ user \in {"idle", "open", "join", "free", "gone", "crashed"}
          /\ reader \in {"none", "connect", "new", "handshake", "failed", "read", "done"}
          /\ peer \in {"none", "open", "refused", "closed", "reset"}
          /\ received \in 0 .. MaxBytes /\ data \in Nat
          /\ signals \in Seq({"connected", "disconnected", "error"})

\* No thread reads through a session the destructor has freed.
SessionOutlivesReader == session = "freed" => reader \in {"none", "done"}

=============================================================================
