---------------------------- MODULE DevicesProofs ----------------------------
(***************************************************************************)
(* Proofs about the SSL socket, the ping, the serial port, the HTTP client *)
(* and the HTTP server, for any number of opens, bytes, pings, requests,   *)
(* connections and pieces, and the theorems about all of MCDevices.        *)
(***************************************************************************)
EXTENDS MCDevices, SequenceTheorems, WellFoundedInduction, TLAPS

\* The bounds are numbers.
LEMMA Bounds ==
    /\ MaxClients \in Nat /\ MaxPieces \in Nat /\ MaxRequests \in Nat /\ Timeout \in Nat
    /\ Lines \in Nat /\ Body \in Nat /\ MaxOpens \in Nat /\ MaxBytes \in Nat
    /\ MaxPings \in Nat /\ MaxPings > 0 /\ MaxPieces > 0 /\ Lines > 0
BY DevicesAssumption

-----------------------------------------------------------------------------
\* EBSslSocket.

\* A freed session is that of a socket that is gone, and has no reader.
FreedIsGone == session = "freed" =>
    user \in {"gone", "crashed"} /\ reader \in {"none", "done"}

SslInv == Ssl!TypeOK /\ FreedIsGone

LEMMA SslInit == Ssl!Init => SslInv
<1> SUFFICES ASSUME Ssl!Init PROVE SslInv
  OBVIOUS
<1>1. signals \in Seq({"connected", "disconnected", "error"})
  BY EmptySeq DEF Ssl!Init
<1>2. opens \in 0 .. MaxOpens /\ received \in 0 .. MaxBytes /\ data \in Nat
  BY Bounds DEF Ssl!Init
<1>3. QED
  BY <1>1, <1>2 DEF Ssl!Init, SslInv, Ssl!TypeOK, FreedIsGone

LEMMA SslNext == SslInv /\ Ssl!Next => SslInv'
<1> SUFFICES ASSUME SslInv, Ssl!Next PROVE SslInv'
  OBVIOUS
<1>0. \A x \in {"connected", "disconnected", "error"} :
         Append(signals, x) \in Seq({"connected", "disconnected", "error"})
  BY AppendProperties DEF SslInv, Ssl!TypeOK
<1> USE Bounds DEF SslInv, Ssl!TypeOK, FreedIsGone
<1>1. CASE Ssl!Open
  <2>1. opens' \in 0 .. MaxOpens
    BY <1>1 DEF Ssl!Open
  <2>2. QED
    BY <1>1, <2>1 DEF Ssl!Open
<1>2. CASE Ssl!StartThread
  BY <1>2, EmptySeq DEF Ssl!StartThread
<1>3. ASSUME NEW raw \in BOOLEAN, Ssl!Write(raw) PROVE SslInv'
  BY <1>0, <1>3 DEF Ssl!Write
<1>4. ASSUME NEW op \in {"close", "destroy"}, Ssl!Close(op) PROVE SslInv'
  BY <1>4 DEF Ssl!Close
<1>5. CASE Ssl!CloseJoins
  BY <1>5 DEF Ssl!CloseJoins
<1>6. CASE Ssl!Free
  BY <1>6 DEF Ssl!Free
<1>7. CASE Ssl!TcpConnect
  BY <1>0, <1>7 DEF Ssl!TcpConnect
<1>8. CASE Ssl!NewSession \/ Ssl!HandshakeFails \/ Ssl!ConnectFailed
  BY <1>8 DEF Ssl!NewSession, Ssl!HandshakeFails, Ssl!ConnectFailed
<1>9. CASE Ssl!Handshake
  BY <1>0, <1>9 DEF Ssl!Handshake
<1>10. CASE Ssl!Receive \/ Ssl!PeerEnds
  BY <1>10 DEF Ssl!Receive, Ssl!PeerEnds
<1>11. CASE Ssl!ReadEnds
  BY <1>0, <1>11 DEF Ssl!ReadEnds
<1>12. QED
  BY <1>1, <1>2, <1>3, <1>4, <1>5, <1>6, <1>7, <1>8, <1>9, <1>10, <1>11 DEF Ssl!Next

-----------------------------------------------------------------------------
\* EBICMP.

\* Threads are used one after the other: only that of the latest ping may be
\* at work, and a ping waits for it.
InTurn == \A n \in 1 .. MaxPings :
    /\ n > pings => pc[n] = "none"
    /\ n < pings => pc[n] = "done"
    /\ n = pings => pc[n] # "none"
    /\ n = pings /\ user = "join" => pc[n] \in {"error", "finished", "done"}

\* running is TRUE from ping() until the thread resets it.
RunningWhile ==
    /\ user = "join" => running /\ pings < MaxPings
    /\ pings > 0 /\ ~running => pc[pings] \in {"error", "finished", "done"}

\* The outcomes so far are those of the threads that are done.
InOrder == /\ \A i \in 1 .. Len(outcomes) : outcomes[i][2] = i
           /\ pings = 0 => Len(outcomes) = 0
           /\ pings > 0 => Len(outcomes) = IF pc[pings] = "done" THEN pings ELSE pings - 1

\* The destination is that of the address until the result has its name.
NamesHost == \A n \in (1 .. MaxPings) \ moved :
    /\ pc[n] = "send" => pinged[n] = destination
    /\ pc[n] \in {"none", "begin", "send"} => host[n] = "none"
    /\ host[n] \in {"none", pinged[n]}

PingInv == Ping!TypeOK /\ InTurn /\ RunningWhile /\ InOrder /\ NamesHost

LEMMA PingInit == Ping!Init => PingInv
<1> SUFFICES ASSUME Ping!Init PROVE PingInv
  OBVIOUS
<1>1. outcomes \in Seq({"error", "finished"} \X (1 .. MaxPings)) /\ Len(outcomes) = 0
  BY EmptySeq DEF Ping!Init
<1>2. Ping!TypeOK
  <2>1. /\ pinged \in [1 .. MaxPings -> Hosts \cup {"none"}]
        /\ host \in [1 .. MaxPings -> Hosts \cup {"none"}]
        /\ pc \in [1 .. MaxPings -> {"none", "begin", "send", "failed", "answered", "error",
                                     "finished", "done"}]
    BY DEF Ping!Init, Ping!Pings, Ping!None
  <2>2. pings \in 0 .. MaxPings /\ moved \subseteq 1 .. MaxPings
    BY Bounds DEF Ping!Init
  <2>3. QED
    BY <1>1, <2>1, <2>2 DEF Ping!Init, Ping!TypeOK, Ping!Pings, Ping!None
<1>3. InTurn /\ RunningWhile /\ InOrder /\ NamesHost
  BY <1>1, Bounds DEF Ping!Init, Ping!Pings, Ping!None, InTurn, RunningWhile, InOrder, NamesHost
<1>4. QED
  BY <1>2, <1>3 DEF PingInv

LEMMA PingNext == PingInv /\ Ping!Next => PingInv'
<1> SUFFICES ASSUME PingInv, Ping!Next PROVE PingInv'
  OBVIOUS
<1> USE Bounds DEF PingInv, Ping!TypeOK, Ping!Pings, Ping!None
<1>1. CASE Ping!SetDestination
  <2>1. PICK h \in Hosts :
           /\ destination' = h
           /\ moved' = moved \cup {n \in 1 .. MaxPings : pc[n] \notin {"none", "done"}}
           /\ UNCHANGED <<pings, running, user, pc, pinged, host, outcomes>>
    BY <1>1 DEF Ping!SetDestination
  <2>2. Ping!TypeOK'
    BY <2>1
  <2>3. InTurn' /\ RunningWhile' /\ InOrder'
    BY <2>1 DEF InTurn, RunningWhile, InOrder
  <2>4. NamesHost'
    BY <2>1 DEF NamesHost
  <2>5. QED
    BY <2>2, <2>3, <2>4
<1>2. CASE Ping!Ping
  <2>1. Ping!TypeOK'
    BY <1>2 DEF Ping!Ping
  <2>2. InTurn' /\ RunningWhile' /\ InOrder' /\ NamesHost'
    BY <1>2 DEF Ping!Ping, InTurn, RunningWhile, InOrder, NamesHost
  <2>3. QED
    BY <2>1, <2>2
<1>3. CASE Ping!Start
  <2>1. /\ pings + 1 \in 1 .. MaxPings /\ pings' = pings + 1
        /\ pc' = [pc EXCEPT ![pings + 1] = "begin"] /\ pc[pings + 1] = "none"
        /\ user = "join" /\ user' = "idle"
        /\ pings > 0 => pc[pings] = "done"
        /\ UNCHANGED <<destination, running, pinged, host, moved, outcomes>>
    BY <1>3 DEF Ping!Start, RunningWhile, InTurn
  <2>2. Ping!TypeOK'
    BY <2>1
  <2>3. InTurn'
    BY <2>1 DEF InTurn
  <2>4. RunningWhile'
    BY <2>1 DEF RunningWhile
  <2>5. InOrder'
    BY <2>1 DEF InOrder
  <2>6. NamesHost'
    BY <2>1 DEF NamesHost
  <2>7. QED
    BY <2>2, <2>3, <2>4, <2>5, <2>6
<1>4. ASSUME NEW n \in 1 .. MaxPings,
             pc[n] \notin {"none", "done"},
             NEW label \in {"send", "failed", "answered", "error", "finished"},
             pc' = [pc EXCEPT ![n] = label],
             UNCHANGED <<pings, destination, user, moved, outcomes>>,
             running' \in BOOLEAN,
             pc[n] \notin {"error", "finished"},
             label \in {"error", "finished"} <=> ~running',
             pinged' \in [1 .. MaxPings -> Hosts \cup {"none"}],
             host' \in [1 .. MaxPings -> Hosts \cup {"none"}],
             \A m \in 1 .. MaxPings : m # n => pinged'[m] = pinged[m] /\ host'[m] = host[m],
             n \notin moved => /\ label = "send" => pinged'[n] = destination /\ host'[n] = "none"
                               /\ host'[n] \in {"none", pinged'[n]}
      PROVE  PingInv'
  <2>1. n = pings /\ pings > 0 /\ user = "idle"
    BY <1>4 DEF InTurn
  <2>2. pc'[n] = label /\ \A m \in 1 .. MaxPings : m # n => pc'[m] = pc[m]
    BY <1>4
  <2>3. Ping!TypeOK'
    BY <1>4
  <2>4. InTurn'
    BY <1>4, <2>1, <2>2 DEF InTurn
  <2>5. RunningWhile'
    BY <1>4, <2>1, <2>2 DEF RunningWhile
  <2>6. InOrder'
    BY <1>4, <2>1, <2>2 DEF InOrder
  <2>7. NamesHost'
    BY <1>4, <2>1, <2>2 DEF NamesHost
  <2>8. QED
    BY <2>3, <2>4, <2>5, <2>6, <2>7
<1>5. ASSUME NEW n \in 1 .. MaxPings, Ping!Address(n) PROVE PingInv'
  <2>1. running
    BY <1>5 DEF Ping!Address, InTurn, RunningWhile
  <2>2. QED
    BY <1>4, <1>5, <2>1 DEF Ping!Address, Ping!Goto, NamesHost
<1>6. ASSUME NEW n \in 1 .. MaxPings, Ping!SendEcho(n) PROVE PingInv'
  <2>1. running
    BY <1>6 DEF Ping!SendEcho, InTurn, RunningWhile
  <2>2. /\ pc[n] = "send" /\ UNCHANGED <<pings, destination, running, user, pinged, moved, outcomes>>
        /\ \/ pc' = [pc EXCEPT ![n] = "failed"] /\ host' = host
           \/ pc' = [pc EXCEPT ![n] = "answered"] /\ host' = [host EXCEPT ![n] = destination]
    BY <1>6 DEF Ping!SendEcho, Ping!Goto
  <2>3. CASE pc' = [pc EXCEPT ![n] = "failed"] /\ host' = host
    BY <1>4, <2>1, <2>2, <2>3 DEF NamesHost
  <2>4. CASE pc' = [pc EXCEPT ![n] = "answered"] /\ host' = [host EXCEPT ![n] = destination]
    <3>1. host'[n] = destination /\ (n \notin moved => destination = pinged[n])
      BY <2>2, <2>4 DEF NamesHost
    <3>2. QED
      BY <1>4, <2>1, <2>2, <2>4, <3>1
  <2>5. QED
    BY <2>2, <2>3, <2>4
<1>7. ASSUME NEW n \in 1 .. MaxPings, Ping!NotRunning(n) PROVE PingInv'
  BY <1>4, <1>7 DEF Ping!NotRunning, Ping!Goto, NamesHost
<1>8. ASSUME NEW n \in 1 .. MaxPings, Ping!Emit(n) PROVE PingInv'
  <2>1. /\ pc[n] \in {"error", "finished"} /\ pc' = [pc EXCEPT ![n] = "done"]
        /\ outcomes' = Append(outcomes, <<pc[n], n>>)
        /\ UNCHANGED <<pings, destination, running, user, pinged, host, moved>>
    BY <1>8 DEF Ping!Emit, Ping!Goto
  <2>2. n = pings /\ pings > 0 /\ Len(outcomes) = pings - 1
    BY <2>1 DEF InTurn, InOrder
  <2>3. /\ outcomes' \in Seq({"error", "finished"} \X (1 .. MaxPings))
        /\ Len(outcomes') = pings
        /\ \A i \in 1 .. pings - 1 : outcomes'[i] = outcomes[i]
        /\ outcomes'[pings] = <<pc[n], pings>>
    BY <2>1, <2>2, AppendProperties
  <2>4. pc'[n] = "done" /\ \A m \in 1 .. MaxPings : m # n => pc'[m] = pc[m]
    BY <2>1
  <2>5. Ping!TypeOK'
    BY <2>1, <2>3
  <2>6. InTurn' /\ RunningWhile' /\ NamesHost'
    BY <2>1, <2>2, <2>4 DEF InTurn, RunningWhile, NamesHost
  <2>7. InOrder'
    <3>1. \A i \in 1 .. pings : outcomes'[i][2] = i
      BY <2>2, <2>3 DEF InOrder
    <3>2. QED
      BY <2>1, <2>2, <2>3, <2>4, <3>1 DEF InOrder
  <2>8. QED
    BY <2>5, <2>6, <2>7
<1>9. QED
  BY <1>1, <1>2, <1>3, <1>5, <1>6, <1>7, <1>8 DEF Ping!Next

-----------------------------------------------------------------------------
\* EBSerialPort.

\* A set of numbers that is not empty has a least one.
LEMMA Least ==
    ASSUME NEW T \in SUBSET Nat, T # {}
    PROVE  \E x \in T : \A y \in T : x <= y
<1> DEFINE less == {ss \in Nat \X Nat : ss[1] < ss[2]}
<1>1. IsWellFoundedOn(less, Nat)
  BY NatLessThanWellFounded DEF OpToRel
<1>2. \A x, y \in T : <<y, x>> \notin less => x <= y
  OBVIOUS
<1> HIDE DEF less
<1>3. \E x \in T : \A y \in T : ~ (<<y, x>> \in less)
  BY <1>1, WFMin
<1>4. QED
  BY <1>2, <1>3

\* What is read of a sequence and what is left are the sequence.
LEMMA SplitSeq ==
    ASSUME NEW S, NEW s \in Seq(S), NEW r \in Seq(S), NEW size \in 0 .. Len(s)
    PROVE  /\ SubSeq(s, 1, size) \in Seq(S) /\ SubSeq(s, size + 1, Len(s)) \in Seq(S)
           /\ r \o SubSeq(s, 1, size) \in Seq(S)
           /\ (r \o SubSeq(s, 1, size)) \o SubSeq(s, size + 1, Len(s)) = r \o s
<1> DEFINE front == SubSeq(s, 1, size)
           back == SubSeq(s, size + 1, Len(s))
<1>1. /\ Len(s) \in Nat /\ size \in Int /\ size + 1 \in Int /\ 1 \in Int
      /\ \A i \in 1 .. Len(s) : s[i] \in S
      /\ \A i \in 1 .. size : i \in 1 .. Len(s)
      /\ \A i \in size + 1 .. Len(s) : i \in 1 .. Len(s)
      /\ 1 \in 1 .. Len(s) + 1 /\ size \in 1 - 1 .. Len(s)
      /\ Len(s) \in size .. Len(s)
  BY ElementOfSeq, LenProperties
<1>2. front \in Seq(S) /\ back \in Seq(S)
  <2>1. front \in Seq(S)
    BY <1>1, SubSeqProperties
  <2>2. back \in Seq(S)
    BY <1>1, SubSeqProperties
  <2>3. QED
    BY <2>1, <2>2
<1>3. front \o back = s
  <2>1. front \o back = SubSeq(s, 1, Len(s))
    BY <1>1, ConcatAdjacentSubSeq
  <2>2. QED
    BY <2>1, SubSeqFull
<1>4. r \o front \in Seq(S) /\ (r \o front) \o back = r \o (front \o back)
  <2> HIDE DEF front, back
  <2>1. QED
    BY <1>2, ConcatAssociative, ConcatProperties
<1>5. QED
  BY <1>2, <1>3, <1>4

Bytes == 1 .. MaxBytes

\* The bytes that left the thread.
Came == read \o data

\* The byte the thread has in its hands is the latest of the line, and no
\* other place has it.
InHand == reader \in {"result", "store"} => buffer = line /\ line > 0
Below == \A i \in 1 .. Len(Came) :
    Came[i] <= line /\ (reader \in {"result", "store"} => Came[i] < line)

Ordered == Serial!BytesInOrder /\ InHand /\ Below

SerialInv == Serial!TypeOK /\ Serial!NoByteForgotten /\ Ordered

LEMMA SerialInit == Serial!Init => SerialInv
<1> SUFFICES ASSUME Serial!Init PROVE SerialInv
  OBVIOUS
<1>1. data \in Seq(Bytes) /\ read \in Seq(Bytes) /\ data = <<>> /\ Len(Came) = 0
  BY EmptySeq, ConcatEmptySeq DEF Serial!Init, Came
<1>2. Serial!TypeOK
  <2>1. opens \in 0 .. MaxOpens /\ line \in 0 .. MaxBytes /\ buffer \in 0 .. MaxBytes
    BY Bounds DEF Serial!Init
  <2>2. QED
    BY <1>1, <2>1 DEF Serial!Init, Serial!TypeOK, Bytes
<1>3. Ordered
  BY <1>1 DEF Serial!Init, Ordered, Serial!BytesInOrder, InHand, Below, Came
<1>4. QED
  BY <1>1, <1>2, <1>3 DEF SerialInv, Serial!NoByteForgotten

\* A step that moves no byte, or moves the latest one to the thread.
LEMMA KeepsOrder ==
    ASSUME SerialInv, Came' = Came,
           \/ /\ line' = line /\ buffer' = buffer
              /\ reader' \in {"result", "store"} => reader \in {"result", "store"}
           \/ line' = line + 1 /\ buffer' = line + 1
    PROVE  Ordered'
<1>1. /\ Came \in Seq(Bytes) /\ line \in Nat
      /\ \A i \in 1 .. Len(Came) : Came[i] \in Nat
  <2>1. read \in Seq(Bytes) /\ data \in Seq(Bytes) /\ line \in Nat
    BY Bounds DEF SerialInv, Serial!TypeOK, Bytes
  <2>2. Came \in Seq(Bytes)
    BY <2>1, ConcatProperties DEF Came
  <2>3. \A i \in 1 .. Len(Came) : Came[i] \in Bytes
    BY <2>2, ElementOfSeq
  <2>4. QED
    BY <2>1, <2>2, <2>3 DEF Bytes
<1>2. Serial!BytesInOrder'
  BY DEF SerialInv, Ordered, Serial!BytesInOrder, Came
<1>3. InHand'
  BY <1>1 DEF SerialInv, Ordered, InHand
<1>4. Below'
  BY <1>1 DEF SerialInv, Ordered, Below
<1>5. QED
  BY <1>2, <1>3, <1>4 DEF Ordered

\* A read moves bytes from the buffer to the program.
LEMMA ReadKeepsOrder ==
    ASSUME SerialInv, NEW size \in 0 .. Len(data),
           read' = read \o SubSeq(data, 1, size),
           data' = SubSeq(data, size + 1, Len(data)),
           UNCHANGED <<line, buffer, reader>>
    PROVE  Ordered' /\ read' \in Seq(Bytes) /\ data' \in Seq(Bytes)
<1>1. read \in Seq(Bytes) /\ data \in Seq(Bytes)
  BY DEF SerialInv, Serial!TypeOK, Bytes
<1>2. read' \in Seq(Bytes) /\ data' \in Seq(Bytes) /\ read' \o data' = read \o data
  BY <1>1, SplitSeq
<1>3. QED
  BY <1>2, KeepsOrder DEF Came

\* The store puts the latest byte behind all others.
LEMMA StoreKeepsOrder ==
    ASSUME SerialInv, Serial!Store
    PROVE  Ordered' /\ data' \in Seq(Bytes)
<1> DEFINE s == Came
           L == Len(s)
<1>1. /\ read \in Seq(Bytes) /\ data \in Seq(Bytes) /\ buffer \in Bytes /\ line = buffer
      /\ reader = "store" /\ reader' = "check" /\ line' = line /\ read' = read
      /\ data' = Append(data, buffer)
  BY Bounds DEF SerialInv, Serial!TypeOK, Serial!Store, Ordered, InHand, Bytes
<1>2. Came' = Append(Came, buffer) /\ Came \in Seq(Bytes) /\ data' \in Seq(Bytes)
  <2> DEFINE one == <<buffer>>
  <2>1. one \in Seq(Bytes) /\ data' = data \o one /\ data' \in Seq(Bytes)
    BY <1>1, AppendIsConcat, AppendProperties
  <2> HIDE DEF one
  <2>2. read \o (data \o one) = (read \o data) \o one /\ read \o data \in Seq(Bytes)
    BY <1>1, <2>1, ConcatAssociative, ConcatProperties
  <2>3. Append(read \o data, buffer) = (read \o data) \o one
    BY <1>1, <2>2, AppendIsConcat DEF one
  <2>4. QED
    BY <1>1, <2>1, <2>2, <2>3 DEF Came
<1>3. /\ L \in Nat /\ Len(Came') = L + 1 /\ Came'[L + 1] = line
      /\ \A i \in 1 .. L : Came'[i] = Came[i] /\ Came[i] \in Nat
  <2>1. L \in Nat /\ \A i \in 1 .. L : Came[i] \in Bytes
    BY <1>2, ElementOfSeq, LenProperties
  <2>2. /\ Len(Came') = L + 1 /\ Came'[L + 1] = buffer
        /\ \A i \in 1 .. L : Came'[i] = Came[i]
    BY <1>1, <1>2, AppendProperties
  <2>3. QED
    BY <1>1, <2>1, <2>2 DEF Bytes
<1> HIDE DEF s, L
<1>4. \A i \in 1 .. L : Came[i] < line
  BY <1>1 DEF SerialInv, Ordered, Below, L, s
<1>5. \A i \in 1 .. L - 1 : Came[i] < Came[i + 1]
  BY DEF SerialInv, Ordered, Serial!BytesInOrder, Came, L, s
<1>6. Serial!BytesInOrder'
  <2>1. SUFFICES ASSUME NEW i \in 1 .. L PROVE Came'[i] < Came'[i + 1]
    BY <1>3 DEF Serial!BytesInOrder, Came
  <2>2. CASE i = L
    BY <1>3, <1>4, <2>2
  <2>3. CASE i < L
    <3>1. i \in 1 .. L - 1 /\ i + 1 \in 1 .. L
      BY <1>3, <2>3
    <3>2. QED
      BY <1>3, <1>5, <3>1
  <2>4. QED
    BY <1>3, <2>2, <2>3
<1>7. InHand'
  BY <1>1 DEF InHand
<1>8. Below'
  <2>1. line \in Nat
    BY <1>1 DEF Bytes
  <2>2. \A i \in 1 .. L + 1 : i \in 1 .. L \/ i = L + 1
    BY <1>3
  <2>3. QED
    BY <1>1, <1>3, <1>4, <2>1, <2>2 DEF Below
<1>9. QED
  BY <1>2, <1>6, <1>7, <1>8 DEF Ordered

LEMMA SerialNext == SerialInv /\ Serial!Next => SerialInv'
<1> SUFFICES ASSUME SerialInv, Serial!Next PROVE SerialInv'
  OBVIOUS
<1>0. /\ Serial!TypeOK /\ data \in Seq(Bytes) /\ read \in Seq(Bytes)
  BY DEF SerialInv, Serial!TypeOK, Bytes
<1>1. ASSUME UNCHANGED <<data, read, line, buffer>>,
             reader' \in {"result", "store"} => reader \in {"result", "store"},
             Serial!TypeOK', Serial!NoByteForgotten'
      PROVE  SerialInv'
  <2>1. Came' = Came
    BY <1>1 DEF Came
  <2>2. QED
    BY <1>1, <2>1, KeepsOrder DEF SerialInv
<1>2. CASE Serial!OpenFails \/ Serial!OpenThrows
  <2>0. opens' \in 0 .. MaxOpens
    BY <1>0, <1>2, Bounds DEF Serial!OpenFails, Serial!OpenThrows, Serial!TypeOK
  <2>1. Serial!TypeOK'
    BY <1>0, <1>2, <2>0 DEF Serial!OpenFails, Serial!OpenThrows, Serial!TypeOK
  <2>2. Serial!NoByteForgotten'
    BY <1>2 DEF Serial!OpenFails, Serial!OpenThrows, SerialInv, Serial!NoByteForgotten
  <2>3. QED
    BY <1>1, <1>2, <2>1, <2>2 DEF Serial!OpenFails, Serial!OpenThrows
<1>3. CASE Serial!Open
  <2>1. Serial!TypeOK'
    BY <1>0, <1>3, Bounds DEF Serial!Open, Serial!TypeOK
  <2>2. Serial!NoByteForgotten'
    BY <1>3 DEF Serial!Open, SerialInv, Serial!NoByteForgotten
  <2>3. QED
    BY <1>1, <1>3, <2>1, <2>2 DEF Serial!Open
<1>4. CASE Serial!Close \/ Serial!JoinThread \/ Serial!SlotBegins \/ Serial!SlotEnds
  <2>1. Serial!TypeOK'
    <3> USE <1>0 DEF Serial!TypeOK
    <3>1. CASE Serial!Close
      BY <3>1 DEF Serial!Close
    <3>2. CASE Serial!JoinThread
      BY <3>2 DEF Serial!JoinThread
    <3>3. CASE Serial!SlotBegins
      BY <3>3 DEF Serial!SlotBegins
    <3>4. CASE Serial!SlotEnds
      BY <3>4 DEF Serial!SlotEnds
    <3>5. QED
      BY <1>4, <3>1, <3>2, <3>3, <3>4
  <2>2. Serial!NoByteForgotten'
    BY <1>0, <1>4
    DEF Serial!Close, Serial!JoinThread, Serial!SlotBegins, Serial!SlotEnds, Serial!TypeOK,
        SerialInv, Serial!NoByteForgotten
  <2>3. QED
    BY <1>1, <1>4, <2>1, <2>2
    DEF Serial!Close, Serial!JoinThread, Serial!SlotBegins, Serial!SlotEnds
<1>5. CASE Serial!Read
  <2>1. PICK size \in 1 .. Len(data) :
           /\ user = "slot" /\ style = "all"
           /\ read' = read \o SubSeq(data, 1, size)
           /\ data' = SubSeq(data, size + 1, Len(data))
           /\ UNCHANGED <<opens, handle, owned, thread, user, reader, line, buffer, ready, style>>
    BY <1>5 DEF Serial!Read
  <2>2. size \in 0 .. Len(data)
    BY <1>0, LenProperties
  <2>3. Ordered' /\ read' \in Seq(Bytes) /\ data' \in Seq(Bytes)
    BY <2>1, <2>2, ReadKeepsOrder
  <2>4. Serial!TypeOK'
    BY <1>0, <2>1, <2>3 DEF Serial!TypeOK, Bytes
  <2>5. QED
    BY <2>1, <2>3, <2>4 DEF SerialInv, Serial!NoByteForgotten
<1>6. CASE Serial!ReadLine
  <2> DEFINE ends == {i \in 1 .. Len(data) : Serial!NewLine(data[i])}
             size == IF ends = {} THEN 0 ELSE CHOOSE i \in ends : \A j \in ends : i <= j
  <2>1. /\ style = "line" /\ user = "slot" /\ user' = "idle"
        /\ read' = read \o SubSeq(data, 1, size)
        /\ data' = SubSeq(data, size + 1, Len(data))
        /\ UNCHANGED <<opens, handle, owned, thread, reader, line, buffer, ready, style>>
    BY <1>6 DEF Serial!ReadLine
  <2>2. size \in 0 .. Len(data)
    <3>1. Len(data) \in Nat /\ ends \subseteq 1 .. Len(data) /\ ends \in SUBSET Nat
      BY <1>0, LenProperties
    <3> HIDE DEF ends
    <3>2. CASE ends = {}
      BY <3>1, <3>2
    <3>3. CASE ends # {}
      <4>1. \E i \in ends : \A j \in ends : i <= j
        BY <3>1, <3>3, Least
      <4>2. size \in ends
        BY <3>3, <4>1
      <4> HIDE DEF size
      <4>3. QED
        BY <3>1, <4>2
    <3>4. QED
      BY <3>2, <3>3
  <2> HIDE DEF size
  <2>3. Ordered' /\ read' \in Seq(Bytes) /\ data' \in Seq(Bytes)
    BY <2>1, <2>2, ReadKeepsOrder
  <2>4. Serial!TypeOK'
    BY <1>0, <2>1, <2>3 DEF Serial!TypeOK, Bytes
  <2>5. QED
    BY <2>1, <2>3, <2>4 DEF SerialInv, Serial!NoByteForgotten
<1>7. CASE Serial!Check \/ Serial!ReadClosed \/ Serial!Result
  <2>1. Serial!TypeOK'
    BY <1>0, <1>7 DEF Serial!Check, Serial!ReadClosed, Serial!Result, Serial!TypeOK
  <2>2. Serial!NoByteForgotten'
    BY <1>7
    DEF Serial!Check, Serial!ReadClosed, Serial!Result, SerialInv, Serial!NoByteForgotten
  <2>3. QED
    BY <1>1, <1>7, <2>1, <2>2 DEF Serial!Check, Serial!ReadClosed, Serial!Result
<1>8. CASE Serial!ReadFile \/ Serial!WaitEnds
  <2>1. /\ UNCHANGED <<opens, handle, owned, thread, user, data, ready, style, read>>
        /\ reader' \in {"store", "wait", "result", "done"}
        /\ \/ line < MaxBytes /\ line' = line + 1 /\ buffer' = line + 1
           \/ line' = line /\ buffer' = buffer /\ reader' \in {"wait", "done"}
    BY <1>8 DEF Serial!ReadFile, Serial!WaitEnds
  <2>2. line \in 0 .. MaxBytes /\ buffer \in 0 .. MaxBytes
    BY <1>0 DEF Serial!TypeOK
  <2>3. line' \in 0 .. MaxBytes /\ buffer' \in 0 .. MaxBytes
    BY <2>1, <2>2, Bounds
  <2>4. Serial!TypeOK'
    BY <1>0, <2>1, <2>3 DEF Serial!TypeOK
  <2>5. Came' = Came /\ Serial!NoByteForgotten'
    BY <2>1 DEF Came, SerialInv, Serial!NoByteForgotten
  <2>6. Ordered'
    BY <2>1, <2>5, KeepsOrder
  <2>7. QED
    BY <2>4, <2>5, <2>6 DEF SerialInv
<1>9. CASE Serial!Store
  <2>1. Ordered' /\ data' \in Seq(Bytes)
    BY <1>9, StoreKeepsOrder
  <2>2. Serial!TypeOK'
    BY <1>0, <1>9, <2>1, Bounds DEF Serial!Store, Serial!TypeOK, Bytes
  <2>3. Serial!NoByteForgotten'
    BY <1>0, <1>9 DEF Serial!Store, SerialInv, Serial!NoByteForgotten, Serial!TypeOK
  <2>4. QED
    BY <2>1, <2>2, <2>3 DEF SerialInv
<1>10. QED
  BY <1>2, <1>3, <1>4, <1>5, <1>6, <1>7, <1>8, <1>9 DEF Serial!Next, Serial!Program, Serial!Run

-----------------------------------------------------------------------------
\* EBHttpClient.

CallsOfClient == {"timeout", "connected", "readReady", "error", "disconnected"}
Ends == {"error", "disconnected"}

\* The thread of the socket is at work.
ReaderWorks == reader \notin {"none", "done"}

\* What is in the queue when no request is under way.
OnlyTimeouts == \A i \in 1 .. Len(queue) : queue[i] = "timeout"

\* Requests before the latest have ended; the latest has when it is finished
\* and tcpError() has come to its end.
OutcomesSoFar == \A n \in 1 .. MaxRequests :
    /\ n < request => Len(outcomes[n]) = 1
    /\ n > request => Len(outcomes[n]) = 0
    /\ n = request => Len(outcomes[n]) = IF isFinished /\ loop \notin {"error", "failed"}
                                         THEN 1 ELSE 0

\* A request under way has its slots connected, and a reader or its end in
\* the queue; without one the socket is quiet and has nothing.
UnderWay ==
    /\ ~isFinished => connected /\ request > 0
    /\ isFinished \/ request \in thrown => ~ReaderWorks /\ OnlyTimeouts /\ data = <<>>
    /\ ~isFinished /\ request \notin thrown =>
          ReaderWorks \/ Client!Pending("error") \/ Client!Pending("disconnected")
    /\ loop \in {"error", "failed"} => isFinished /\ request > 0
    /\ request \in thrown => ~isFinished
    /\ \A n \in thrown : n <= request

\* connected is the first call of a connection and an end the last.
EndsLast ==
    /\ \A i, j \in 1 .. Len(queue) : i < j /\ queue[i] \in Ends => queue[j] = "timeout"
    /\ \A i, j \in 1 .. Len(queue) : i < j /\ queue[j] = "connected" => queue[i] = "timeout"
    /\ ReaderWorks => \A i \in 1 .. Len(queue) : queue[i] \notin Ends

\* Before connected nothing has come.
Starting ==
    /\ reader \in {"connect", "connected"} => OnlyTimeouts /\ data = <<>> /\ received = 0
    /\ reader \in {"connect", "connected"} \/ Client!Pending("connected") =>
         ~headerReceived /\ receivePayload = <<>>

\* What is in the buffer will be read.
Told == data # <<>> => reader = "ready" \/ Client!Pending("readReady")

\* receivingFinished is that of this response once its connection was told.
HeaderFirst ==
    /\ receivingFinished => \/ headerReceived \/ isFinished \/ request \in thrown
                            \/ reader \in {"connect", "connected"}
                            \/ Client!Pending("connected") \/ Client!Pending("error")
    /\ ~headerReceived => receivePayload = <<>>
    /\ \A n \in 1 .. MaxRequests : n = request /\ outcomes[n] = <<"finished">> => headerReceived

\* The buffer holds what follows the first off pieces of the response; these
\* are its header and the payload, or some lines of the header.
InStep(off) ==
    /\ \A i \in 1 .. Len(data) : data[i] = <<request, off + i>>
    /\ off + Len(data) <= Lines + Body
    /\ headerReceived => off = Lines + Len(receivePayload)
    /\ ~headerReceived => off < Lines
    /\ state /\ reader \in {"connected", "recv", "ready"} => received = off + Len(data)

PayloadIsOwn ==
    \A i \in 1 .. Len(receivePayload) : receivePayload[i] = <<request, Lines + i>>

PiecesInStep == PayloadIsOwn /\ \E off \in 0 .. Lines + Body : InStep(off)

ClientInv == /\ Client!TypeOK /\ OutcomesSoFar /\ UnderWay /\ EndsLast /\ Starting
             /\ Told /\ HeaderFirst /\ PiecesInStep

LEMMA ClientInit == Client!Init => ClientInv
<1> SUFFICES ASSUME Client!Init PROVE ClientInv
  OBVIOUS
<1>1. queue \in Seq(CallsOfClient) /\ Len(queue) = 0 /\ Len(data) = 0 /\ Len(receivePayload) = 0
  BY EmptySeq DEF Client!Init
<1>2. /\ data \in Seq(Client!Pieces) /\ receivePayload \in Seq(Client!Pieces)
      /\ outcomes \in [1 .. MaxRequests -> Seq({"finished", "error"})]
  BY EmptySeq DEF Client!Init, Client!Requests
<1>3. request \in 0 .. MaxRequests /\ received \in 0 .. Lines + Body
  BY Bounds DEF Client!Init
<1>4. Client!TypeOK
  BY <1>1, <1>2, <1>3 DEF Client!TypeOK, Client!Init, Client!Requests, CallsOfClient
<1>5. InStep(0) /\ 0 \in 0 .. Lines + Body
  BY <1>1, Bounds DEF InStep, Client!Init
<1>6. \A n \in 1 .. MaxRequests : Len(outcomes[n]) = 0
  BY DEF Client!Init, Client!Requests
<1>7. OutcomesSoFar /\ UnderWay /\ EndsLast /\ Starting /\ Told /\ HeaderFirst
  BY <1>1, <1>6 DEF OutcomesSoFar, UnderWay, EndsLast, Starting, Told, HeaderFirst,
     OnlyTimeouts, ReaderWorks, Client!Init, Client!Pending
<1>8. PiecesInStep
  BY <1>1, <1>5 DEF PiecesInStep, PayloadIsOwn
<1>9. QED
  BY <1>4, <1>7, <1>8 DEF ClientInv

\* A queue with one call more, and without its first one.
LEMMA Appended ==
  ASSUME NEW S, NEW q \in Seq(S), NEW x \in S
  PROVE  /\ Append(q, x) \in Seq(S)
         /\ Len(Append(q, x)) = Len(q) + 1
         /\ Append(q, x)[Len(q) + 1] = x
         /\ \A i \in 1 .. Len(q) : Append(q, x)[i] = q[i]
BY AppendProperties

LEMMA FirstAndRest ==
  ASSUME NEW S, NEW q \in Seq(S), q # <<>>
  PROVE  /\ Tail(q) \in Seq(S)
         /\ Len(q) \in Nat /\ Len(q) >= 1 /\ Head(q) = q[1]
         /\ Len(Tail(q)) = Len(q) - 1
         /\ \A i \in 1 .. Len(q) - 1 : Tail(q)[i] = q[i + 1]
BY HeadTailProperties, LenProperties, EmptySeq

LEMMA GetKeeps == ClientInv /\ Client!Get => ClientInv'
<1> SUFFICES ASSUME ClientInv, Client!Get PROVE ClientInv'
  OBVIOUS
<1> USE Bounds DEF ClientInv, Client!Requests
<1>1. /\ request \in 0 .. MaxRequests /\ request < MaxRequests /\ request' = request + 1
      /\ isFinished /\ ~isFinished' /\ connected' /\ ~headerReceived' /\ receivePayload' = <<>>
      /\ timer' = TRUE /\ time' = 0 /\ ~state'
      /\ loop = "idle" /\ loop' = "idle"
      /\ UNCHANGED <<isError, receivingFinished, data, loop, queue, outcomes>>
  BY DEF Client!Get, Client!TypeOK
<1>2. \/ /\ reader' = "connect" /\ peer' = "none" /\ received' = 0 /\ thrown' = thrown
      \/ thrown' = thrown \cup {request'} /\ UNCHANGED <<reader, peer, received>>
  BY DEF Client!Get
<1>3. request' \in 1 .. MaxRequests /\ request' \in 0 .. MaxRequests
  BY <1>1
<1>4. /\ <<>> \in Seq(Client!Pieces) /\ Len(<<>>) = 0
      /\ 0 \in 0 .. Lines + Body
  BY EmptySeq
<1>5. Client!TypeOK'
  <2>1. /\ reader' \in {"none", "connect", "connected", "recv", "ready", "done"}
        /\ peer' \in {"none", "open", "refused", "closed", "reset"}
        /\ received' \in 0 .. Lines + Body
        /\ thrown' \subseteq 1 .. MaxRequests
    BY <1>2, <1>3, <1>4 DEF Client!TypeOK
  <2>2. /\ {isFinished', isError', receivingFinished', headerReceived', timer', connected', state'}
            \subseteq BOOLEAN
        /\ time' \in Nat
    BY DEF Client!Get, Client!TypeOK
  <2>3. QED
    BY <1>1, <1>3, <1>4, <2>1, <2>2 DEF Client!TypeOK
<1>6. OutcomesSoFar'
  BY <1>1, <1>3 DEF OutcomesSoFar
<1>7. ~ReaderWorks /\ OnlyTimeouts /\ data = <<>> /\ request' \notin thrown /\ OnlyTimeouts'
  BY <1>1, <1>3 DEF UnderWay, OnlyTimeouts
<1>8. UnderWay'
  <2>1. thrown \subseteq 1 .. MaxRequests /\ \A n \in thrown : n <= request
    BY DEF UnderWay, Client!TypeOK
  <2>2. \A n \in thrown : n <= request'
    BY <1>1, <2>1
  <2>3. \A n \in thrown' : n <= request'
    BY <1>1, <1>2, <2>2
  <2>4. QED
    BY <1>1, <1>2, <1>3, <1>7, <2>3 DEF UnderWay, ReaderWorks
<1>9. EndsLast'
  BY <1>1, <1>7 DEF EndsLast, OnlyTimeouts, Ends
<1>10. Starting' /\ Told'
  BY <1>1, <1>2, <1>7 DEF Starting, Told
<1>11. HeaderFirst'
  <2>1. reader' = "connect" \/ request' \in thrown'
    BY <1>2
  <2>2. Len(outcomes'[request']) = 0
    BY <1>1, <1>3 DEF OutcomesSoFar
  <2>3. Len(<<"finished">>) = 1
    OBVIOUS
  <2>4. outcomes'[request'] # <<"finished">>
    BY <2>2, <2>3
  <2>5. QED
    BY <1>1, <2>1, <2>4 DEF HeaderFirst
<1>12. InStep(0)'
  BY <1>1, <1>2, <1>4, <1>7 DEF InStep, ReaderWorks
<1>13. PiecesInStep'
  BY <1>1, <1>4, <1>12 DEF PiecesInStep, PayloadIsOwn
<1>14. QED
  BY <1>5, <1>6, <1>8, <1>9, <1>10, <1>11, <1>13

\* The types the steps need.
LEMMA ClientTypes ==
  ASSUME Client!TypeOK
  PROVE  /\ queue \in Seq(CallsOfClient) /\ Len(queue) \in Nat
         /\ data \in Seq(Client!Pieces) /\ Len(data) \in Nat
         /\ receivePayload \in Seq(Client!Pieces) /\ Len(receivePayload) \in Nat
         /\ request \in 0 .. MaxRequests /\ received \in 0 .. Lines + Body
BY LenProperties DEF Client!TypeOK, CallsOfClient

\* A slot takes its call out of the queue: what is said of the rest stays.
LEMMA CallTaken ==
  ASSUME Client!TypeOK, EndsLast, queue # <<>>, queue' = Tail(queue), reader' = reader
  PROVE  /\ queue' \in Seq(CallsOfClient)
         /\ EndsLast'
         /\ OnlyTimeouts => OnlyTimeouts' /\ Head(queue) = "timeout"
         /\ \A s : s # Head(queue) => (Client!Pending(s)' <=> Client!Pending(s))
         /\ Head(queue) \in Ends => OnlyTimeouts' /\ ~ReaderWorks
         /\ Head(queue) # "timeout" => ~Client!Pending("connected")'
         /\ Client!Pending(Head(queue))
<1>1. /\ queue' \in Seq(CallsOfClient)
      /\ Len(queue) \in Nat /\ Len(queue) >= 1 /\ Head(queue) = queue[1]
      /\ Len(queue') = Len(queue) - 1
      /\ \A i \in 1 .. Len(queue') : queue'[i] = queue[i + 1]
  BY FirstAndRest, ClientTypes
<1> DEFINE head == Head(queue)
<1> HIDE DEF head
<1>2. head = queue[1] /\ Head(queue) = head
  BY <1>1 DEF head
<1>3. EndsLast'
  BY <1>1 DEF EndsLast, ReaderWorks
<1>4. OnlyTimeouts => OnlyTimeouts' /\ head = "timeout"
  BY <1>1, <1>2 DEF OnlyTimeouts
<1>5. ASSUME NEW s, s # head PROVE Client!Pending(s)' <=> Client!Pending(s)
  <2>1. ASSUME NEW i \in 1 .. Len(queue), queue[i] = s
        PROVE  i - 1 \in 1 .. Len(queue') /\ queue'[i - 1] = s
    BY <1>1, <1>2, <1>5, <2>1
  <2>2. ASSUME NEW i \in 1 .. Len(queue'), queue'[i] = s
        PROVE  i + 1 \in 1 .. Len(queue) /\ queue[i + 1] = s
    BY <1>1, <2>2
  <2>3. QED
    BY <2>1, <2>2 DEF Client!Pending
<1>6. head \in Ends => OnlyTimeouts' /\ ~ReaderWorks
  BY <1>1, <1>2 DEF EndsLast, OnlyTimeouts
<1>7. head # "timeout" => ~Client!Pending("connected")'
  BY <1>1, <1>2 DEF EndsLast, Client!Pending
<1>8. Client!Pending(head)
  BY <1>1, <1>2 DEF Client!Pending
<1>9. QED
  BY <1>1, <1>2, <1>3, <1>4, <1>5, <1>6, <1>7, <1>8

\* A thread emits: the call is the last one.
LEMMA CallPosted ==
  ASSUME Client!TypeOK, EndsLast, NEW x \in CallsOfClient, queue' = Append(queue, x),
         ReaderWorks' => ReaderWorks, x # "timeout" => ReaderWorks,
         x \in Ends => ~ReaderWorks', x = "connected" => OnlyTimeouts
  PROVE  /\ queue' \in Seq(CallsOfClient)
         /\ EndsLast'
         /\ x = "timeout" /\ OnlyTimeouts => OnlyTimeouts'
         /\ Client!Pending(x)'
         /\ \A s : Client!Pending(s) => Client!Pending(s)'
         /\ \A s : s # x /\ Client!Pending(s)' => Client!Pending(s)
<1>1. /\ queue' \in Seq(CallsOfClient)
      /\ Len(queue) \in Nat
      /\ Len(queue') = Len(queue) + 1
      /\ queue'[Len(queue) + 1] = x
      /\ \A i \in 1 .. Len(queue) : queue'[i] = queue[i]
  BY Appended, ClientTypes
<1>2. EndsLast'
  <2>1. \A i \in 1 .. Len(queue) : x # "timeout" => queue[i] \notin Ends
    BY DEF EndsLast
  <2>2. \A i, j \in 1 .. Len(queue') : i < j => i \in 1 .. Len(queue)
                                               /\ (j \in 1 .. Len(queue) \/ queue'[j] = x)
    BY <1>1
  <2>3. \A i, j \in 1 .. Len(queue') : i < j /\ queue'[i] \in Ends => queue'[j] = "timeout"
    BY <1>1, <2>1, <2>2 DEF EndsLast
  <2>4. \A i, j \in 1 .. Len(queue') : i < j /\ queue'[j] = "connected" => queue'[i] = "timeout"
    BY <1>1, <2>2 DEF EndsLast, OnlyTimeouts
  <2>5. ReaderWorks' => \A i \in 1 .. Len(queue') : queue'[i] \notin Ends
    BY <1>1 DEF EndsLast
  <2>6. QED
    BY <2>3, <2>4, <2>5 DEF EndsLast
<1>3. x = "timeout" /\ OnlyTimeouts => OnlyTimeouts'
  BY <1>1 DEF OnlyTimeouts
<1>4. Client!Pending(x)'
  BY <1>1 DEF Client!Pending
<1>5. \A s : Client!Pending(s) => Client!Pending(s)'
  BY <1>1 DEF Client!Pending
<1>6. \A s : s # x /\ Client!Pending(s)' => Client!Pending(s)
  BY <1>1 DEF Client!Pending
<1>7. QED
  BY <1>1, <1>2, <1>3, <1>4, <1>5, <1>6

\* A step that leaves the pieces where they are.
LEMMA PiecesStay ==
  ASSUME PiecesInStep, UNCHANGED <<request, data, headerReceived, receivePayload, received>>,
         state' /\ reader' \in {"connected", "recv", "ready"} =>
             state /\ reader \in {"connected", "recv", "ready"}
  PROVE  PiecesInStep'
<1>1. PICK off \in 0 .. Lines + Body : InStep(off)
  BY DEF PiecesInStep
<1>2. InStep(off)'
  BY <1>1 DEF InStep
<1>3. QED
  BY <1>2 DEF PiecesInStep, PayloadIsOwn

\* A step that ends no request.
LEMMA OutcomesStay ==
  ASSUME OutcomesSoFar, UNCHANGED <<request, isFinished, outcomes>>,
         loop' \in {"error", "failed"} <=> loop \in {"error", "failed"}
  PROVE  OutcomesSoFar'
BY DEF OutcomesSoFar

\* The slots that only take their call: the timer's, and what follows them.
LEMMA TimeoutKeeps == ClientInv /\ Client!TimeoutSlot => ClientInv'
<1> SUFFICES ASSUME ClientInv, Client!TimeoutSlot PROVE ClientInv'
  OBVIOUS
<1> USE DEF ClientInv
<1>1. /\ loop = "idle" /\ queue # <<>> /\ Head(queue) = "timeout" /\ queue' = Tail(queue)
      /\ time' = time + 1
      /\ UNCHANGED <<request, isFinished, receivingFinished, headerReceived, receivePayload,
                     connected, data, reader, peer, received, outcomes, thrown>>
  BY DEF Client!TimeoutSlot, Client!Call
<1>2. /\ isError' \in BOOLEAN /\ timer' \in BOOLEAN /\ state' \in BOOLEAN
      /\ loop' \in {"idle", "timeout"} /\ (state' => state)
  BY <1>1 DEF Client!TimeoutSlot, Client!TypeOK
<1>3. /\ queue' \in Seq(CallsOfClient)
      /\ EndsLast'
      /\ OnlyTimeouts => OnlyTimeouts'
      /\ \A s : s # "timeout" => (Client!Pending(s)' <=> Client!Pending(s))
  BY <1>1, CallTaken
<1>4. time' \in Nat
  BY <1>1 DEF Client!TypeOK
<1>5. Client!TypeOK'
  BY <1>1, <1>2, <1>3, <1>4 DEF Client!TypeOK, CallsOfClient
<1>6. OutcomesSoFar'
  BY <1>1, <1>2, OutcomesStay
<1>7. UnderWay' /\ Starting' /\ Told' /\ HeaderFirst'
  BY <1>1, <1>2, <1>3 DEF UnderWay, Starting, Told, HeaderFirst, ReaderWorks
<1>8. PiecesInStep'
  BY <1>1, <1>2, PiecesStay
<1>9. QED
  BY <1>3, <1>5, <1>6, <1>7, <1>8

LEMMA TcpConnectedKeeps == ClientInv /\ Client!TcpConnected => ClientInv'
<1> SUFFICES ASSUME ClientInv, Client!TcpConnected PROVE ClientInv'
  OBVIOUS
<1> USE DEF ClientInv
<1>1. /\ loop = "idle" /\ queue # <<>> /\ Head(queue) = "connected" /\ queue' = Tail(queue)
      /\ ~headerReceived' /\ ~receivingFinished' /\ ~isError'
      /\ {headerReceived', receivingFinished', isError'} \subseteq BOOLEAN
      /\ UNCHANGED <<request, isFinished, receivePayload, connected, time, timer, loop,
                     state, data, reader, peer, received, outcomes, thrown>>
  BY DEF Client!TcpConnected, Client!Call, Client!socket
<1>2. /\ queue' \in Seq(CallsOfClient)
      /\ EndsLast'
      /\ ~OnlyTimeouts
      /\ \A s : s # "connected" => (Client!Pending(s)' <=> Client!Pending(s))
      /\ ~Client!Pending("connected")' /\ Client!Pending("connected")
  BY <1>1, CallTaken
<1>3. ~headerReceived /\ receivePayload = <<>> /\ ~isFinished /\ request \notin thrown
  BY <1>2 DEF Starting, UnderWay
<1>4. UNCHANGED headerReceived
  BY <1>1, <1>3 DEF Client!TypeOK
<1>5. Client!TypeOK'
  BY <1>1, <1>2 DEF Client!TypeOK, CallsOfClient
<1>6. OutcomesSoFar'
  BY <1>1, OutcomesStay
<1>7. UnderWay' /\ Starting' /\ Told'
  BY <1>1, <1>2, <1>3 DEF UnderWay, Starting, Told, ReaderWorks
<1>8. HeaderFirst'
  BY <1>1, <1>3, <1>4 DEF HeaderFirst
<1>9. PiecesInStep'
  BY <1>1, <1>4, PiecesStay
<1>10. QED
  BY <1>2, <1>5, <1>6, <1>7, <1>8, <1>9

\* The error ends the request; tcpError() tells it when close() is done.
LEMMA TcpErrorKeeps == ClientInv /\ Client!TcpError => ClientInv'
<1> SUFFICES ASSUME ClientInv, Client!TcpError PROVE ClientInv'
  OBVIOUS
<1> USE DEF ClientInv
<1>1. /\ loop = "idle" /\ queue # <<>> /\ Head(queue) = "error" /\ queue' = Tail(queue)
      /\ ~timer' /\ ~connected' /\ isError' /\ isFinished' /\ ~state'
      /\ {timer', connected', isError', isFinished', state'} \subseteq BOOLEAN
      /\ loop' \in {"error", "failed"}
      /\ UNCHANGED <<request, receivingFinished, headerReceived, receivePayload, time, data,
                     reader, peer, received, outcomes, thrown>>
  BY DEF Client!TcpError, Client!Call
<1>2. /\ queue' \in Seq(CallsOfClient)
      /\ EndsLast'
      /\ OnlyTimeouts' /\ ~OnlyTimeouts /\ ~ReaderWorks
      /\ \A s : s # "error" => (Client!Pending(s)' <=> Client!Pending(s))
      /\ ~Client!Pending("connected")'
  BY <1>1, CallTaken DEF Ends
<1>3. ~isFinished /\ request \notin thrown /\ request > 0
  BY <1>2 DEF UnderWay
<1>4. ~Client!Pending("readReady")' /\ ~Client!Pending("readReady")
  BY <1>2 DEF OnlyTimeouts, Client!Pending
<1>5. data = <<>>
  BY <1>2, <1>4 DEF Told, ReaderWorks
<1>6. Client!TypeOK'
  BY <1>1, <1>2 DEF Client!TypeOK, CallsOfClient
<1>7. OutcomesSoFar'
  BY <1>1, <1>3 DEF OutcomesSoFar
<1>8. UnderWay' /\ Starting' /\ Told'
  BY <1>1, <1>2, <1>3, <1>5 DEF UnderWay, Starting, Told, ReaderWorks
<1>9. HeaderFirst'
  BY <1>1 DEF HeaderFirst
<1>10. PiecesInStep'
  BY <1>1, PiecesStay
<1>11. QED
  BY <1>2, <1>6, <1>7, <1>8, <1>9, <1>10

LEMMA CloseJoinsKeeps == ClientInv /\ Client!CloseJoins => ClientInv'
<1> SUFFICES ASSUME ClientInv, Client!CloseJoins PROVE ClientInv'
  OBVIOUS
<1> USE DEF ClientInv
<1>1. /\ \/ loop = "error" /\ loop' = "failed"
         \/ loop = "timeout" /\ loop' = "idle"
      /\ timer' \in BOOLEAN
      /\ UNCHANGED <<request, isFinished, isError, receivingFinished, headerReceived,
                     receivePayload, connected, time, queue, state, data, reader, peer,
                     received, outcomes, thrown>>
  BY DEF Client!CloseJoins, Client!client, Client!socket, Client!TypeOK
<1>2. Client!TypeOK'
  BY <1>1 DEF Client!TypeOK
<1>3. OutcomesSoFar'
  BY <1>1, OutcomesStay
<1>4. UnderWay' /\ EndsLast' /\ Starting' /\ Told' /\ HeaderFirst'
  BY <1>1 DEF UnderWay, EndsLast, Starting, Told, HeaderFirst, ReaderWorks, OnlyTimeouts,
     Client!Pending
<1>5. PiecesInStep'
  BY <1>1, PiecesStay
<1>6. QED
  BY <1>2, <1>3, <1>4, <1>5

LEMMA EmitErrorKeeps == ClientInv /\ Client!EmitError => ClientInv'
<1> SUFFICES ASSUME ClientInv, Client!EmitError PROVE ClientInv'
  OBVIOUS
<1> USE DEF ClientInv
<1>1. /\ loop = "failed" /\ loop' = "idle"
      /\ outcomes' = [outcomes EXCEPT ![request] = Append(@, "error")]
      /\ UNCHANGED <<request, isFinished, isError, receivingFinished, headerReceived,
                     receivePayload, connected, time, timer, queue, state, data, reader,
                     peer, received, thrown>>
  BY DEF Client!EmitError, Client!Outcome, Client!client, Client!socket
<1>2. request \in 1 .. MaxRequests /\ isFinished /\ request \notin thrown
  BY <1>1, ClientTypes DEF UnderWay
<1>3. outcomes \in [1 .. MaxRequests -> Seq({"finished", "error"})]
  BY DEF Client!TypeOK, Client!Requests
<1>4. Len(outcomes[request]) = 0
  BY <1>1, <1>2 DEF OutcomesSoFar
<1>5. /\ Append(outcomes[request], "error") \in Seq({"finished", "error"})
      /\ Len(Append(outcomes[request], "error")) = 1
      /\ Append(outcomes[request], "error")[1] = "error"
  BY <1>2, <1>3, <1>4, Appended
<1>6. /\ outcomes' \in [1 .. MaxRequests -> Seq({"finished", "error"})]
      /\ Len(outcomes'[request]) = 1 /\ outcomes'[request] # <<"finished">>
      /\ \A n \in 1 .. MaxRequests : n # request => outcomes'[n] = outcomes[n]
  <2> DEFINE now == Append(outcomes[request], "error")
  <2> HIDE DEF now
  <2>1. now \in Seq({"finished", "error"}) /\ Len(now) = 1 /\ now[1] = "error"
    BY <1>5 DEF now
  <2>2. outcomes' = [outcomes EXCEPT ![request] = now]
    BY <1>1 DEF now
  <2>3. now # <<"finished">>
    BY <2>1
  <2>4. QED
    BY <1>2, <1>3, <2>1, <2>2, <2>3
<1>7. Client!TypeOK'
  BY <1>1, <1>6 DEF Client!TypeOK, Client!Requests
<1>8. OutcomesSoFar'
  BY <1>1, <1>2, <1>6 DEF OutcomesSoFar
<1>9. UnderWay' /\ EndsLast' /\ Starting' /\ Told'
  BY <1>1 DEF UnderWay, EndsLast, Starting, Told, ReaderWorks, OnlyTimeouts, Client!Pending
<1>10. HeaderFirst'
  BY <1>1, <1>2, <1>6 DEF HeaderFirst
<1>11. PiecesInStep'
  BY <1>1, PiecesStay
<1>12. QED
  BY <1>7, <1>8, <1>9, <1>10, <1>11

LEMMA TcpDisconnectedKeeps == ClientInv /\ Client!TcpDisconnected => ClientInv'
<1> SUFFICES ASSUME ClientInv, Client!TcpDisconnected PROVE ClientInv'
  OBVIOUS
<1> USE DEF ClientInv
<1> DEFINE signal == IF isError' THEN "error" ELSE "finished"
<1>1. /\ loop = "idle" /\ queue # <<>> /\ Head(queue) = "disconnected" /\ queue' = Tail(queue)
      /\ ~timer' /\ ~connected' /\ isFinished' /\ (isError' <=> isError \/ ~receivingFinished)
      /\ {timer', connected', isError', isFinished'} \subseteq BOOLEAN
      /\ outcomes' = [outcomes EXCEPT ![request] = Append(@, signal)]
      /\ UNCHANGED <<request, receivingFinished, headerReceived, receivePayload, time, loop,
                     state, data, reader, peer, received, thrown>>
  BY DEF Client!TcpDisconnected, Client!Call, Client!Outcome, Client!socket
<1>2. /\ queue' \in Seq(CallsOfClient)
      /\ EndsLast'
      /\ OnlyTimeouts' /\ ~OnlyTimeouts /\ ~ReaderWorks
      /\ \A s : s # "disconnected" => (Client!Pending(s)' <=> Client!Pending(s))
      /\ ~Client!Pending("connected")'
  BY <1>1, CallTaken DEF Ends
<1>3. ~isFinished /\ request \notin thrown /\ request \in 1 .. MaxRequests
  BY <1>2, ClientTypes DEF UnderWay
<1>4. /\ ~Client!Pending("readReady")' /\ ~Client!Pending("error")'
      /\ ~Client!Pending("readReady") /\ ~Client!Pending("error")
      /\ ~Client!Pending("connected")
  BY <1>2 DEF OnlyTimeouts, Client!Pending
<1>5. data = <<>>
  BY <1>2, <1>4 DEF Told, ReaderWorks
<1>6. receivingFinished => headerReceived
  BY <1>2, <1>3, <1>4 DEF HeaderFirst, ReaderWorks
<1>7. outcomes \in [1 .. MaxRequests -> Seq({"finished", "error"})]
  BY DEF Client!TypeOK, Client!Requests
<1>8. Len(outcomes[request]) = 0
  BY <1>1, <1>3 DEF OutcomesSoFar
<1>9. /\ Append(outcomes[request], signal) \in Seq({"finished", "error"})
      /\ Len(Append(outcomes[request], signal)) = 1
      /\ Append(outcomes[request], signal)[1] = signal
  <2>1. signal \in {"finished", "error"}
    OBVIOUS
  <2>2. QED
    BY <1>3, <1>7, <1>8, <2>1, Appended
<1>10. /\ outcomes' \in [1 .. MaxRequests -> Seq({"finished", "error"})]
       /\ Len(outcomes'[request]) = 1
       /\ outcomes'[request] = <<"finished">> => headerReceived
       /\ \A n \in 1 .. MaxRequests : n # request => outcomes'[n] = outcomes[n]
  <2> DEFINE now == Append(outcomes[request], signal)
  <2>1. now \in Seq({"finished", "error"}) /\ Len(now) = 1 /\ now[1] = signal
    BY <1>9
  <2>2. outcomes' = [outcomes EXCEPT ![request] = now]
    BY <1>1
  <2>3. signal = "finished" => headerReceived
    BY <1>1, <1>6
  <2> HIDE DEF now, signal
  <2>4. now = <<"finished">> => headerReceived
    BY <2>1, <2>3
  <2>5. QED
    BY <1>3, <1>7, <2>1, <2>2, <2>4
<1>11. Client!TypeOK'
  BY <1>1, <1>2, <1>10 DEF Client!TypeOK, CallsOfClient, Client!Requests
<1>12. OutcomesSoFar'
  BY <1>1, <1>3, <1>10 DEF OutcomesSoFar
<1>13. UnderWay' /\ Starting' /\ Told'
  BY <1>1, <1>2, <1>3, <1>5 DEF UnderWay, Starting, Told, ReaderWorks
<1>14. HeaderFirst'
  BY <1>1, <1>10 DEF HeaderFirst
<1>15. PiecesInStep'
  BY <1>1, PiecesStay
<1>16. QED
  BY <1>2, <1>11, <1>12, <1>13, <1>14, <1>15

LEMMA TickKeeps == ClientInv /\ Client!Tick => ClientInv'
<1> SUFFICES ASSUME ClientInv, Client!Tick PROVE ClientInv'
  OBVIOUS
<1> USE DEF ClientInv
<1>1. /\ queue' = Append(queue, "timeout")
      /\ UNCHANGED <<request, isFinished, isError, receivingFinished, headerReceived,
                     receivePayload, connected, time, timer, loop, state, data, reader,
                     peer, received, outcomes, thrown>>
  BY DEF Client!Tick, Client!client, Client!socket
<1>2. /\ queue' \in Seq(CallsOfClient)
      /\ EndsLast'
      /\ OnlyTimeouts => OnlyTimeouts'
      /\ \A s : Client!Pending(s) => Client!Pending(s)'
      /\ \A s : s # "timeout" /\ Client!Pending(s)' => Client!Pending(s)
  <2>1. "timeout" \in CallsOfClient /\ "timeout" \notin Ends /\ (ReaderWorks' => ReaderWorks)
    BY <1>1 DEF CallsOfClient, Ends, ReaderWorks
  <2>2. QED
    BY <1>1, <2>1, CallPosted
<1>3. Client!TypeOK'
  BY <1>1, <1>2 DEF Client!TypeOK, CallsOfClient
<1>4. OutcomesSoFar'
  BY <1>1, OutcomesStay
<1>5. UnderWay' /\ Starting' /\ Told' /\ HeaderFirst'
  BY <1>1, <1>2 DEF UnderWay, Starting, Told, HeaderFirst, ReaderWorks
<1>6. PiecesInStep'
  BY <1>1, PiecesStay
<1>7. QED
  BY <1>2, <1>3, <1>4, <1>5, <1>6

LEMMA PeerKeeps == ClientInv /\ Client!PeerEnds => ClientInv'
<1> SUFFICES ASSUME ClientInv, Client!PeerEnds PROVE ClientInv'
  OBVIOUS
<1> USE DEF ClientInv
<1>1. /\ peer' \in {"closed", "reset"}
      /\ UNCHANGED <<request, isFinished, isError, receivingFinished, headerReceived,
                     receivePayload, connected, time, timer, loop, queue, state, data, reader,
                     received, outcomes, thrown>>
  BY DEF Client!PeerEnds, Client!client
<1>2. Client!TypeOK'
  BY <1>1 DEF Client!TypeOK
<1>3. OutcomesSoFar'
  BY <1>1, OutcomesStay
<1>4. UnderWay' /\ EndsLast' /\ Starting' /\ Told' /\ HeaderFirst'
  BY <1>1 DEF UnderWay, EndsLast, Starting, Told, HeaderFirst, ReaderWorks, OnlyTimeouts,
     Client!Pending
<1>5. PiecesInStep'
  BY <1>1, PiecesStay
<1>6. QED
  BY <1>2, <1>3, <1>4, <1>5

\* A reader at work is that of a request under way, and its slots listen.
LEMMA ReaderEmits ==
  ASSUME ClientInv, ReaderWorks
  PROVE  /\ ~isFinished /\ request \notin thrown /\ connected
         /\ \A x : Client!Emit(x) => queue' = Append(queue, x)
BY DEF ClientInv, UnderWay, Client!Emit

LEMMA ConnectKeeps == ClientInv /\ Client!Connect => ClientInv'
<1> SUFFICES ASSUME ClientInv, Client!Connect PROVE ClientInv'
  OBVIOUS
<1> USE DEF ClientInv
<1>1. /\ reader = "connect" /\ ReaderWorks
      /\ UNCHANGED <<request, isFinished, isError, receivingFinished, headerReceived,
                     receivePayload, connected, time, timer, loop, data, received,
                     outcomes, thrown>>
  BY DEF Client!Connect, Client!client, ReaderWorks
<1>2. /\ ~isFinished /\ request \notin thrown
      /\ OnlyTimeouts /\ data = <<>> /\ received = 0 /\ ~headerReceived
      /\ \A x : Client!Emit(x) => queue' = Append(queue, x)
  BY <1>1, ReaderEmits DEF Starting
<1>3. OutcomesSoFar'
  BY <1>1, OutcomesStay
<1>4. CASE Client!Emit("error") /\ reader' = "done" /\ UNCHANGED <<state, peer>>
  <2>1. queue' = Append(queue, "error")
    BY <1>2, <1>4
  <2>2. "error" \in CallsOfClient /\ ~ReaderWorks'
    BY <1>4 DEF CallsOfClient, ReaderWorks
  <2>3. /\ queue' \in Seq(CallsOfClient) /\ EndsLast' /\ Client!Pending("error")'
        /\ \A s : Client!Pending(s) => Client!Pending(s)'
        /\ \A s : s # "error" /\ Client!Pending(s)' => Client!Pending(s)
    BY <1>1, <2>1, <2>2, CallPosted
  <2>4. Client!TypeOK'
    BY <1>1, <1>4, <2>3 DEF Client!TypeOK, CallsOfClient
  <2>5. UnderWay' /\ Starting' /\ Told' /\ HeaderFirst'
    BY <1>1, <1>2, <1>4, <2>2, <2>3 DEF UnderWay, Starting, Told, HeaderFirst
  <2>6. PiecesInStep'
    BY <1>1, <1>4, PiecesStay
  <2>7. QED
    BY <1>3, <2>3, <2>4, <2>5, <2>6
<1>5. CASE /\ state' = TRUE /\ peer' \in {"open", "refused"} /\ reader' = "connected"
           /\ queue' = queue
  <2>1. Client!TypeOK'
    BY <1>1, <1>5 DEF Client!TypeOK
  <2>2. UnderWay' /\ EndsLast' /\ Starting' /\ Told' /\ HeaderFirst'
    BY <1>1, <1>2, <1>5 DEF UnderWay, EndsLast, Starting, Told, HeaderFirst, ReaderWorks,
       OnlyTimeouts, Client!Pending
  <2>3. InStep(0)' /\ 0 \in 0 .. Lines + Body
    BY <1>1, <1>2, Bounds DEF InStep
  <2>4. PiecesInStep'
    BY <1>1, <2>3 DEF PiecesInStep, PayloadIsOwn
  <2>5. QED
    BY <1>3, <2>1, <2>2, <2>4
<1>6. QED
  BY <1>4, <1>5 DEF Client!Connect

LEMMA EmitConnectedKeeps == ClientInv /\ Client!EmitConnected => ClientInv'
<1> SUFFICES ASSUME ClientInv, Client!EmitConnected PROVE ClientInv'
  OBVIOUS
<1> USE DEF ClientInv
<1>1. /\ reader = "connected" /\ reader' = "recv" /\ ReaderWorks /\ ReaderWorks'
      /\ Client!Emit("connected")
      /\ UNCHANGED <<request, isFinished, isError, receivingFinished, headerReceived,
                     receivePayload, connected, time, timer, loop, state, data, peer,
                     received, outcomes, thrown>>
  BY DEF Client!EmitConnected, Client!client, ReaderWorks
<1>2. /\ ~isFinished /\ request \notin thrown /\ OnlyTimeouts /\ data = <<>>
      /\ ~headerReceived /\ receivePayload = <<>>
      /\ queue' = Append(queue, "connected")
  BY <1>1, ReaderEmits DEF Starting
<1>3. "connected" \in CallsOfClient /\ "connected" \notin Ends
  BY DEF CallsOfClient, Ends
<1>4. /\ queue' \in Seq(CallsOfClient) /\ EndsLast' /\ Client!Pending("connected")'
  BY <1>1, <1>2, <1>3, CallPosted
<1>5. Client!TypeOK'
  BY <1>1, <1>4 DEF Client!TypeOK, CallsOfClient
<1>6. UnderWay' /\ Starting' /\ Told' /\ HeaderFirst'
  BY <1>1, <1>2, <1>4 DEF UnderWay, Starting, Told, HeaderFirst
<1>7. OutcomesSoFar' /\ PiecesInStep'
  BY <1>1, OutcomesStay, PiecesStay
<1>8. QED
  BY <1>4, <1>5, <1>6, <1>7

LEMMA EmitReadReadyKeeps == ClientInv /\ Client!EmitReadReady => ClientInv'
<1> SUFFICES ASSUME ClientInv, Client!EmitReadReady PROVE ClientInv'
  OBVIOUS
<1> USE DEF ClientInv
<1>1. /\ reader = "ready" /\ reader' = "recv" /\ ReaderWorks /\ ReaderWorks'
      /\ Client!Emit("readReady")
      /\ UNCHANGED <<request, isFinished, isError, receivingFinished, headerReceived,
                     receivePayload, connected, time, timer, loop, state, data, peer,
                     received, outcomes, thrown>>
  BY DEF Client!EmitReadReady, Client!client, ReaderWorks
<1>2. ~isFinished /\ request \notin thrown /\ queue' = Append(queue, "readReady")
  BY <1>1, ReaderEmits
<1>3. "readReady" \in CallsOfClient /\ "readReady" \notin Ends
  BY DEF CallsOfClient, Ends
<1>4. /\ queue' \in Seq(CallsOfClient) /\ EndsLast' /\ Client!Pending("readReady")'
      /\ \A s : Client!Pending(s) => Client!Pending(s)'
      /\ \A s : s # "readReady" /\ Client!Pending(s)' => Client!Pending(s)
  BY <1>1, <1>2, <1>3, CallPosted
<1>5. Client!TypeOK'
  BY <1>1, <1>4 DEF Client!TypeOK, CallsOfClient
<1>6. UnderWay' /\ Starting' /\ Told' /\ HeaderFirst'
  BY <1>1, <1>2, <1>4 DEF UnderWay, Starting, Told, HeaderFirst
<1>7. OutcomesSoFar' /\ PiecesInStep'
  BY <1>1, OutcomesStay, PiecesStay
<1>8. QED
  BY <1>4, <1>5, <1>6, <1>7

LEMMA EndOfStreamKeeps == ClientInv /\ Client!EndOfStream => ClientInv'
<1> SUFFICES ASSUME ClientInv, Client!EndOfStream PROVE ClientInv'
  OBVIOUS
<1> USE DEF ClientInv
<1>1. /\ reader = "recv" /\ reader' = "done" /\ ReaderWorks /\ ~ReaderWorks'
      /\ UNCHANGED <<request, isFinished, isError, receivingFinished, headerReceived,
                     receivePayload, connected, time, timer, loop, state, data, peer,
                     received, outcomes, thrown>>
  BY DEF Client!EndOfStream, Client!client, ReaderWorks
<1>2. PICK x \in Ends : Client!Emit(x)
  BY DEF Client!EndOfStream, Ends
<1>3. ~isFinished /\ request \notin thrown /\ queue' = Append(queue, x)
  BY <1>1, <1>2, ReaderEmits
<1>4. x \in CallsOfClient /\ x \notin {"timeout", "connected", "readReady"}
  BY DEF CallsOfClient, Ends
<1>5. /\ queue' \in Seq(CallsOfClient) /\ EndsLast' /\ Client!Pending(x)'
      /\ \A s : Client!Pending(s) => Client!Pending(s)'
      /\ \A s : s # x /\ Client!Pending(s)' => Client!Pending(s)
  BY <1>1, <1>3, <1>4, CallPosted
<1>6. Client!TypeOK'
  BY <1>1, <1>5 DEF Client!TypeOK, CallsOfClient
<1>7. UnderWay' /\ Starting' /\ Told' /\ HeaderFirst'
  BY <1>1, <1>3, <1>4, <1>5 DEF UnderWay, Starting, Told, HeaderFirst, Ends
<1>8. OutcomesSoFar' /\ PiecesInStep'
  BY <1>1, OutcomesStay, PiecesStay
<1>9. QED
  BY <1>5, <1>6, <1>7, <1>8

\* The elements of two sequences in one.
LEMMA Joined ==
  ASSUME NEW S, NEW a \in Seq(S), NEW b \in Seq(S)
  PROVE  /\ a \o b \in Seq(S) /\ Len(a) \in Nat /\ Len(b) \in Nat
         /\ Len(a \o b) = Len(a) + Len(b)
         /\ \A i \in 1 .. Len(a) : (a \o b)[i] = a[i]
         /\ \A k \in 1 .. Len(b) : (a \o b)[Len(a) + k] = b[k]
<1>1. Len(a) \in Nat /\ Len(b) \in Nat
  BY LenProperties
<1>2. \A i \in 1 .. Len(a) + Len(b) :
         (a \o b)[i] = IF i <= Len(a) THEN a[i] ELSE b[i - Len(a)]
  BY ConcatProperties
<1>3. \A i \in 1 .. Len(a) : (a \o b)[i] = a[i]
  BY <1>1, <1>2
<1>4. ASSUME NEW k \in 1 .. Len(b) PROVE (a \o b)[Len(a) + k] = b[k]
  <2>1. /\ Len(a) + k \in 1 .. Len(a) + Len(b) /\ ~(Len(a) + k <= Len(a))
        /\ (Len(a) + k) - Len(a) = k
    BY <1>1
  <2>2. QED
    BY <1>2, <2>1
<1>5. QED
  BY <1>1, <1>3, <1>4, ConcatProperties

LEMMA ReceiveKeeps == ClientInv /\ Client!Receive => ClientInv'
<1> SUFFICES ASSUME ClientInv, Client!Receive PROVE ClientInv'
  OBVIOUS
<1> USE Bounds DEF ClientInv
<1> DEFINE pieces(n) == [i \in 1 .. n |-> <<request, received + i>>]
<1>1. PICK size \in 1 .. Lines + Body - received :
         /\ reader = "recv" /\ received' = received + size
         /\ data' = IF state THEN data \o pieces(size) ELSE data
         /\ reader' = IF state THEN "ready" ELSE "recv"
         /\ UNCHANGED <<request, isFinished, isError, receivingFinished, headerReceived,
                        receivePayload, connected, time, timer, loop, queue, state, peer,
                        outcomes, thrown>>
  BY DEF Client!Receive, Client!client
<1>2. /\ ReaderWorks /\ ReaderWorks' /\ reader' \in {"recv", "ready"}
      /\ ~isFinished /\ request \notin thrown
  BY <1>1, ReaderEmits DEF ReaderWorks
<1>3. /\ request \in 1 .. MaxRequests /\ received \in 0 .. Lines + Body /\ size \in Nat
      /\ received + size \in 0 .. Lines + Body
      /\ data \in Seq(Client!Pieces) /\ Len(data) \in Nat
  BY <1>1, <1>2, ClientTypes DEF UnderWay
<1>4. /\ pieces(size) \in Seq(Client!Pieces) /\ Len(pieces(size)) = size
      /\ \A k \in 1 .. size : pieces(size)[k] = <<request, received + k>>
  <2>1. \A i \in 1 .. size : <<request, received + i>> \in Client!Pieces
    BY <1>3 DEF Client!Pieces, Client!Requests
  <2>2. QED
    BY <1>3, <2>1
<1>5. data' \in Seq(Client!Pieces) /\ received' \in 0 .. Lines + Body
  <2> HIDE DEF pieces
  <2>1. QED
    BY <1>1, <1>3, <1>4, ConcatProperties
<1>6. Client!TypeOK'
  BY <1>1, <1>2, <1>5 DEF Client!TypeOK
<1>7. OutcomesSoFar'
  BY <1>1, OutcomesStay
<1>8. UnderWay' /\ EndsLast' /\ Starting' /\ Told' /\ HeaderFirst'
  BY <1>1, <1>2 DEF UnderWay, EndsLast, Starting, Told, HeaderFirst, OnlyTimeouts,
     Client!Pending
<1>9. PiecesInStep'
  <2>1. PICK off \in 0 .. Lines + Body : InStep(off)
    BY DEF PiecesInStep
  <2>2. CASE state
    <3>1. received = off + Len(data) /\ data' = data \o pieces(size) /\ reader' = "ready"
      BY <1>1, <2>1, <2>2 DEF InStep
    <3> HIDE DEF pieces
    <3>2. /\ Len(data') = Len(data) + size
          /\ \A i \in 1 .. Len(data) : data'[i] = data[i]
          /\ \A k \in 1 .. size : data'[Len(data) + k] = pieces(size)[k]
      <4> DEFINE more == pieces(size)
      <4>1. data \in Seq(Client!Pieces) /\ more \in Seq(Client!Pieces) /\ Len(more) = size
        BY <1>3, <1>4
      <4>2. data' = data \o more
        BY <3>1
      <4> HIDE DEF more
      <4>3. /\ Len(data \o more) = Len(data) + Len(more)
            /\ \A i \in 1 .. Len(data) : (data \o more)[i] = data[i]
            /\ \A k \in 1 .. Len(more) : (data \o more)[Len(data) + k] = more[k]
        <5> DEFINE S == Client!Pieces
        <5>1. data \in Seq(S) /\ more \in Seq(S)
          BY <4>1
        <5> HIDE DEF S
        <5>2. QED
          BY <5>1, Joined
      <4>4. /\ Len(data') = Len(data) + size
            /\ \A i \in 1 .. Len(data) : data'[i] = data[i]
            /\ \A k \in 1 .. size : data'[Len(data) + k] = more[k]
        BY <4>1, <4>2, <4>3
      <4>5. QED
        BY <4>4 DEF more
    <3>3. \A i \in 1 .. Len(data') : data'[i] = <<request, off + i>>
      <4> SUFFICES ASSUME NEW i \in 1 .. Len(data') PROVE data'[i] = <<request, off + i>>
        OBVIOUS
      <4>1. CASE i \in 1 .. Len(data)
        BY <2>1, <3>2, <4>1 DEF InStep
      <4>2. CASE i \notin 1 .. Len(data)
        <5>1. PICK k \in 1 .. size : i = Len(data) + k
          <6>1. i - Len(data) \in 1 .. size /\ i = Len(data) + (i - Len(data))
            BY <1>3, <3>2, <4>2
          <6>2. QED
            BY <6>1
        <5>2. received + k = off + i
          BY <1>3, <3>1, <5>1
        <5>3. QED
          BY <1>4, <3>2, <5>1, <5>2
      <4>3. QED
        BY <4>1, <4>2
    <3>4. off + Len(data') <= Lines + Body /\ received' = off + Len(data')
      <4>1. received' = received + size
        BY <1>1
      <4>2. QED
        BY <1>3, <3>1, <3>2, <4>1
    <3>5. InStep(off)'
      BY <1>1, <2>1, <3>3, <3>4 DEF InStep
    <3>6. QED
      BY <1>1, <3>5 DEF PiecesInStep, PayloadIsOwn
  <2>3. CASE ~state
    <3>1. InStep(off)'
      BY <1>1, <2>1, <2>3 DEF InStep
    <3>2. QED
      BY <1>1, <3>1 DEF PiecesInStep, PayloadIsOwn
  <2>4. QED
    BY <2>2, <2>3
<1>10. QED
  BY <1>6, <1>7, <1>8, <1>9

\* What tcpReadReady() does with a buffer: it skips the lines up to the empty
\* one, if it still collects the header, and appends the rest to the payload.
LEMMA HeaderEnds ==
  ASSUME Client!TypeOK, ~headerReceived => receivePayload = <<>>, NEW off \in 0 .. Lines + Body,
         InStep(off), Client!TcpReadReady
  PROVE  \/ /\ headerReceived' = TRUE
            /\ \E skip \in 0 .. Len(data) :
                 /\ off + skip = Lines + Len(receivePayload)
                 /\ receivePayload' = receivePayload \o SubSeq(data, skip + 1, Len(data))
         \/ /\ ~headerReceived /\ off + Len(data) < Lines
            /\ UNCHANGED <<headerReceived, receivingFinished, receivePayload>>
<1> USE Bounds
<1>1. data \in Seq(Client!Pieces) /\ Len(data) \in Nat /\ Len(receivePayload) \in Nat
  BY ClientTypes
<1>2. CASE headerReceived
  <2>1. /\ headerReceived' = TRUE
        /\ receivePayload' = receivePayload \o SubSeq(data, 0 + 1, Len(data))
    BY <1>2 DEF Client!TcpReadReady
  <2>2. 0 \in 0 .. Len(data) /\ off + 0 = Lines + Len(receivePayload)
    BY <1>1, <1>2 DEF InStep
  <2>3. QED
    BY <2>1, <2>2
<1>3. CASE ~headerReceived
  <2> DEFINE blanks == {i \in 1 .. Len(data) : data[i][2] = Lines}
             first == CHOOSE i \in blanks : \A j \in blanks : i <= j
  <2>1. IF blanks # {}
        THEN /\ headerReceived' = TRUE
             /\ receivePayload' = receivePayload \o SubSeq(data, first + 1, Len(data))
        ELSE UNCHANGED <<headerReceived, receivingFinished, receivePayload>>
    BY <1>3 DEF Client!TcpReadReady
  <2>2. off < Lines /\ Len(receivePayload) = 0
    BY <1>3, EmptySeq DEF InStep
  <2>3. \A i \in 1 .. Len(data) : data[i][2] = off + i
    BY DEF InStep
  <2>4. \A i \in blanks : i \in 1 .. Len(data) /\ i = Lines - off
    BY <1>1, <2>3
  <2>5. CASE blanks # {}
    <3>1. Lines - off \in blanks /\ Lines - off \in 1 .. Len(data)
      BY <2>4, <2>5
    <3>2. blanks = {Lines - off}
      BY <2>4, <3>1
    <3>3. first = Lines - off
      <4> HIDE DEF blanks
      <4>1. QED
        BY <3>2
    <3> HIDE DEF first, blanks
    <3>4. first \in 0 .. Len(data) /\ off + first = Lines + Len(receivePayload)
      BY <1>1, <2>2, <3>1, <3>3
    <3>5. QED
      BY <2>1, <2>5, <3>4
  <2>6. CASE blanks = {}
    <3>1. Lines - off \notin 1 .. Len(data)
      BY <2>3, <2>6
    <3>2. off + Len(data) < Lines
      BY <1>1, <2>2, <3>1
    <3>3. QED
      BY <1>3, <2>1, <2>6, <3>2
  <2>7. QED
    BY <2>5, <2>6
<1>4. QED
  BY <1>2, <1>3

\* Of two ways to count the pieces of a response.
LEMMA Shifted ==
  ASSUME NEW off \in Nat, NEW skip \in Nat, NEW lines \in Nat, NEW paid \in Nat, NEW size \in Nat,
         off + skip = lines + paid
  PROVE  /\ off + size = lines + (paid + size - skip)
         /\ \A k \in 1 .. size - skip : /\ skip + k \in 1 .. size
                                       /\ off + (skip + k) = lines + (paid + k)
OBVIOUS

\* Of a buffer that is in step, what follows the header continues the payload.
LEMMA PayloadContinues ==
  ASSUME Client!TypeOK, PayloadIsOwn, NEW off \in 0 .. Lines + Body, InStep(off),
         NEW skip \in 0 .. Len(data), off + skip = Lines + Len(receivePayload),
         NEW more, more = SubSeq(data, skip + 1, Len(data))
  PROVE  /\ receivePayload \o more \in Seq(Client!Pieces)
         /\ Len(receivePayload \o more) = Len(receivePayload) + Len(data) - skip
         /\ \A i \in 1 .. Len(receivePayload \o more) :
               (receivePayload \o more)[i] = <<request, Lines + i>>
<1> USE Bounds
<1> DEFINE S == Client!Pieces
<1>1. /\ data \in Seq(S) /\ Len(data) \in Nat
      /\ receivePayload \in Seq(S) /\ Len(receivePayload) \in Nat
  BY ClientTypes
<1>0. Len(data) \in Nat /\ Len(receivePayload) \in Nat
  BY <1>1
<1> HIDE DEF S
<1>2. /\ more \in Seq(S) /\ Len(more) = Len(data) - skip
      /\ \A k \in 1 .. Len(data) - skip : more[k] = data[skip + k]
  <2>1. skip + 1 \in 1 .. Len(data) + 1 /\ Len(data) \in skip .. Len(data)
    BY <1>1
  <2>2. \A i \in skip + 1 .. Len(data) : i \in 1 .. Len(data) /\ data[i] \in S
    BY <1>1, ElementOfSeq
  <2>3. more \in Seq(S)
    BY <1>1, <2>2, SubSeqProperties
  <2>4. Len(more) = Len(data) - skip
    BY <1>1, <2>1, SubSeqProperties
  <2>5. ASSUME NEW k \in 1 .. Len(data) - skip PROVE more[k] = data[skip + k]
    <3>1. k \in 1 .. Len(data) - (skip + 1) + 1 /\ skip + 1 + k - 1 = skip + k
      BY <1>1
    <3>2. more[k] = data[skip + 1 + k - 1]
      BY <1>1, <2>2, <3>1, SubSeqProperties
    <3>3. QED
      BY <3>1, <3>2
  <2>6. QED
    BY <2>3, <2>4, <2>5
<1>3. /\ receivePayload \o more \in Seq(S)
      /\ Len(receivePayload \o more) = Len(receivePayload) + Len(more)
      /\ \A i \in 1 .. Len(receivePayload) : (receivePayload \o more)[i] = receivePayload[i]
      /\ \A k \in 1 .. Len(more) :
            (receivePayload \o more)[Len(receivePayload) + k] = more[k]
  BY <1>1, <1>2, Joined
<1>4. ASSUME NEW k \in 1 .. Len(data) - skip
      PROVE  more[k] = <<request, Lines + (Len(receivePayload) + k)>>
  <2>1. skip + k \in 1 .. Len(data) /\ off + (skip + k) = Lines + (Len(receivePayload) + k)
    <3>1. off \in Nat /\ skip \in Nat
      BY <1>0
    <3>2. QED
      BY <1>0, <3>1, Shifted
  <2>2. data[skip + k] = <<request, off + (skip + k)>>
    BY <2>1 DEF InStep
  <2>3. QED
    BY <1>2, <2>1, <2>2
<1>5. ASSUME NEW i \in 1 .. Len(receivePayload \o more)
      PROVE  (receivePayload \o more)[i] = <<request, Lines + i>>
  <2> DEFINE all == receivePayload \o more
  <2>1. /\ \A k \in 1 .. Len(receivePayload) : all[k] = receivePayload[k]
        /\ \A k \in 1 .. Len(more) : all[Len(receivePayload) + k] = more[k]
        /\ i \in 1 .. Len(receivePayload) + Len(more)
    BY <1>3
  <2> SUFFICES all[i] = <<request, Lines + i>>
    OBVIOUS
  <2> HIDE DEF all
  <2>2. CASE i \in 1 .. Len(receivePayload)
    BY <2>1, <2>2 DEF PayloadIsOwn
  <2>3. CASE i \notin 1 .. Len(receivePayload)
    <3>1. /\ i - Len(receivePayload) \in 1 .. Len(more)
          /\ i = Len(receivePayload) + (i - Len(receivePayload))
      BY <1>1, <1>2, <2>1, <2>3
    <3>2. PICK k \in 1 .. Len(more) : i = Len(receivePayload) + k
      BY <3>1
    <3>3. k \in 1 .. Len(data) - skip
      BY <1>2
    <3>4. more[k] = <<request, Lines + i>>
      BY <1>4, <3>2, <3>3
    <3>5. QED
      BY <2>1, <3>2, <3>4
  <2>4. QED
    BY <2>2, <2>3
<1>6. QED
  BY <1>1, <1>2, <1>3, <1>5 DEF S

LEMMA TcpReadReadyKeeps == ClientInv /\ Client!TcpReadReady => ClientInv'
<1> SUFFICES ASSUME ClientInv, Client!TcpReadReady PROVE ClientInv'
  OBVIOUS
<1> USE DEF ClientInv
<1>1. /\ loop = "idle" /\ queue # <<>> /\ Head(queue) = "readReady" /\ queue' = Tail(queue)
      /\ time' = 0 /\ data' = <<>>
      /\ UNCHANGED <<request, isFinished, isError, connected, timer, loop, state, reader,
                     peer, received, outcomes, thrown>>
  BY DEF Client!TcpReadReady, Client!Call
<1>2. /\ queue' \in Seq(CallsOfClient)
      /\ EndsLast'
      /\ ~OnlyTimeouts
      /\ \A s : s # "readReady" => (Client!Pending(s)' <=> Client!Pending(s))
      /\ ~Client!Pending("connected")'
  BY <1>1, CallTaken
<1>3. /\ ~isFinished /\ request \notin thrown /\ ~Client!Pending("connected")
      /\ reader \notin {"connect", "connected"}
  BY <1>2 DEF UnderWay, Starting
<1>4. PICK off \in 0 .. Lines + Body : InStep(off)
  BY DEF PiecesInStep
<1>5. /\ Len(data) \in Nat /\ Len(receivePayload) \in Nat
      /\ receivePayload \in Seq(Client!Pieces)
      /\ off + Len(data) <= Lines + Body
      /\ state /\ reader \in {"connected", "recv", "ready"} => received = off + Len(data)
  BY <1>4, ClientTypes DEF InStep
<1>5a. Len(data) \in Nat /\ Len(receivePayload) \in Nat /\ off + Len(data) <= Lines + Body
  BY <1>5
<1>6. Len(data') = 0 /\ data' \in Seq(Client!Pieces)
  BY <1>1, EmptySeq
<1>7. OutcomesSoFar'
  BY <1>1, OutcomesStay
<1>8. UnderWay' /\ Starting' /\ Told'
  BY <1>1, <1>2, <1>3 DEF UnderWay, Starting, Told, ReaderWorks
<1>9. /\ receivePayload' \in Seq(Client!Pieces) /\ headerReceived' \in BOOLEAN
      /\ ~headerReceived' => receivePayload' = <<>> /\ ~headerReceived
                             /\ receivingFinished' = receivingFinished
      /\ headerReceived' => headerReceived' = TRUE
      /\ receivingFinished' \in BOOLEAN
      /\ PiecesInStep'
  <2>1. receivingFinished' \in BOOLEAN
    BY DEF Client!TypeOK, Client!TcpReadReady
  <2>2. ASSUME headerReceived' = TRUE,
               NEW skip \in 0 .. Len(data), off + skip = Lines + Len(receivePayload),
               receivePayload' = receivePayload \o SubSeq(data, skip + 1, Len(data))
        PROVE  receivePayload' \in Seq(Client!Pieces) /\ PiecesInStep'
    <3>1. /\ receivePayload' \in Seq(Client!Pieces)
          /\ Len(receivePayload') = Len(receivePayload) + Len(data) - skip
          /\ \A i \in 1 .. Len(receivePayload') : receivePayload'[i] = <<request, Lines + i>>
      BY <1>4, <2>2, PayloadContinues DEF PiecesInStep
    <3>2. /\ off + Len(data) \in 0 .. Lines + Body
          /\ off + Len(data) = Lines + (Len(receivePayload) + Len(data) - skip)
      <4>1. off \in Nat /\ skip \in Nat /\ off + Len(data) \in Nat
        BY <1>5a, Bounds
      <4>2. off + Len(data) \in 0 .. Lines + Body
        BY <1>5a, <4>1, Bounds
      <4>3. off + skip = Lines + Len(receivePayload)
        BY <2>2, Zenon
      <4>4. off + Len(data) = Lines + (Len(receivePayload) + Len(data) - skip)
        BY <1>5a, <4>1, <4>3, Shifted, Bounds
      <4>5. QED
        BY <4>2, <4>4
    <3>3. PICK now \in 0 .. Lines + Body : now = off + Len(data)
      BY <3>2
    <3>4. now = Lines + Len(receivePayload')
      BY <3>1, <3>2, <3>3
    <3>5. InStep(now)'
      <4>1. /\ \A i \in 1 .. Len(data') : data'[i] = <<request, now + i>>
            /\ now + Len(data') = now /\ now <= Lines + Body
        BY <1>6, Bounds
      <4>2. state /\ reader \in {"connected", "recv", "ready"} => received = now
        BY <1>5, <3>3
      <4> QED
        BY <1>1, <2>2, <3>4, <4>1, <4>2 DEF InStep
    <3>6. QED
      BY <1>1, <3>1, <3>5 DEF PiecesInStep, PayloadIsOwn
  <2>3. ASSUME ~headerReceived, off + Len(data) < Lines,
               UNCHANGED <<headerReceived, receivingFinished, receivePayload>>
        PROVE  PiecesInStep'
    <3>1. PICK now \in 0 .. Lines + Body : now = off + Len(data)
      BY <1>5a, Bounds
    <3>2. InStep(now)'
      BY <1>1, <1>5, <1>6, <2>3, <3>1, Bounds DEF InStep
    <3>3. QED
      BY <1>1, <2>3, <3>2 DEF PiecesInStep, PayloadIsOwn
  <2>4. headerReceived \in BOOLEAN /\ (~headerReceived => receivePayload = <<>>)
    BY DEF Client!TypeOK, HeaderFirst
  <2>5. CASE /\ headerReceived' = TRUE
             /\ \E skip \in 0 .. Len(data) :
                  /\ off + skip = Lines + Len(receivePayload)
                  /\ receivePayload' = receivePayload \o SubSeq(data, skip + 1, Len(data))
    BY <2>1, <2>2, <2>5
  <2>6. CASE /\ ~headerReceived /\ off + Len(data) < Lines
             /\ UNCHANGED <<headerReceived, receivingFinished, receivePayload>>
    BY <1>5, <2>1, <2>3, <2>4, <2>6
  <2>7. QED
    BY <1>4, <2>4, <2>5, <2>6, HeaderEnds
<1>10. Client!TypeOK'
  BY <1>1, <1>2, <1>6, <1>9 DEF Client!TypeOK, CallsOfClient
<1>11. HeaderFirst'
  <2>1. \A n \in 1 .. MaxRequests : n = request => outcomes[n] # <<"finished">>
    <3>1. \A n \in 1 .. MaxRequests : n = request => Len(outcomes[n]) = 0
      BY <1>3 DEF OutcomesSoFar
    <3>2. Len(<<"finished">>) = 1
      OBVIOUS
    <3>3. ASSUME NEW n \in 1 .. MaxRequests, n = request, outcomes[n] = <<"finished">>
          PROVE  FALSE
      <4>1. Len(outcomes[n]) = 0
        BY <3>1, <3>3, Zenon
      <4>2. Len(outcomes[n]) = Len(<<"finished">>)
        BY <3>3, Zenon
      <4>3. QED
        BY <3>2, <4>1, <4>2
    <3>4. QED
      BY <3>3, Zenon
  <2>2. receivingFinished' => headerReceived' \/ Client!Pending("error")'
    BY <1>2, <1>3, <1>9 DEF HeaderFirst
  <2>3. QED
    BY <1>1, <1>9, <2>1, <2>2 DEF HeaderFirst
<1>12. QED
  BY <1>2, <1>7, <1>8, <1>9, <1>10, <1>11

LEMMA ClientNext == ClientInv /\ Client!Next => ClientInv'
BY GetKeeps, TimeoutKeeps, TcpConnectedKeeps, TcpReadReadyKeeps, TcpErrorKeeps,
   CloseJoinsKeeps, EmitErrorKeeps, TcpDisconnectedKeeps, TickKeeps, ConnectKeeps,
   EmitConnectedKeeps, ReceiveKeeps, EmitReadReadyKeeps, EndOfStreamKeeps, PeerKeeps
   DEF Client!Next, Client!Slots

\* What the client promises.
LEMMA ClientPromises ==
  ClientInv => Client!OneOutcome /\ Client!NoRequestHangs /\ Client!AnswerIsOwn
<1> SUFFICES ASSUME ClientInv
             PROVE  Client!OneOutcome /\ Client!NoRequestHangs /\ Client!AnswerIsOwn
  OBVIOUS
<1>1. request \in Nat
  BY ClientTypes DEF ClientInv
<1>2. Client!OneOutcome
  <2> SUFFICES ASSUME NEW n \in 1 .. MaxRequests
               PROVE  /\ Len(outcomes[n]) <= 1
                      /\ n < request => Len(outcomes[n]) = 1 \/ n \in thrown
    BY DEF Client!OneOutcome, Client!Requests
  <2>1. n < request \/ n = request \/ n > request
    BY <1>1
  <2>2. /\ n < request => Len(outcomes[n]) = 1
        /\ Len(outcomes[n]) \in {0, 1}
    BY <2>1 DEF ClientInv, OutcomesSoFar
  <2> DEFINE many == Len(outcomes[n])
  <2>3. many \in {0, 1} /\ (n < request => many = 1)
    BY <2>2
  <2> SUFFICES many <= 1 /\ (n < request => many = 1)
    OBVIOUS
  <2> HIDE DEF many
  <2>4. QED
    BY <2>3
<1>3. Client!NoRequestHangs
  BY DEF ClientInv, UnderWay, ReaderWorks, Client!NoRequestHangs
<1>4. Client!AnswerIsOwn
  BY DEF ClientInv, PiecesInStep, PayloadIsOwn, HeaderFirst, Client!AnswerIsOwn,
     Client!Requests
<1>5. QED
  BY <1>2, <1>3, <1>4

-----------------------------------------------------------------------------
\* EBHttpServer.

CallsOfServer == {"disconnected", "newConnection", "readReady", "requestReady", "newRequest",
                  "requestFinished"} \X (1 .. MaxClients)

InQueue(call, q) == \E i \in 1 .. Len(q) : q[i] = call

\* No request is ready twice.
ReadyOnce(q) == \A i, j \in 1 .. Len(q) : q[i] = q[j] /\ q[i][1] = "requestReady" => i = j

\* A socket without a thread has brought nothing and is in no list; what a
\* request has read and what waits for it came over its connection.
Fresh == \A n \in 1 .. MaxClients :
    /\ reader[n] = "none" => data[n] = 0 /\ ~Server!Listed(n)
    /\ taken[n] + data[n] <= received[n]

\* Where the accepting thread is with the socket in its hands, and the loop
\* with its client.
Holding ==
    /\ held # 0 <=> acceptor \in {"handshake", "start", "connect", "push", "link", "emit"}
    /\ acceptor \in {"handshake", "start"} => reader[held] = "none"
    /\ acceptor \in {"connect", "push", "link", "emit"} => reader[held] # "none"
    /\ acceptor \in {"connect", "push", "link"} => ~Server!Listed(held)
    /\ loop \in {"setSocket", "refuse", "close", "sent"} => current \in 1 .. MaxClients
    /\ loop \in {"close", "sent"} => current \in finished

ListedOnce == \A i, j \in 1 .. Len(clients) : clients[i] = clients[j] => i = j

\* A request that does not listen to its socket yet will be made.
Listening == \A n \in (1 .. MaxClients) \ (refused \cup finished) :
    reader[n] \in {"recv", "ready"} /\ "readReady" \notin slots[n] =>
        held = n \/ Server!Pending("newConnection", n)

\* A request is announced when it is complete, and its one requestReady is
\* taken out of the queue then.
AnnouncedSoFar ==
    /\ \A n \in 1 .. MaxClients :
         /\ announced[n] <= 1
         /\ n \notin finished => /\ announced[n] = 0
                                 /\ ~Server!Pending("requestReady", n)
                                 /\ ~Server!Pending("newRequest", n)
         /\ announced[n] = 1 => ~Server!Pending("requestReady", n)
    /\ ReadyOnce(queue)

\* The socket is in the list of clients or on its way there.
OnTheList(n) == \/ Server!Listed(n)
                \/ held = n /\ acceptor \in {"connect", "push", "link"}

Leaving == loop # "crashed" =>
    \A n \in (1 .. MaxClients) \ (early \cup broken) :
        reader[n] = "done" /\ OnTheList(n) => Server!Pending("disconnected", n)

\* The types, variable by variable.
Controls ==
    /\ tls \in BOOLEAN /\ bound \in BOOLEAN /\ listening \in BOOLEAN
    /\ acceptor \in {"none", "check", "accept", "blocked", "handshake", "start", "connect",
                     "push", "link", "emit", "done"}
    /\ loop \in {"idle", "unbind", "setSocket", "refuse", "close", "sent", "crashed"}
    /\ held \in 0 .. MaxClients /\ tail \in 0 .. MaxClients /\ current \in 0 .. MaxClients

Tables ==
    /\ peer \in [1 .. MaxClients -> {"none", "open", "gone"}]
    /\ received \in [1 .. MaxClients -> 0 .. MaxPieces]
    /\ data \in [1 .. MaxClients -> 0 .. MaxPieces]
    /\ taken \in [1 .. MaxClients -> 0 .. MaxPieces]
    /\ reader \in [1 .. MaxClients -> {"none", "recv", "ready", "done"}]
    /\ slots \in [1 .. MaxClients -> SUBSET {"disconnected", "readReady"}]
    /\ announced \in [1 .. MaxClients -> Nat]

Sets == /\ state \subseteq 1 .. MaxClients /\ requests \subseteq 1 .. MaxClients
        /\ refused \subseteq 1 .. MaxClients /\ finished \subseteq 1 .. MaxClients
        /\ early \subseteq 1 .. MaxClients /\ broken \subseteq 1 .. MaxClients

Lists == clients \in Seq(1 .. MaxClients) /\ queue \in Seq(CallsOfServer)

Typed == Controls /\ Tables /\ Sets /\ Lists

ServerInv == /\ Typed /\ Fresh /\ Holding /\ ListedOnce /\ Listening
             /\ Server!NoRequestForgotten /\ AnnouncedSoFar /\ Leaving

LEMMA PostedTo ==
  ASSUME NEW S, NEW q \in Seq(S), NEW x \in S
  PROVE  /\ Append(q, x) \in Seq(S)
         /\ \A c : InQueue(c, Append(q, x)) <=> InQueue(c, q) \/ c = x
         /\ ReadyOnce(q) /\ (x[1] = "requestReady" => ~InQueue(x, q)) => ReadyOnce(Append(q, x))
<1> DEFINE r == Append(q, x)
<1>1. /\ r \in Seq(S) /\ Len(q) \in Nat
      /\ Len(r) = Len(q) + 1 /\ r[Len(q) + 1] = x
      /\ \A i \in 1 .. Len(q) : r[i] = q[i]
  BY Appended, LenProperties
<1> HIDE DEF r
<1>2. \A i \in 1 .. Len(r) : i \in 1 .. Len(q) \/ (i = Len(q) + 1 /\ r[i] = x)
  BY <1>1
<1>3. \A c : InQueue(c, r) <=> InQueue(c, q) \/ c = x
  BY <1>1, <1>2 DEF InQueue
<1>4. ASSUME ReadyOnce(q), x[1] = "requestReady" => ~InQueue(x, q) PROVE ReadyOnce(r)
  <2> SUFFICES ASSUME NEW i \in 1 .. Len(r), NEW j \in 1 .. Len(r),
                      r[i] = r[j], r[i][1] = "requestReady"
               PROVE  i = j
    BY DEF ReadyOnce
  <2>1. CASE i \in 1 .. Len(q) /\ j \in 1 .. Len(q)
    BY <1>1, <1>4, <2>1 DEF ReadyOnce
  <2>2. CASE i \in 1 .. Len(q) /\ r[j] = x
    BY <1>1, <1>4, <2>2 DEF InQueue
  <2>3. CASE j \in 1 .. Len(q) /\ r[i] = x
    BY <1>1, <1>4, <2>3 DEF InQueue
  <2>4. QED
    BY <1>2, <2>1, <2>2, <2>3
<1>5. QED
  BY <1>1, <1>3, <1>4 DEF r

LEMMA TakenFrom ==
  ASSUME NEW S, NEW q \in Seq(S), q # <<>>
  PROVE  /\ Tail(q) \in Seq(S) /\ Head(q) \in S /\ InQueue(Head(q), q)
         /\ \A c : InQueue(c, Tail(q)) => InQueue(c, q)
         /\ \A c : InQueue(c, q) /\ c # Head(q) => InQueue(c, Tail(q))
         /\ ReadyOnce(q) => /\ ReadyOnce(Tail(q))
                            /\ Head(q)[1] = "requestReady" => ~InQueue(Head(q), Tail(q))
<1> DEFINE r == Tail(q)
           h == Head(q)
<1>1. /\ r \in Seq(S) /\ h \in S /\ Len(q) \in Nat /\ Len(q) >= 1 /\ h = q[1]
      /\ Len(r) = Len(q) - 1
      /\ \A i \in 1 .. Len(q) - 1 : r[i] = q[i + 1]
  BY FirstAndRest, HeadTailProperties
<1> HIDE DEF r, h
<1>2. \A i \in 1 .. Len(r) : i + 1 \in 1 .. Len(q) /\ r[i] = q[i + 1]
  BY <1>1
<1>3. \A i \in 1 .. Len(q) : q[i] = h \/ (i - 1 \in 1 .. Len(r) /\ r[i - 1] = q[i])
  BY <1>1
<1>4. InQueue(h, q)
  BY <1>1 DEF InQueue
<1>5. \A c : InQueue(c, r) => InQueue(c, q)
  BY <1>2 DEF InQueue
<1>6. \A c : InQueue(c, q) /\ c # h => InQueue(c, r)
  BY <1>3 DEF InQueue
<1>7. ASSUME ReadyOnce(q) PROVE ReadyOnce(r)
  <2> SUFFICES ASSUME NEW i \in 1 .. Len(r), NEW j \in 1 .. Len(r),
                      r[i] = r[j], r[i][1] = "requestReady"
               PROVE  i = j
    BY DEF ReadyOnce
  <2>1. i + 1 = j + 1
    BY <1>2, <1>7 DEF ReadyOnce
  <2>2. QED
    BY <1>1, <2>1
<1>8. ASSUME ReadyOnce(q), h[1] = "requestReady" PROVE ~InQueue(h, r)
  <2> SUFFICES ASSUME NEW i \in 1 .. Len(r), r[i] = h PROVE FALSE
    BY DEF InQueue
  <2>1. 1 \in 1 .. Len(q) /\ i + 1 \in 1 .. Len(q) /\ q[i + 1] = q[1] /\ q[1] = h
    BY <1>1, <1>2
  <2>2. i + 1 = 1
    BY <1>8, <2>1 DEF ReadyOnce
  <2>3. QED
    BY <1>1, <2>2
<1>9. QED
  BY <1>1, <1>4, <1>5, <1>6, <1>7, <1>8 DEF r, h

LEMMA ServerTypes == Typed => Server!TypeOK
<1> SUFFICES ASSUME Typed PROVE Server!TypeOK
  OBVIOUS
<1>1. Controls /\ Tables /\ Sets /\ Lists
  BY DEF Typed
<1>2. /\ {held, tail, current} \subseteq (1 .. MaxClients) \cup {0}
      /\ UNION {refused, state, requests, finished, early, broken} \subseteq 1 .. MaxClients
  BY <1>1, Bounds DEF Controls, Sets
<1>3. QED
  BY <1>1, <1>2 DEF Controls, Tables, Lists, CallsOfServer, Server!TypeOK, Server!Clients,
     Server!None

LEMMA ServerInit == Server!Init => ServerInv
<1> SUFFICES ASSUME Server!Init PROVE ServerInv
  OBVIOUS
<1> USE Bounds DEF Server!Clients, Server!None
<1>1. /\ queue \in Seq(CallsOfServer) /\ clients \in Seq(1 .. MaxClients)
      /\ Len(queue) = 0 /\ Len(clients) = 0
  BY EmptySeq DEF Server!Init
<1>2. Controls /\ Tables /\ Sets /\ Lists
  <2>1. Controls
    <3>1. held \in 0 .. MaxClients /\ tail \in 0 .. MaxClients /\ current \in 0 .. MaxClients
      BY DEF Server!Init
    <3>2. tls \in BOOLEAN /\ bound \in BOOLEAN /\ listening \in BOOLEAN
      BY Zenon DEF Server!Init
    <3>3. acceptor = "none" /\ loop = "idle"
      BY DEF Server!Init
    <3>4. QED
      BY <3>1, <3>2, <3>3 DEF Controls
  <2>2. Tables
    BY DEF Server!Init, Tables
  <2>3. Sets
    BY DEF Server!Init, Sets
  <2>4. QED
    BY <1>1, <2>1, <2>2, <2>3 DEF Lists
<1>3. Fresh /\ Holding /\ ListedOnce /\ Listening /\ Server!NoRequestForgotten
  BY <1>1 DEF Server!Init, Fresh, Holding, ListedOnce, Listening, Server!NoRequestForgotten,
     Server!Listed
<1>4. AnnouncedSoFar /\ Leaving
  BY <1>1 DEF Server!Init, AnnouncedSoFar, Leaving, OnTheList, Server!Listed, Server!Pending,
     ReadyOnce
<1>5. QED
  BY <1>2, <1>3, <1>4 DEF ServerInv, Typed

\* What the steps say beyond the types and the places of the two threads.
Served == /\ Fresh /\ ListedOnce /\ Listening /\ Server!NoRequestForgotten
          /\ AnnouncedSoFar /\ Leaving

\* A step of the accepting thread or of the loop that calls nothing.
LEMMA QuietServerStep ==
  ASSUME Served, loop # "crashed", loop' # "crashed",
         UNCHANGED <<data, reader, received, taken, clients, refused, finished, announced,
                     early, broken, queue>>,
         \A n \in 1 .. MaxClients : "readReady" \in slots[n] => "readReady" \in slots'[n],
         \A n \in 1 .. MaxClients : held = n => held' = n,
         acceptor' \in {"connect", "push", "link"} =>
             acceptor \in {"connect", "push", "link"} /\ held' = held,
         loop = "setSocket" => loop' = "setSocket" /\ current' = current
  PROVE  Served'
<1> USE DEF Served
<1>1. Fresh' /\ ListedOnce' /\ AnnouncedSoFar'
  BY DEF Fresh, ListedOnce, AnnouncedSoFar, Server!Listed, Server!Pending, ReadyOnce
<1>2. Listening'
  BY DEF Listening, Server!Pending
<1>3. Server!NoRequestForgotten'
  BY DEF Server!NoRequestForgotten, Server!Pending, Server!Clients
<1>4. Leaving'
  BY DEF Leaving, OnTheList, Server!Pending, Server!Listed
<1>5. QED
  BY <1>1, <1>2, <1>3, <1>4

LEMMA ControlSteps ==
  ASSUME ServerInv, loop # "crashed",
         \/ Server!Bind \/ Server!Unbind \/ Server!UnbindJoins
         \/ Server!CheckBound \/ Server!CallAccept \/ Server!Handshake
         \/ Server!ConnectDisconnected \/ Server!PushFindsEnd
         \/ Server!Refuse \/ Server!CloseJoins
         \/ \E n \in 1 .. MaxClients : Server!ClientConnects(n) \/ Server!ClientEnds(n)
  PROVE  ServerInv'
<1> USE Bounds DEF Server!accepting, Server!sockets, Server!serving, Server!None, Server!Clients
<1>0. /\ Controls /\ Tables /\ Sets /\ Lists /\ Holding /\ Served
  BY DEF ServerInv, Served, Typed
<1>1. SUFFICES Controls' /\ Tables' /\ Sets' /\ Lists' /\ Holding' /\ Served'
  BY DEF ServerInv, Served, Typed
<1>2. CASE Server!Bind \/ Server!CheckBound \/ Server!CallAccept \/ Server!Handshake
  <2>1. /\ UNCHANGED <<tls, peer, held, tail, received, early, broken, reader, data, state,
                       slots, queue, loop, current, clients, requests, refused, taken,
                       finished, announced>>
        /\ bound' \in BOOLEAN /\ listening' \in BOOLEAN
        /\ \/ acceptor = "none" /\ acceptor' = "check"
           \/ acceptor = "check" /\ acceptor' \in {"accept", "done"}
           \/ acceptor = "accept" /\ acceptor' \in {"blocked", "check"}
           \/ acceptor = "handshake" /\ acceptor' = "start"
    BY <1>0, <1>2 DEF Server!Bind, Server!CheckBound, Server!CallAccept, Server!Handshake,
       Controls
  <2>2. Controls' /\ Tables' /\ Sets' /\ Lists'
    BY <1>0, <2>1 DEF Controls, Tables, Sets, Lists
  <2>3. Holding'
    BY <1>0, <2>1 DEF Holding
  <2>4. Served'
    BY <1>0, <2>1, QuietServerStep
  <2>5. QED
    BY <2>2, <2>3, <2>4
<1>3. CASE Server!Unbind \/ Server!UnbindJoins \/ Server!Refuse \/ Server!CloseJoins
  <2>1. /\ UNCHANGED <<tls, peer, held, tail, received, early, broken, reader, data, state,
                       slots, queue, clients, requests, refused, taken, finished, announced>>
        /\ bound' \in BOOLEAN /\ listening' \in BOOLEAN
        /\ acceptor' = acceptor \/ (acceptor = "done" /\ acceptor' = "none")
        /\ \/ loop' \in {"idle", "unbind"} /\ loop # "setSocket" /\ current' \in {0, current}
           \/ loop = "close" /\ loop' = "sent" /\ current' = current
    BY <1>0, <1>3 DEF Server!Unbind, Server!UnbindJoins, Server!Refuse, Server!CloseJoins,
       Controls
  <2>2. Tables' /\ Sets' /\ Lists' /\ Controls'
    <3>1. Tables' /\ Sets' /\ Lists'
      BY <1>0, <2>1 DEF Tables, Sets, Lists
    <3>2. current' \in 0 .. MaxClients
      BY <1>0, <2>1 DEF Controls
    <3>3. Controls'
      BY <1>0, <2>1, <3>2 DEF Controls
    <3>4. QED
      BY <3>1, <3>3
  <2>3. Holding'
    BY <1>0, <2>1 DEF Holding, Server!Listed
  <2>4. Served'
    BY <1>0, <2>1, QuietServerStep
  <2>5. QED
    BY <2>2, <2>3, <2>4
<1>4. CASE Server!ConnectDisconnected \/ Server!PushFindsEnd
  <2>1. /\ UNCHANGED <<tls, peer, bound, listening, held, received, early, broken, reader,
                       data, state, queue, loop, current, clients, requests, refused, taken,
                       finished, announced>>
        /\ \/ acceptor = "connect" /\ acceptor' = "push"
           \/ acceptor = "push" /\ acceptor' = "link"
        /\ \/ slots' = slots
           \/ slots' = [slots EXCEPT ![held] = @ \cup {"disconnected"}]
    BY <1>4 DEF Server!ConnectDisconnected, Server!PushFindsEnd
  <2>2. tail' \in 0 .. MaxClients
    <3>1. CASE tail' = tail
      BY <1>0, <3>1 DEF Controls
    <3>2. CASE tail' = IF clients = <<>> THEN 0 ELSE clients[Len(clients)]
      <4>1. clients # <<>> => clients[Len(clients)] \in 1 .. MaxClients
        <5>1. clients \in Seq(1 .. MaxClients)
          BY <1>0 DEF Lists
        <5>2. clients # <<>> => Len(clients) \in 1 .. Len(clients)
          BY <5>1, FirstAndRest
        <5>3. QED
          BY <5>1, <5>2, ElementOfSeq
      <4>2. QED
        BY <3>2, <4>1
    <3>3. QED
      BY <1>4, <3>1, <3>2 DEF Server!ConnectDisconnected, Server!PushFindsEnd
  <2>3. held \in 1 .. MaxClients
    BY <1>0, <2>1 DEF Holding, Controls
  <2>4. /\ slots' \in [1 .. MaxClients -> SUBSET {"disconnected", "readReady"}]
        /\ \A n \in 1 .. MaxClients : "readReady" \in slots[n] => "readReady" \in slots'[n]
    <3>1. slots \in [1 .. MaxClients -> SUBSET {"disconnected", "readReady"}]
      BY <1>0 DEF Tables
    <3>2. slots[held] \cup {"disconnected"} \in SUBSET {"disconnected", "readReady"}
      BY <2>3, <3>1
    <3>3. CASE slots' = slots
      BY <3>1, <3>3
    <3>4. CASE slots' = [slots EXCEPT ![held] = slots[held] \cup {"disconnected"}]
      BY <2>3, <3>1, <3>2, <3>4
    <3>5. QED
      BY <2>1, <3>3, <3>4
  <2>5. Controls' /\ Tables' /\ Sets' /\ Lists'
    BY <1>0, <2>1, <2>2, <2>4 DEF Controls, Tables, Sets, Lists
  <2>6. Holding'
    BY <1>0, <2>1 DEF Holding, Server!Listed
  <2>7. Served'
    BY <1>0, <2>1, <2>4, QuietServerStep
  <2>8. QED
    BY <2>5, <2>6, <2>7
<1>5. CASE \E n \in 1 .. MaxClients : Server!ClientConnects(n) \/ Server!ClientEnds(n)
  <2>1. /\ UNCHANGED <<tls, bound, listening, acceptor, held, tail, received, early, broken,
                       reader, data, state, slots, queue, loop, current, clients, requests,
                       refused, taken, finished, announced>>
        /\ \E n \in 1 .. MaxClients, p \in {"open", "gone"} : peer' = [peer EXCEPT ![n] = p]
    BY <1>5 DEF Server!ClientConnects, Server!ClientEnds
  <2>2. peer' \in [1 .. MaxClients -> {"none", "open", "gone"}]
    BY <1>0, <2>1 DEF Tables
  <2>3. Controls' /\ Tables' /\ Sets' /\ Lists'
    BY <1>0, <2>1, <2>2 DEF Controls, Tables, Sets, Lists
  <2>4. Holding'
    BY <1>0, <2>1 DEF Holding, Server!Listed
  <2>5. Served'
    BY <1>0, <2>1, QuietServerStep
  <2>6. QED
    BY <2>3, <2>4, <2>5
<1>6. QED
  BY <1>2, <1>3, <1>4, <1>5

\* A call is posted; a call is taken.
LEMMA ServerPosts ==
  ASSUME queue \in Seq(CallsOfServer), NEW s, NEW n, <<s, n>> \in CallsOfServer,
         queue' = Append(queue, <<s, n>>)
  PROVE  /\ queue' \in Seq(CallsOfServer)
         /\ \A t, m : Server!Pending(t, m)' <=> Server!Pending(t, m) \/ (t = s /\ m = n)
         /\ ReadyOnce(queue) /\ (s = "requestReady" => ~Server!Pending(s, n)) => ReadyOnce(queue')
<1> DEFINE call == <<s, n>>
<1>1. call \in CallsOfServer /\ call[1] = s /\ queue' = Append(queue, call)
  OBVIOUS
<1>2. \A t, m : <<t, m>> = call <=> t = s /\ m = n
  OBVIOUS
<1>3. /\ \A t, m : Server!Pending(t, m) <=> InQueue(<<t, m>>, queue)
      /\ \A t, m : Server!Pending(t, m)' <=> InQueue(<<t, m>>, queue')
      /\ Server!Pending(s, n) <=> InQueue(call, queue)
  BY DEF Server!Pending, InQueue
<1> HIDE DEF call
<1>4. /\ queue' \in Seq(CallsOfServer)
      /\ \A c : InQueue(c, queue') <=> InQueue(c, queue) \/ c = call
      /\ ReadyOnce(queue) /\ (call[1] = "requestReady" => ~InQueue(call, queue))
            => ReadyOnce(queue')
  BY <1>1, PostedTo
<1>5. QED
  BY <1>1, <1>2, <1>3, <1>4

LEMMA ServerTakes ==
  ASSUME queue \in Seq(CallsOfServer), queue # <<>>, queue' = Tail(queue),
         NEW s, s = Head(queue)[1], NEW n, n = Head(queue)[2]
  PROVE  /\ queue' \in Seq(CallsOfServer) /\ n \in 1 .. MaxClients
         /\ Server!Pending(s, n)
         /\ \A t, m : Server!Pending(t, m)' => Server!Pending(t, m)
         /\ \A t, m : Server!Pending(t, m) /\ ~(t = s /\ m = n) => Server!Pending(t, m)'
         /\ ReadyOnce(queue) => /\ ReadyOnce(queue')
                                /\ s = "requestReady" => ~Server!Pending(s, n)'
<1> DEFINE call == Head(queue)
<1>1. s = call[1] /\ n = call[2]
  OBVIOUS
<1> HIDE DEF call
<1>2. /\ queue' \in Seq(CallsOfServer) /\ call \in CallsOfServer /\ InQueue(call, queue)
      /\ \A c : InQueue(c, queue') => InQueue(c, queue)
      /\ \A c : InQueue(c, queue) /\ c # call => InQueue(c, queue')
      /\ ReadyOnce(queue) => /\ ReadyOnce(queue')
                             /\ call[1] = "requestReady" => ~InQueue(call, queue')
  BY TakenFrom DEF call
<1>3. call = <<s, n>> /\ n \in 1 .. MaxClients
  BY <1>1, <1>2 DEF CallsOfServer
<1>4. /\ \A t, m : Server!Pending(t, m) <=> InQueue(<<t, m>>, queue)
      /\ \A t, m : Server!Pending(t, m)' <=> InQueue(<<t, m>>, queue')
  BY DEF Server!Pending, InQueue
<1>5. \A t, m : <<t, m>> = call <=> t = s /\ m = n
  BY <1>3
<1>6. QED
  BY <1>1, <1>2, <1>3, <1>4, <1>5

LEMMA AcceptReturnsKeeps ==
  ASSUME ServerInv, loop # "crashed", Server!AcceptReturns PROVE ServerInv'
<1> USE Bounds DEF Server!sockets, Server!serving, Server!None, Server!Clients
<1>0. Controls /\ Tables /\ Sets /\ Lists /\ Holding /\ Served
  BY DEF ServerInv, Served, Typed
<1>1. PICK n \in Server!Backlog :
        /\ acceptor = "blocked" /\ held' = n /\ acceptor' \in {"handshake", "start"}
        /\ UNCHANGED <<tls, peer, bound, listening, tail, received, early, broken, reader, data,
                       state, slots, queue, loop, current, clients, requests, refused, taken,
                       finished, announced>>
  BY DEF Server!AcceptReturns
<1>2. n \in 1 .. MaxClients /\ reader[n] = "none" /\ held = 0
  BY <1>0, <1>1 DEF Server!Backlog, Holding, Controls
<1>3. Controls' /\ Tables' /\ Sets' /\ Lists'
  <2>1. Tables' /\ Sets' /\ Lists'
    BY <1>0, <1>1, <1>2 DEF Tables, Sets, Lists
  <2>2. held' \in 0 .. MaxClients
    BY <1>0, <1>1, <1>2 DEF Controls
  <2>3. Controls'
    BY <1>0, <1>1, <1>2, <2>2 DEF Controls
  <2>4. QED
    BY <2>1, <2>3
<1>4. Holding'
  BY <1>0, <1>1, <1>2 DEF Holding
<1>5. Served'
  BY <1>0, <1>1, <1>2, QuietServerStep
<1>6. QED
  BY <1>3, <1>4, <1>5 DEF ServerInv, Served, Typed

LEMMA HandshakeFailsKeeps ==
  ASSUME ServerInv, loop # "crashed", Server!HandshakeFails PROVE ServerInv'
<1> USE Bounds DEF Server!serving, Server!None, Server!Clients
<1>0. Controls /\ Tables /\ Sets /\ Lists /\ Holding /\ Served
  BY DEF ServerInv, Served, Typed
<1>1. /\ acceptor = "handshake" /\ acceptor' = "check" /\ held' = 0
      /\ reader' = [reader EXCEPT ![held] = "done"]
      /\ UNCHANGED <<tls, peer, bound, listening, tail, received, early, broken, data,
                     state, slots, queue, loop, current, clients, requests, refused, taken,
                     finished, announced>>
  BY DEF Server!HandshakeFails
<1>2. /\ held \in 1 .. MaxClients /\ reader[held] = "none"
      /\ data[held] = 0 /\ ~Server!Listed(held)
  BY <1>0, <1>1 DEF Holding, Controls, Served, Fresh
<1>3. /\ reader' \in [1 .. MaxClients -> {"none", "recv", "ready", "done"}]
      /\ \A m \in 1 .. MaxClients : reader'[m] = IF m = held THEN "done" ELSE reader[m]
  BY <1>0, <1>1, <1>2 DEF Tables
<1>4. Controls' /\ Tables' /\ Sets' /\ Lists'
  <2>1. Tables' /\ Sets' /\ Lists'
    BY <1>0, <1>1, <1>3 DEF Tables, Sets, Lists
  <2>2. held' \in 0 .. MaxClients
    BY <1>0, <1>1, <1>3 DEF Controls
  <2>3. Controls'
    BY <1>0, <1>1, <1>3, <2>2 DEF Controls
  <2>4. QED
    BY <2>1, <2>3
<1>5. Holding'
  BY <1>0, <1>1 DEF Holding
<1>6. Fresh' /\ ListedOnce' /\ AnnouncedSoFar'
  BY <1>0, <1>1, <1>3 DEF Served, Fresh, ListedOnce, AnnouncedSoFar, Server!Listed,
     Server!Pending, ReadyOnce
<1>7. Listening'
  BY <1>0, <1>1, <1>3 DEF Served, Listening, Server!Pending
<1>8. Server!NoRequestForgotten'
  <2> SUFFICES ASSUME NEW n \in (1 .. MaxClients) \ (refused \cup finished), data[n] > 0
               PROVE  \/ reader'[n] = "ready" \/ Server!Pending("readReady", n)'
                      \/ Server!Pending("newConnection", n)'
                      \/ loop' = "setSocket" /\ current' = n
    BY <1>1 DEF Server!NoRequestForgotten
  <2>1. n # held
    BY <1>2
  <2>2. reader'[n] = reader[n]
    BY <1>3, <2>1
  <2>3. QED
    BY <1>0, <1>1, <2>1, <2>2 DEF Served, Server!NoRequestForgotten, Server!Pending
<1>9. Leaving'
  <2> SUFFICES ASSUME NEW n \in (1 .. MaxClients) \ (early \cup broken),
                      reader'[n] = "done", OnTheList(n)'
               PROVE  Server!Pending("disconnected", n)'
    BY <1>1 DEF Leaving
  <2>1. Server!Listed(n)
    BY <1>1 DEF OnTheList, Server!Listed
  <2>2. n # held
    BY <1>2, <2>1
  <2>3. reader[n] = "done"
    BY <1>3, <2>2
  <2>4. QED
    BY <1>0, <1>1, <2>1, <2>3 DEF Served, Leaving, OnTheList, Server!Pending
<1>10. QED
  BY <1>4, <1>5, <1>6, <1>7, <1>8, <1>9 DEF ServerInv, Typed

LEMMA StartThreadKeeps ==
  ASSUME ServerInv, loop # "crashed", Server!StartThread PROVE ServerInv'
<1> USE Bounds DEF Server!serving, Server!None, Server!Clients
<1>0. Controls /\ Tables /\ Sets /\ Lists /\ Holding /\ Served
  BY DEF ServerInv, Served, Typed
<1>1. /\ acceptor = "start" /\ acceptor' = "connect" /\ held' = held
      /\ state' = state \cup {held}
      /\ reader' = [reader EXCEPT ![held] = "recv"]
      /\ UNCHANGED <<tls, peer, bound, listening, tail, received, early, broken, data,
                     slots, queue, loop, current, clients, requests, refused, taken,
                     finished, announced>>
  BY DEF Server!StartThread
<1>2. /\ held \in 1 .. MaxClients /\ reader[held] = "none" /\ ~Server!Listed(held)
  BY <1>0, <1>1 DEF Holding, Controls, Served, Fresh
<1>3. /\ reader' \in [1 .. MaxClients -> {"none", "recv", "ready", "done"}]
      /\ \A m \in 1 .. MaxClients : reader'[m] = IF m = held THEN "recv" ELSE reader[m]
  BY <1>0, <1>1, <1>2 DEF Tables
<1>4. Controls' /\ Tables' /\ Sets' /\ Lists'
  BY <1>0, <1>1, <1>2, <1>3 DEF Controls, Tables, Sets, Lists
<1>5. Holding'
  BY <1>0, <1>1, <1>2, <1>3 DEF Holding, Server!Listed
<1>6. Fresh' /\ ListedOnce' /\ AnnouncedSoFar'
  BY <1>0, <1>1, <1>3 DEF Served, Fresh, ListedOnce, AnnouncedSoFar, Server!Listed,
     Server!Pending, ReadyOnce
<1>7. Listening'
  BY <1>0, <1>1, <1>3 DEF Served, Listening, Server!Pending
<1>8. Server!NoRequestForgotten'
  BY <1>0, <1>1, <1>2, <1>3 DEF Served, Server!NoRequestForgotten, Server!Pending
<1>9. Leaving'
  BY <1>0, <1>1, <1>2, <1>3 DEF Served, Leaving, OnTheList, Server!Pending, Server!Listed
<1>10. QED
  BY <1>4, <1>5, <1>6, <1>7, <1>8, <1>9 DEF ServerInv, Typed

LEMMA PushLinksKeeps ==
  ASSUME ServerInv, loop # "crashed", Server!PushLinks PROVE ServerInv'
<1> USE Bounds DEF Server!sockets, Server!serving, Server!None, Server!Clients
<1>0. Controls /\ Tables /\ Sets /\ Lists /\ Holding /\ Served
  BY DEF ServerInv, Served, Typed
<1>1. /\ acceptor = "link" /\ acceptor' = "emit" /\ held' = held /\ tail' = 0
      /\ clients' = Append(clients, held) \/ clients' = clients
      /\ UNCHANGED <<tls, peer, bound, listening, received, early, broken, reader, data,
                     state, slots, queue, loop, current, requests, refused, taken,
                     finished, announced>>
  BY DEF Server!PushLinks
<1>2. /\ held \in 1 .. MaxClients /\ ~Server!Listed(held)
      /\ clients \in Seq(1 .. MaxClients) /\ Len(clients) \in Nat
  BY <1>0, <1>1, LenProperties DEF Holding, Controls, Lists
<1>3. /\ clients' \in Seq(1 .. MaxClients)
      /\ \A m : Server!Listed(m)' => Server!Listed(m) \/ m = held
      /\ ListedOnce'
  <2>1. CASE clients' = clients
    BY <1>0, <1>2, <2>1 DEF Server!Listed, Served, ListedOnce
  <2>2. CASE clients' = Append(clients, held)
    <3>1. /\ clients' \in Seq(1 .. MaxClients)
          /\ Len(clients') = Len(clients) + 1 /\ clients'[Len(clients) + 1] = held
          /\ \A i \in 1 .. Len(clients) : clients'[i] = clients[i]
      BY <1>2, <2>2, Appended
    <3>2. \A i \in 1 .. Len(clients') :
             i \in 1 .. Len(clients) \/ (i = Len(clients) + 1 /\ clients'[i] = held)
      BY <1>2, <3>1
    <3>3. \A m : Server!Listed(m)' => Server!Listed(m) \/ m = held
      BY <3>1, <3>2 DEF Server!Listed
    <3>4. ListedOnce'
      BY <1>0, <1>2, <3>1, <3>2 DEF Server!Listed, Served, ListedOnce
    <3>5. QED
      BY <3>1, <3>3, <3>4
  <2>3. QED
    BY <1>1, <2>1, <2>2
<1>4. Controls' /\ Tables' /\ Sets' /\ Lists'
  <2>1. Tables' /\ Sets' /\ Lists'
    BY <1>0, <1>1, <1>3 DEF Tables, Sets, Lists
  <2>2. tail' \in 0 .. MaxClients
    BY <1>0, <1>1, <1>3 DEF Controls
  <2>3. Controls'
    BY <1>0, <1>1, <1>3, <2>2 DEF Controls
  <2>4. QED
    BY <2>1, <2>3
<1>5. Holding'
  BY <1>0, <1>1 DEF Holding
<1>5a. reader[held] # "none"
  BY <1>0, <1>1 DEF Holding
<1>6. Fresh' /\ AnnouncedSoFar'
  BY <1>0, <1>1, <1>3, <1>5a DEF Served, Fresh, AnnouncedSoFar, Server!Pending, ReadyOnce
<1>7. Listening' /\ Server!NoRequestForgotten'
  BY <1>0, <1>1 DEF Served, Listening, Server!NoRequestForgotten, Server!Pending
<1>8. Leaving'
  BY <1>0, <1>1, <1>3 DEF Served, Leaving, OnTheList, Server!Pending
<1>9. QED
  BY <1>3, <1>4, <1>5, <1>6, <1>7, <1>8 DEF ServerInv, Typed

LEMMA EmitNewConnectionKeeps ==
  ASSUME ServerInv, loop # "crashed", Server!EmitNewConnection PROVE ServerInv'
<1> USE Bounds DEF Server!sockets, Server!serving, Server!None, Server!Clients
<1>0. Controls /\ Tables /\ Sets /\ Lists /\ Holding /\ Served
  BY DEF ServerInv, Served, Typed
<1>1. /\ acceptor = "emit" /\ acceptor' = "check" /\ held' = 0
      /\ queue' = Append(queue, <<"newConnection", held>>)
      /\ UNCHANGED <<tls, peer, bound, listening, tail, received, early, broken, reader, data,
                     state, slots, loop, current, clients, requests, refused, taken,
                     finished, announced>>
  BY DEF Server!EmitNewConnection, Server!Post
<1>2. held \in 1 .. MaxClients
  BY <1>0, <1>1 DEF Holding, Controls
<1>3. /\ queue' \in Seq(CallsOfServer)
      /\ \A t, m : Server!Pending(t, m)' <=>
                       Server!Pending(t, m) \/ (t = "newConnection" /\ m = held)
      /\ ReadyOnce(queue) => ReadyOnce(queue')
  <2>1. <<"newConnection", held>> \in CallsOfServer /\ queue \in Seq(CallsOfServer)
    BY <1>0, <1>2 DEF CallsOfServer, Lists
  <2>2. QED
    BY <1>1, <2>1, ServerPosts
<1>4. Controls' /\ Tables' /\ Sets' /\ Lists'
  <2>1. Tables' /\ Sets' /\ Lists'
    BY <1>0, <1>1, <1>3 DEF Tables, Sets, Lists
  <2>2. held' \in 0 .. MaxClients
    BY <1>1
  <2>3. Controls'
    BY <1>0, <1>1, <2>2 DEF Controls
  <2>4. QED
    BY <2>1, <2>3
<1>5. Holding' /\ Fresh' /\ ListedOnce'
  BY <1>0, <1>1 DEF Holding, Served, Fresh, ListedOnce, Server!Listed
<1>6. AnnouncedSoFar'
  BY <1>0, <1>1, <1>3 DEF Served, AnnouncedSoFar
<1>7. Listening' /\ Server!NoRequestForgotten'
  BY <1>0, <1>1, <1>2, <1>3 DEF Served, Listening, Server!NoRequestForgotten
<1>8. Leaving'
  BY <1>0, <1>1, <1>3 DEF Served, Leaving, OnTheList, Server!Listed
<1>9. QED
  BY <1>4, <1>5, <1>6, <1>7, <1>8 DEF ServerInv, Typed

\* The reader threads.
LEMMA ServerReceiveKeeps ==
  ASSUME ServerInv, loop # "crashed", NEW n \in 1 .. MaxClients, Server!Receive(n)
  PROVE  ServerInv'
<1> USE Bounds DEF Server!accepting, Server!serving, Server!None, Server!Clients
<1>0. Controls /\ Tables /\ Sets /\ Lists /\ Holding /\ Served
  BY DEF ServerInv, Served, Typed
<1>1. PICK size \in 1 .. MaxPieces - received[n] :
         /\ reader[n] = "recv"
         /\ received' = [received EXCEPT ![n] = received[n] + size]
         /\ data' = IF n \in state THEN [data EXCEPT ![n] = data[n] + size] ELSE data
         /\ reader' = IF n \in state THEN [reader EXCEPT ![n] = "ready"] ELSE reader
         /\ UNCHANGED <<tls, peer, bound, listening, acceptor, held, tail, early, broken, state,
                        slots, queue, loop, current, clients, requests, refused, taken,
                        finished, announced>>
  BY DEF Server!Receive
<1>2. /\ received \in [1 .. MaxClients -> 0 .. MaxPieces]
      /\ data \in [1 .. MaxClients -> 0 .. MaxPieces]
      /\ taken \in [1 .. MaxClients -> 0 .. MaxPieces]
      /\ reader \in [1 .. MaxClients -> {"none", "recv", "ready", "done"}]
  BY <1>0 DEF Tables
<1>3. /\ received[n] + size \in 0 .. MaxPieces
      /\ taken[n] + data[n] <= received[n]
      /\ data[n] + size \in 0 .. MaxPieces
  <2>1. taken[n] + data[n] <= received[n]
    BY <1>0 DEF Served, Fresh
  <2>2. received[n] \in Nat /\ data[n] \in Nat /\ taken[n] \in Nat /\ received[n] <= MaxPieces
    BY <1>2
  <2>3. QED
    BY <2>1, <2>2
<1>4. /\ received' \in [1 .. MaxClients -> 0 .. MaxPieces]
      /\ data' \in [1 .. MaxClients -> 0 .. MaxPieces]
      /\ reader' \in [1 .. MaxClients -> {"none", "recv", "ready", "done"}]
      /\ \A m \in 1 .. MaxClients : m # n => /\ received'[m] = received[m]
                                             /\ data'[m] = data[m] /\ reader'[m] = reader[m]
      /\ received'[n] = received[n] + size
      /\ \/ data'[n] = data[n] + size /\ reader'[n] = "ready"
         \/ data'[n] = data[n] /\ reader'[n] = "recv"
  BY <1>1, <1>2, <1>3
<1>5. Controls' /\ Tables' /\ Sets' /\ Lists'
  BY <1>0, <1>1, <1>4 DEF Controls, Tables, Sets, Lists
<1>6. Fresh'
  <2> SUFFICES ASSUME NEW m \in 1 .. MaxClients
               PROVE  /\ reader'[m] = "none" => data'[m] = 0 /\ ~Server!Listed(m)'
                      /\ taken'[m] + data'[m] <= received'[m]
    BY DEF Fresh
  <2>1. CASE m = n
    <3>1. received[n] \in Nat /\ data[n] \in Nat /\ taken[n] \in Nat
      BY <1>2
    <3>2. size \in Nat /\ received'[n] = received[n] + size
          /\ (data'[n] = data[n] + size \/ data'[n] = data[n])
      BY <1>4, <3>1
    <3>3. taken[n] + data'[n] <= received'[n]
      BY <1>3, <3>1, <3>2
    <3>4. QED
      BY <1>1, <1>4, <2>1, <3>3
  <2>2. CASE m # n
    BY <1>0, <1>1, <1>4, <2>2 DEF Served, Fresh, Server!Listed
  <2>3. QED
    BY <2>1, <2>2
<1>7. Holding'
  <2>1. ~(acceptor \in {"handshake", "start"} /\ held = n)
    BY <1>0, <1>1 DEF Holding
  <2>2. \A m \in 1 .. MaxClients : reader[m] # "none" => reader'[m] # "none"
    BY <1>4
  <2>3. acceptor \in {"handshake", "start", "connect", "push", "link", "emit"}
           => held \in 1 .. MaxClients
    BY <1>0 DEF Holding, Controls
  <2>4. QED
    BY <1>0, <1>1, <1>4, <2>1, <2>2, <2>3 DEF Holding, Server!Listed
<1>8. ListedOnce' /\ AnnouncedSoFar'
  BY <1>0, <1>1 DEF Served, ListedOnce, AnnouncedSoFar, Server!Pending, ReadyOnce
<1>9. Listening'
  <2>1. \A m \in 1 .. MaxClients : reader'[m] \in {"recv", "ready"} => reader[m] \in {"recv", "ready"}
    BY <1>1, <1>4
  <2>2. QED
    BY <1>0, <1>1, <2>1 DEF Served, Listening, Server!Pending
<1>10. Server!NoRequestForgotten'
  <2> SUFFICES ASSUME NEW m \in (1 .. MaxClients) \ (refused \cup finished), data'[m] > 0
               PROVE  \/ reader'[m] = "ready" \/ Server!Pending("readReady", m)'
                      \/ held = m \/ Server!Pending("newConnection", m)'
                      \/ loop = "setSocket" /\ current = m
    BY <1>1 DEF Server!NoRequestForgotten
  <2>1. CASE data'[m] = data[m] /\ reader'[m] = reader[m]
    BY <1>0, <1>1, <2>1 DEF Served, Server!NoRequestForgotten, Server!Pending
  <2>2. QED
    BY <1>1, <1>4, <2>1
<1>11. Leaving'
  <2>1. /\ \A m \in 1 .. MaxClients : reader'[m] = "done" => reader[m] = "done"
        /\ \A m : OnTheList(m)' <=> OnTheList(m)
        /\ \A m : Server!Pending("disconnected", m)' <=> Server!Pending("disconnected", m)
    BY <1>1, <1>4 DEF OnTheList, Server!Pending, Server!Listed
  <2>2. QED
    BY <1>0, <1>1, <2>1 DEF Served, Leaving
<1>12. QED
  BY <1>5, <1>6, <1>7, <1>8, <1>9, <1>10, <1>11 DEF ServerInv, Typed

\* A reader that has bytes to tell, or an end, goes one step on.
LEMMA ReaderGoesOn ==
  ASSUME ServerInv, NEW n \in 1 .. MaxClients, NEW was \in {"recv", "ready"},
         NEW now \in {"recv", "done"}, reader[n] = was,
         reader' = [reader EXCEPT ![n] = now],
         UNCHANGED <<tls, peer, bound, listening, acceptor, held, tail, received, data, state,
                     slots, loop, current, clients, requests, refused, taken, finished,
                     announced>>
  PROVE  /\ Controls' /\ Tables' /\ Holding' /\ Fresh' /\ ListedOnce'
         /\ \A m \in 1 .. MaxClients : reader'[m] = IF m = n THEN now ELSE reader[m]
<1> USE Bounds
<1>0. Controls /\ Tables /\ Sets /\ Lists /\ Holding /\ Served
  BY DEF ServerInv, Served, Typed
<1>1. /\ reader' \in [1 .. MaxClients -> {"none", "recv", "ready", "done"}]
      /\ \A m \in 1 .. MaxClients : reader'[m] = IF m = n THEN now ELSE reader[m]
  BY <1>0 DEF Tables
<1>2. Controls' /\ Tables' /\ ListedOnce'
  <2>1. Controls'
    BY <1>0 DEF Controls
  <2>2. Tables'
    BY <1>0, <1>1 DEF Tables
  <2>3. ListedOnce'
    BY <1>0 DEF Served, ListedOnce
  <2>4. QED
    BY <2>1, <2>2, <2>3
<1>3. \A m \in 1 .. MaxClients : reader'[m] = "none" <=> reader[m] = "none"
  BY <1>1
<1>4. Fresh'
  BY <1>0, <1>3 DEF Served, Fresh, Server!Listed
<1>5. Holding'
  <2>1. acceptor \in {"handshake", "start", "connect", "push", "link", "emit"}
           => held \in 1 .. MaxClients
    BY <1>0 DEF Holding, Controls
  <2>2. QED
    BY <1>0, <1>3, <2>1 DEF Holding, Server!Listed
<1>6. QED
  BY <1>1, <1>2, <1>4, <1>5

LEMMA ServerEmitReadReadyKeeps ==
  ASSUME ServerInv, loop # "crashed", NEW n \in 1 .. MaxClients, Server!EmitReadReady(n)
  PROVE  ServerInv'
<1> USE Bounds DEF Server!accepting, Server!serving, Server!None, Server!Clients
<1>0. Controls /\ Tables /\ Sets /\ Lists /\ Holding /\ Served
  BY DEF ServerInv, Served, Typed
<1>1. /\ reader[n] = "ready" /\ reader' = [reader EXCEPT ![n] = "recv"]
      /\ UNCHANGED <<tls, peer, bound, listening, acceptor, held, tail, received, early, broken,
                     data, state, slots, loop, current, clients, requests, refused, taken,
                     finished, announced>>
  BY DEF Server!EmitReadReady
<1>2. /\ Controls' /\ Tables' /\ Holding' /\ Fresh' /\ ListedOnce'
      /\ \A m \in 1 .. MaxClients : reader'[m] = IF m = n THEN "recv" ELSE reader[m]
  BY <1>1, ReaderGoesOn
<1>3. /\ queue' \in Seq(CallsOfServer)
      /\ \A t, m : Server!Pending(t, m) => Server!Pending(t, m)'
      /\ \A t, m : Server!Pending(t, m)' /\ t # "readReady" => Server!Pending(t, m)
      /\ "readReady" \in slots[n] => Server!Pending("readReady", n)'
      /\ ReadyOnce(queue')
  <2>1. CASE "readReady" \in slots[n]
    <3>1. queue' = Append(queue, <<"readReady", n>>)
      BY <2>1 DEF Server!EmitReadReady, Server!Post
    <3>2. <<"readReady", n>> \in CallsOfServer /\ queue \in Seq(CallsOfServer)
      BY <1>0 DEF CallsOfServer, Lists
    <3>3. ReadyOnce(queue)
      BY <1>0 DEF Served, AnnouncedSoFar
    <3>4. QED
      BY <3>1, <3>2, <3>3, ServerPosts
  <2>2. CASE "readReady" \notin slots[n]
    <3>1. queue' = queue
      BY <2>2 DEF Server!EmitReadReady
    <3>2. QED
      BY <1>0, <2>2, <3>1 DEF Lists, Served, AnnouncedSoFar, Server!Pending
  <2>3. QED
    BY <2>1, <2>2
<1>4. Sets' /\ Lists'
  BY <1>0, <1>1, <1>3 DEF Sets, Lists
<1>5. AnnouncedSoFar'
  BY <1>0, <1>1, <1>3 DEF Served, AnnouncedSoFar
<1>6. Listening'
  BY <1>0, <1>1, <1>2, <1>3 DEF Served, Listening
<1>7. Server!NoRequestForgotten'
  <2> SUFFICES ASSUME NEW m \in (1 .. MaxClients) \ (refused \cup finished), data[m] > 0
               PROVE  \/ reader'[m] = "ready" \/ Server!Pending("readReady", m)'
                      \/ held = m \/ Server!Pending("newConnection", m)'
                      \/ loop = "setSocket" /\ current = m
    BY <1>1 DEF Server!NoRequestForgotten
  <2>1. CASE m # n
    BY <1>0, <1>1, <1>2, <1>3, <2>1 DEF Served, Server!NoRequestForgotten
  <2>2. CASE m = n
    BY <1>0, <1>1, <1>3, <2>2 DEF Served, Listening
  <2>3. QED
    BY <2>1, <2>2
<1>8. Leaving'
  BY <1>0, <1>1, <1>2, <1>3 DEF Served, Leaving, OnTheList, Server!Listed
<1>9. QED
  BY <1>2, <1>4, <1>5, <1>6, <1>7, <1>8 DEF ServerInv, Typed

LEMMA ServerEndOfStreamKeeps ==
  ASSUME ServerInv, loop # "crashed", NEW n \in 1 .. MaxClients, Server!EndOfStream(n)
  PROVE  ServerInv'
<1> USE Bounds DEF Server!accepting, Server!serving, Server!None, Server!Clients
<1>0. Controls /\ Tables /\ Sets /\ Lists /\ Holding /\ Served
  BY DEF ServerInv, Served, Typed
<1>1. /\ reader[n] = "recv" /\ reader' = [reader EXCEPT ![n] = "done"]
      /\ broken' \in {broken, broken \cup {n}}
      /\ early' \in {early, early \cup {n}}
      /\ \/ queue' = Append(queue, <<"disconnected", n>>)
         \/ queue' = queue /\ n \in early' \cup broken'
      /\ UNCHANGED <<tls, peer, bound, listening, acceptor, held, tail, received,
                     data, state, slots, loop, current, clients, requests, refused, taken,
                     finished, announced>>
  BY DEF Server!EndOfStream, Server!Post
<1>2. /\ Controls' /\ Tables' /\ Holding' /\ Fresh' /\ ListedOnce'
      /\ \A m \in 1 .. MaxClients : reader'[m] = IF m = n THEN "done" ELSE reader[m]
  BY <1>1, ReaderGoesOn
<1>3. /\ queue' \in Seq(CallsOfServer)
      /\ \A t, m : Server!Pending(t, m) => Server!Pending(t, m)'
      /\ \A t, m : Server!Pending(t, m)' /\ t # "disconnected" => Server!Pending(t, m)
      /\ n \notin early' \cup broken' => Server!Pending("disconnected", n)'
      /\ ReadyOnce(queue')
  <2>1. CASE queue' = Append(queue, <<"disconnected", n>>)
    <3>2. <<"disconnected", n>> \in CallsOfServer /\ queue \in Seq(CallsOfServer)
      BY <1>0 DEF CallsOfServer, Lists
    <3>3. ReadyOnce(queue)
      BY <1>0 DEF Served, AnnouncedSoFar
    <3>4. QED
      BY <2>1, <3>2, <3>3, ServerPosts
  <2>2. CASE queue' = queue /\ n \in early' \cup broken'
    BY <1>0, <2>2 DEF Lists, Served, AnnouncedSoFar, Server!Pending
  <2>3. QED
    BY <1>1, <2>1, <2>2
<1>4. Sets' /\ Lists'
  BY <1>0, <1>1, <1>3 DEF Sets, Lists
<1>5. AnnouncedSoFar'
  BY <1>0, <1>1, <1>3 DEF Served, AnnouncedSoFar
<1>6. Listening' /\ Server!NoRequestForgotten'
  BY <1>0, <1>1, <1>2, <1>3 DEF Served, Listening, Server!NoRequestForgotten
<1>7. Leaving'
  <2> SUFFICES ASSUME NEW m \in (1 .. MaxClients) \ (early' \cup broken'),
                      reader'[m] = "done", OnTheList(m)'
               PROVE  Server!Pending("disconnected", m)'
    BY <1>1 DEF Leaving
  <2>1. CASE m = n
    BY <1>3, <2>1
  <2>2. CASE m # n
    <3>1. m \notin early \cup broken /\ reader[m] = "done" /\ OnTheList(m)
      BY <1>1, <1>2, <2>2 DEF OnTheList, Server!Listed
    <3>2. QED
      BY <1>0, <1>3, <3>1 DEF Served, Leaving
  <2>3. QED
    BY <2>1, <2>2
<1>8. QED
  BY <1>2, <1>4, <1>5, <1>6, <1>7 DEF ServerInv, Typed

\* The event loop takes a call.
LEMMA LoopTakes ==
  ASSUME ServerInv, NEW s, Server!Call(s), queue' = Tail(queue), NEW n, n = Server!Sender
  PROVE  /\ loop = "idle" /\ n \in 1 .. MaxClients
         /\ queue' \in Seq(CallsOfServer)
         /\ Server!Pending(s, n)
         /\ \A t, m : Server!Pending(t, m)' => Server!Pending(t, m)
         /\ \A t, m : Server!Pending(t, m) /\ ~(t = s /\ m = n) => Server!Pending(t, m)'
         /\ ReadyOnce(queue')
<1>1. /\ queue \in Seq(CallsOfServer) /\ queue # <<>> /\ s = Head(queue)[1]
      /\ n = Head(queue)[2] /\ loop = "idle" /\ ReadyOnce(queue)
  BY DEF ServerInv, Typed, Lists, AnnouncedSoFar, Server!Call, Server!Sender
<1>2. QED
  BY <1>1, ServerTakes

LEMMA RequestFinishedKeeps ==
  ASSUME ServerInv, loop # "crashed", Server!RequestFinished PROVE ServerInv'
<1> USE Bounds DEF Server!accepting, Server!sockets
<1>0. Controls /\ Tables /\ Sets /\ Lists /\ Holding /\ Served
  BY DEF ServerInv, Served, Typed
<1>1. /\ Server!Call("requestFinished") /\ queue' = Tail(queue)
      /\ requests' = requests \ {Server!Sender}
      /\ UNCHANGED <<tls, peer, bound, listening, acceptor, held, tail, received, early, broken,
                     reader, data, state, slots, loop, current, clients, refused, taken,
                     finished, announced>>
  BY DEF Server!RequestFinished
<1>2. /\ loop = "idle" /\ queue' \in Seq(CallsOfServer)
      /\ \A t, m : Server!Pending(t, m)' => Server!Pending(t, m)
      /\ \A t, m : Server!Pending(t, m) /\ t # "requestFinished" => Server!Pending(t, m)'
      /\ ReadyOnce(queue')
  BY <1>1, LoopTakes
<1>3. Controls' /\ Tables' /\ Sets' /\ Lists'
  BY <1>0, <1>1, <1>2 DEF Controls, Tables, Sets, Lists
<1>4. Holding' /\ Fresh' /\ ListedOnce'
  BY <1>0, <1>1 DEF Holding, Served, Fresh, ListedOnce, Server!Listed
<1>5. Listening' /\ Server!NoRequestForgotten'
  BY <1>0, <1>1, <1>2 DEF Served, Listening, Server!NoRequestForgotten
<1>6. AnnouncedSoFar'
  BY <1>0, <1>1, <1>2 DEF Served, AnnouncedSoFar
<1>7. Leaving'
  BY <1>0, <1>1, <1>2 DEF Served, Leaving, OnTheList, Server!Listed
<1>8. QED
  BY <1>3, <1>4, <1>5, <1>6, <1>7 DEF ServerInv, Typed

LEMMA SendReplyKeeps ==
  ASSUME ServerInv, loop # "crashed", Server!SendReply PROVE ServerInv'
<1> USE Bounds DEF Server!accepting, Server!sockets, Server!serving
<1>0. Controls /\ Tables /\ Sets /\ Lists /\ Holding /\ Served
  BY DEF ServerInv, Served, Typed
<1> DEFINE n == Server!Sender
<1>1. /\ Server!Call("newRequest") /\ queue' = Tail(queue)
      /\ state' = state \ {n} /\ loop' \in {"close", "sent"} /\ current' = n
      /\ UNCHANGED <<tls, peer, bound, listening, acceptor, held, tail, received, early, broken,
                     reader, data, slots, clients, requests, refused, taken,
                     finished, announced>>
  BY DEF Server!SendReply
<1>2. /\ loop = "idle" /\ n \in 1 .. MaxClients /\ queue' \in Seq(CallsOfServer)
      /\ Server!Pending("newRequest", n)
      /\ \A t, m : Server!Pending(t, m)' => Server!Pending(t, m)
      /\ \A t, m : Server!Pending(t, m) /\ t # "newRequest" => Server!Pending(t, m)'
      /\ ReadyOnce(queue')
  BY <1>1, LoopTakes
<1> HIDE DEF n
<1>3. n \in finished
  BY <1>0, <1>2 DEF Served, AnnouncedSoFar
<1>4. Controls' /\ Tables' /\ Sets' /\ Lists'
  <2>1. Tables' /\ Sets' /\ Lists'
    BY <1>0, <1>1, <1>2 DEF Tables, Sets, Lists
  <2>2. current' \in 0 .. MaxClients
    BY <1>1, <1>2
  <2>3. Controls'
    BY <1>0, <1>1, <2>2 DEF Controls
  <2>4. QED
    BY <2>1, <2>3
<1>5. Holding' /\ Fresh' /\ ListedOnce'
  BY <1>0, <1>1, <1>2, <1>3 DEF Holding, Served, Fresh, ListedOnce, Server!Listed
<1>6. Listening' /\ Server!NoRequestForgotten'
  BY <1>0, <1>1, <1>2 DEF Served, Listening, Server!NoRequestForgotten
<1>7. AnnouncedSoFar'
  BY <1>0, <1>1, <1>2 DEF Served, AnnouncedSoFar
<1>8. Leaving'
  BY <1>0, <1>1, <1>2 DEF Served, Leaving, OnTheList, Server!Listed
<1>9. QED
  BY <1>4, <1>5, <1>6, <1>7, <1>8 DEF ServerInv, Typed

LEMMA ReplySentKeeps ==
  ASSUME ServerInv, loop # "crashed", Server!ReplySent PROVE ServerInv'
<1> USE Bounds DEF Server!accepting, Server!sockets, Server!serving, Server!None
<1>0. Controls /\ Tables /\ Sets /\ Lists /\ Holding /\ Served
  BY DEF ServerInv, Served, Typed
<1>1. /\ loop = "sent" /\ loop' = "idle" /\ current' = 0
      /\ slots' = [slots EXCEPT ![current] = slots[current] \ {"readReady"}]
      /\ queue' = Append(queue, <<"requestFinished", current>>)
      /\ UNCHANGED <<tls, peer, bound, listening, acceptor, held, tail, received, early, broken,
                     reader, data, state, clients, requests, refused, taken,
                     finished, announced>>
  BY DEF Server!ReplySent, Server!Post
<1>2. current \in 1 .. MaxClients /\ current \in finished
  BY <1>0, <1>1 DEF Holding
<1>3. /\ queue' \in Seq(CallsOfServer)
      /\ \A t, m : Server!Pending(t, m) => Server!Pending(t, m)'
      /\ \A t, m : Server!Pending(t, m)' /\ t # "requestFinished" => Server!Pending(t, m)
      /\ ReadyOnce(queue')
  <2>1. <<"requestFinished", current>> \in CallsOfServer /\ queue \in Seq(CallsOfServer)
    BY <1>0, <1>2 DEF CallsOfServer, Lists
  <2>2. ReadyOnce(queue)
    BY <1>0 DEF Served, AnnouncedSoFar
  <2>3. QED
    BY <1>1, <2>1, <2>2, ServerPosts
<1>4. /\ slots' \in [1 .. MaxClients -> SUBSET {"disconnected", "readReady"}]
      /\ \A m \in 1 .. MaxClients : m # current => slots'[m] = slots[m]
  BY <1>0, <1>1, <1>2 DEF Tables
<1>5. Controls' /\ Tables' /\ Sets' /\ Lists'
  <2>1. Tables' /\ Sets' /\ Lists'
    BY <1>0, <1>1, <1>3, <1>4 DEF Tables, Sets, Lists
  <2>2. current' \in 0 .. MaxClients
    BY <1>1
  <2>3. Controls'
    BY <1>0, <1>1, <2>2 DEF Controls
  <2>4. QED
    BY <2>1, <2>3
<1>6. Holding' /\ Fresh' /\ ListedOnce'
  BY <1>0, <1>1 DEF Holding, Served, Fresh, ListedOnce, Server!Listed
<1>7. Listening'
  BY <1>0, <1>1, <1>2, <1>3, <1>4 DEF Served, Listening
<1>8. Server!NoRequestForgotten'
  BY <1>0, <1>1, <1>3 DEF Served, Server!NoRequestForgotten
<1>9. AnnouncedSoFar'
  BY <1>0, <1>1, <1>3 DEF Served, AnnouncedSoFar
<1>10. Leaving'
  BY <1>0, <1>1, <1>3 DEF Served, Leaving, OnTheList, Server!Listed
<1>11. QED
  BY <1>5, <1>6, <1>7, <1>8, <1>9, <1>10 DEF ServerInv, Typed

\* A request is announced: its requestReady is the only one.
LEMMA RequestReadyKeeps ==
  ASSUME ServerInv, loop # "crashed", Server!RequestReady PROVE ServerInv'
<1> USE Bounds DEF Server!accepting, Server!sockets
<1>0. Controls /\ Tables /\ Sets /\ Lists /\ Holding /\ Served
  BY DEF ServerInv, Served, Typed
<1>n. PICK n : n = Server!Sender
  OBVIOUS
<1> DEFINE rest == Tail(queue)
<1>1. /\ Server!Call("requestReady") /\ queue' = Append(rest, <<"newRequest", n>>)
      /\ announced' = [announced EXCEPT ![n] = announced[n] + 1]
      /\ UNCHANGED <<tls, peer, bound, listening, acceptor, held, tail, received, early, broken,
                     reader, data, state, slots, loop, current, clients, requests, refused,
                     taken, finished>>
  BY <1>n DEF Server!RequestReady
<1>2. /\ loop = "idle" /\ n \in 1 .. MaxClients /\ rest \in Seq(CallsOfServer)
      /\ InQueue(<<"requestReady", n>>, queue)
      /\ \A c : InQueue(c, rest) => InQueue(c, queue)
      /\ \A c : InQueue(c, queue) /\ c # <<"requestReady", n>> => InQueue(c, rest)
      /\ ReadyOnce(rest) /\ ~InQueue(<<"requestReady", n>>, rest)
  <2>1. /\ queue \in Seq(CallsOfServer) /\ queue # <<>> /\ loop = "idle" /\ ReadyOnce(queue)
        /\ Head(queue)[1] = "requestReady" /\ Head(queue)[2] = n
    BY <1>0, <1>1, <1>n DEF Served, Lists, AnnouncedSoFar, Server!Call, Server!Sender
  <2> HIDE DEF rest
  <2> DEFINE call == Head(queue)
  <2>2. /\ rest \in Seq(CallsOfServer) /\ call \in CallsOfServer /\ InQueue(call, queue)
        /\ \A c : InQueue(c, rest) => InQueue(c, queue)
        /\ \A c : InQueue(c, queue) /\ c # call => InQueue(c, rest)
        /\ ReadyOnce(rest) /\ ~InQueue(call, rest)
    BY <2>1, TakenFrom DEF rest
  <2>3. call[1] = "requestReady" /\ call[2] = n
    BY <2>1
  <2> HIDE DEF call
  <2>4. call = <<"requestReady", n>> /\ n \in 1 .. MaxClients
    BY <2>2, <2>3 DEF CallsOfServer
  <2>5. QED
    BY <2>1, <2>2, <2>4
<1> HIDE DEF rest
<1>3. /\ queue' \in Seq(CallsOfServer) /\ ReadyOnce(queue')
      /\ \A c : InQueue(c, queue') <=> InQueue(c, rest) \/ c = <<"newRequest", n>>
  <2> DEFINE call == <<"newRequest", n>>
  <2>1. call \in CallsOfServer /\ call[1] # "requestReady" /\ queue' = Append(rest, call)
    BY <1>1, <1>2 DEF CallsOfServer
  <2> HIDE DEF call
  <2>2. /\ queue' \in Seq(CallsOfServer) /\ ReadyOnce(queue')
        /\ \A c : InQueue(c, queue') <=> InQueue(c, rest) \/ c = call
    BY <1>2, <2>1, PostedTo
  <2>3. QED
    BY <2>2 DEF call
<1>4. /\ \A t, m : Server!Pending(t, m) <=> InQueue(<<t, m>>, queue)
      /\ \A t, m : Server!Pending(t, m)' <=> InQueue(<<t, m>>, queue')
      /\ \A s, t, m : <<t, m>> = <<s, n>> <=> t = s /\ m = n
  BY DEF Server!Pending, InQueue
<1>5. /\ Server!Pending("requestReady", n) /\ ~Server!Pending("requestReady", n)'
      /\ \A t, m : Server!Pending(t, m)' => Server!Pending(t, m) \/ (t = "newRequest" /\ m = n)
      /\ \A t, m : Server!Pending(t, m) /\ t # "requestReady" => Server!Pending(t, m)'
  <2>1. Server!Pending("requestReady", n)
    BY <1>2, <1>4
  <2>2. ~Server!Pending("requestReady", n)'
    <3>1. <<"requestReady", n>> # <<"newRequest", n>>
      OBVIOUS
    <3>2. ~InQueue(<<"requestReady", n>>, queue')
      BY <1>2, <1>3, <3>1
    <3>3. QED
      BY <1>4, <3>2
  <2>3. ASSUME NEW t, NEW m, Server!Pending(t, m)'
        PROVE  Server!Pending(t, m) \/ (t = "newRequest" /\ m = n)
    <3>1. InQueue(<<t, m>>, rest) \/ <<t, m>> = <<"newRequest", n>>
      BY <1>3, <1>4, <2>3
    <3>2. QED
      BY <1>2, <1>4, <3>1
  <2>4. ASSUME NEW t, NEW m, Server!Pending(t, m), t # "requestReady"
        PROVE  Server!Pending(t, m)'
    <3>1. InQueue(<<t, m>>, queue) /\ <<t, m>> # <<"requestReady", n>>
      BY <1>4, <2>4
    <3>2. InQueue(<<t, m>>, queue')
      BY <1>2, <1>3, <3>1
    <3>3. QED
      BY <1>4, <3>2
  <2>5. QED
    BY <2>1, <2>2, <2>3, <2>4
<1>6. n \in finished /\ announced[n] = 0
  <2>1. announced[n] \in Nat
    BY <1>0, <1>2 DEF Tables
  <2>2. n \in finished /\ announced[n] <= 1 /\ announced[n] # 1
    BY <1>0, <1>2, <1>5 DEF Served, AnnouncedSoFar
  <2>3. QED
    BY <2>1, <2>2
<1>7. /\ announced' \in [1 .. MaxClients -> Nat] /\ announced'[n] = 1
      /\ \A m \in 1 .. MaxClients : m # n => announced'[m] = announced[m]
  BY <1>0, <1>1, <1>2, <1>6 DEF Tables
<1>8. Controls' /\ Tables' /\ Sets' /\ Lists'
  BY <1>0, <1>1, <1>3, <1>7 DEF Controls, Tables, Sets, Lists
<1>9. Holding' /\ Fresh' /\ ListedOnce'
  BY <1>0, <1>1 DEF Holding, Served, Fresh, ListedOnce, Server!Listed
<1>10. Listening' /\ Server!NoRequestForgotten'
  BY <1>0, <1>1, <1>5 DEF Served, Listening, Server!NoRequestForgotten
<1>11. AnnouncedSoFar'
  <2>1. ASSUME NEW m \in 1 .. MaxClients
        PROVE  /\ announced'[m] <= 1
               /\ m \notin finished' => /\ announced'[m] = 0
                                        /\ ~Server!Pending("requestReady", m)'
                                        /\ ~Server!Pending("newRequest", m)'
               /\ announced'[m] = 1 => ~Server!Pending("requestReady", m)'
    <3>1. CASE m = n
      BY <1>1, <1>5, <1>6, <1>7, <3>1
    <3>2. CASE m # n
      BY <1>0, <1>1, <1>5, <1>7, <3>2 DEF Served, AnnouncedSoFar
    <3>3. QED
      BY <3>1, <3>2
  <2>2. QED
    BY <1>3, <2>1 DEF AnnouncedSoFar
<1>12. Leaving'
  BY <1>0, <1>1, <1>5 DEF Served, Leaving, OnTheList, Server!Listed
<1>13. QED
  BY <1>8, <1>9, <1>10, <1>11, <1>12 DEF ServerInv, Typed

LEMMA NewConnectionKeeps ==
  ASSUME ServerInv, loop # "crashed", Server!NewConnection PROVE ServerInv'
<1> USE Bounds DEF Server!accepting, Server!sockets
<1>0. Controls /\ Tables /\ Sets /\ Lists /\ Holding /\ Served
  BY DEF ServerInv, Served, Typed
<1>n. PICK n : n = Server!Sender
  OBVIOUS
<1>1. /\ Server!Call("newConnection") /\ queue' = Tail(queue)
      /\ requests' = requests \cup {n}
      /\ slots' = [slots EXCEPT ![n] = slots[n] \cup {"readReady"}]
      /\ loop' = "setSocket" /\ current' = n
      /\ UNCHANGED <<tls, peer, bound, listening, acceptor, held, tail, received, early, broken,
                     reader, data, state, clients, refused, taken, finished, announced>>
  BY <1>n DEF Server!NewConnection
<1>2. /\ loop = "idle" /\ n \in 1 .. MaxClients /\ queue' \in Seq(CallsOfServer)
      /\ \A t, m : Server!Pending(t, m)' => Server!Pending(t, m)
      /\ \A t, m : Server!Pending(t, m) /\ ~(t = "newConnection" /\ m = n)
                      => Server!Pending(t, m)'
      /\ ReadyOnce(queue')
  BY <1>1, <1>n, LoopTakes
<1>3. /\ slots' \in [1 .. MaxClients -> SUBSET {"disconnected", "readReady"}]
      /\ "readReady" \in slots'[n]
      /\ \A m \in 1 .. MaxClients : m # n => slots'[m] = slots[m]
  <2>1. slots \in [1 .. MaxClients -> SUBSET {"disconnected", "readReady"}]
    BY <1>0 DEF Tables
  <2>2. slots[n] \cup {"readReady"} \in SUBSET {"disconnected", "readReady"}
    BY <1>2, <2>1
  <2>3. QED
    BY <1>1, <1>2, <2>1, <2>2
<1>4. Controls' /\ Tables' /\ Sets' /\ Lists'
  <2>1. Tables' /\ Lists'
    BY <1>0, <1>1, <1>2, <1>3 DEF Tables, Lists
  <2>2. current' \in 0 .. MaxClients
    BY <1>1, <1>2
  <2>3. Controls'
    BY <1>0, <1>1, <2>2 DEF Controls
  <2>4. Sets'
    BY <1>0, <1>1, <1>2 DEF Sets
  <2>5. QED
    BY <2>1, <2>3, <2>4
<1>5. Holding' /\ Fresh' /\ ListedOnce'
  BY <1>0, <1>1, <1>2 DEF Holding, Served, Fresh, ListedOnce, Server!Listed
<1>6. Listening'
  BY <1>0, <1>1, <1>2, <1>3 DEF Served, Listening
<1>7. Server!NoRequestForgotten'
  <2>1. ASSUME NEW m \in (1 .. MaxClients) \ (refused \cup finished), data[m] > 0, m # n
        PROVE  \/ reader[m] = "ready" \/ Server!Pending("readReady", m)'
               \/ held = m \/ Server!Pending("newConnection", m)'
    BY <1>0, <1>2, <2>1 DEF Served, Server!NoRequestForgotten, Server!Clients
  <2>2. QED
    BY <1>1, <2>1 DEF Server!NoRequestForgotten, Server!Clients
<1>8. AnnouncedSoFar'
  BY <1>0, <1>1, <1>2 DEF Served, AnnouncedSoFar
<1>9. Leaving'
  BY <1>0, <1>1, <1>2 DEF Served, Leaving, OnTheList, Server!Listed
<1>10. QED
  BY <1>4, <1>5, <1>6, <1>7, <1>8, <1>9 DEF ServerInv, Typed

\* The list without its element i.
LEMMA Removed ==
  ASSUME NEW S, NEW q \in Seq(S), NEW i \in 1 .. Len(q), NEW r, r = Server!RemoveAt(q, i)
  PROVE  /\ r \in Seq(S) /\ Len(r) = Len(q) - 1
         /\ \A k \in 1 .. i - 1 : r[k] = q[k]
         /\ \A k \in i .. Len(q) - 1 : r[k] = q[k + 1]
<1>1. /\ Len(q) \in Nat /\ i \in Nat /\ i >= 1 /\ i <= Len(q)
      /\ i - 1 \in Int /\ i + 1 \in Int /\ 1 \in Int /\ Len(q) \in Int
  BY LenProperties
<1>2. /\ \A k \in 1 .. i - 1 : k \in 1 .. Len(q) /\ q[k] \in S
      /\ \A k \in i + 1 .. Len(q) : k \in 1 .. Len(q) /\ q[k] \in S
  BY <1>1, ElementOfSeq
<1> DEFINE front == SubSeq(q, 1, i - 1)
           back == SubSeq(q, i + 1, Len(q))
<1>3. front \in Seq(S) /\ Len(front) = i - 1 /\ \A k \in 1 .. i - 1 : front[k] = q[k]
  <2>1. front \in Seq(S) /\ \A k \in 1 .. i - 1 - 1 + 1 : front[k] = q[1 + k - 1]
    BY <1>1, <1>2, SubSeqProperties
  <2>2. Len(front) = IF 1 <= i - 1 THEN i - 1 - 1 + 1 ELSE 0
    BY <1>1, <1>2, SubSeqProperties
  <2> HIDE DEF front
  <2>3. Len(front) = i - 1
    BY <1>1, <2>2
  <2>4. \A k \in 1 .. i - 1 : k \in 1 .. i - 1 - 1 + 1 /\ 1 + k - 1 = k
    BY <1>1
  <2>5. QED
    BY <2>1, <2>3, <2>4
<1>4. /\ back \in Seq(S) /\ Len(back) = Len(q) - i
      /\ \A k \in 1 .. Len(q) - i : back[k] = q[i + k]
  <2>1. /\ back \in Seq(S)
        /\ \A k \in 1 .. Len(q) - (i + 1) + 1 : back[k] = q[i + 1 + k - 1]
    BY <1>1, <1>2, SubSeqProperties
  <2>2. Len(back) = IF i + 1 <= Len(q) THEN Len(q) - (i + 1) + 1 ELSE 0
    BY <1>1, <1>2, SubSeqProperties
  <2> HIDE DEF back
  <2>3. Len(back) = Len(q) - i
    BY <1>1, <2>2
  <2>4. \A k \in 1 .. Len(q) - i : /\ k \in 1 .. Len(q) - (i + 1) + 1
                                   /\ i + 1 + k - 1 = i + k
    BY <1>1
  <2>5. QED
    BY <2>1, <2>3, <2>4
<1>5. r = front \o back
  BY DEF Server!RemoveAt
<1> HIDE DEF front, back
<1>6. /\ r \in Seq(S) /\ Len(r) = Len(front) + Len(back)
      /\ \A k \in 1 .. Len(front) : r[k] = front[k]
      /\ \A k \in 1 .. Len(back) : r[Len(front) + k] = back[k]
  <2>1. front \in Seq(S) /\ back \in Seq(S)
    BY <1>3, <1>4
  <2> DEFINE both == front \o back
  <2>2. /\ both \in Seq(S) /\ Len(both) = Len(front) + Len(back)
        /\ \A k \in 1 .. Len(front) : both[k] = front[k]
        /\ \A k \in 1 .. Len(back) : both[Len(front) + k] = back[k]
    BY <2>1, Joined
  <2>3. r = both
    BY <1>5
  <2> HIDE DEF both
  <2>4. QED
    BY <2>2, <2>3
<1>7. Len(r) = Len(q) - 1
  BY <1>1, <1>3, <1>4, <1>6
<1>8. \A k \in 1 .. i - 1 : r[k] = q[k]
  BY <1>3, <1>6
<1>9. ASSUME NEW k \in i .. Len(q) - 1 PROVE r[k] = q[k + 1]
  <2>1. /\ k - (i - 1) \in 1 .. Len(q) - i /\ (i - 1) + (k - (i - 1)) = k
        /\ i + (k - (i - 1)) = k + 1
    BY <1>1
  <2>2. PICK m \in 1 .. Len(q) - i : (i - 1) + m = k /\ i + m = k + 1
    BY <2>1
  <2>3. r[(i - 1) + m] = back[m] /\ back[m] = q[i + m]
    BY <1>3, <1>4, <1>6
  <2>4. QED
    BY <2>2, <2>3
<1>10. QED
  BY <1>6, <1>7, <1>8, <1>9

LEMMA DisconnectedKeeps ==
  ASSUME ServerInv, loop # "crashed", Server!Disconnected PROVE ServerInv'
<1> USE Bounds DEF Server!accepting, Server!sockets, Server!serving
<1>0. Controls /\ Tables /\ Sets /\ Lists /\ Holding /\ Served
  BY DEF ServerInv, Served, Typed
<1>n. PICK n : n = Server!Sender
  OBVIOUS
<1>1. /\ Server!Call("disconnected") /\ queue' = Tail(queue)
      /\ \/ \E i \in 1 .. Len(clients) : /\ clients[i] = n
                                         /\ clients' = Server!RemoveAt(clients, i)
                                         /\ loop' = loop
         \/ ~Server!Listed(n) /\ clients' = clients /\ loop' = "crashed"
      /\ UNCHANGED <<tls, peer, bound, listening, acceptor, held, tail, received, early, broken,
                     reader, data, state, slots, current, requests, refused, taken, finished,
                     announced>>
  BY <1>n DEF Server!Disconnected
<1>2. /\ loop = "idle" /\ n \in 1 .. MaxClients /\ queue' \in Seq(CallsOfServer)
      /\ \A t, m : Server!Pending(t, m)' => Server!Pending(t, m)
      /\ \A t, m : Server!Pending(t, m) /\ ~(t = "disconnected" /\ m = n)
                      => Server!Pending(t, m)'
      /\ ReadyOnce(queue')
  BY <1>1, <1>n, LoopTakes
<1>3. /\ clients' \in Seq(1 .. MaxClients)
      /\ \A m : Server!Listed(m)' => Server!Listed(m)
      /\ ListedOnce'
      /\ loop' # "crashed" => Server!Listed(n) /\ ~Server!Listed(n)'
      /\ loop' \in {"idle", "crashed"}
  <2>1. CASE ~Server!Listed(n) /\ clients' = clients /\ loop' = "crashed"
    BY <1>0, <2>1 DEF Lists, Served, ListedOnce, Server!Listed
  <2>2. ASSUME NEW i \in 1 .. Len(clients), clients[i] = n, loop' = loop,
               clients' = Server!RemoveAt(clients, i)
        PROVE  /\ clients' \in Seq(1 .. MaxClients)
               /\ \A m : Server!Listed(m)' => Server!Listed(m)
               /\ ListedOnce'
               /\ Server!Listed(n) /\ ~Server!Listed(n)'
    <3>1. clients \in Seq(1 .. MaxClients) /\ Len(clients) \in Nat /\ ListedOnce
      BY <1>0, LenProperties DEF Lists, Served
    <3>2. /\ clients' \in Seq(1 .. MaxClients) /\ Len(clients') = Len(clients) - 1
          /\ \A k \in 1 .. i - 1 : clients'[k] = clients[k]
          /\ \A k \in i .. Len(clients) - 1 : clients'[k] = clients[k + 1]
      <4> DEFINE S == 1 .. MaxClients
      <4>1. clients \in Seq(S)
        BY <3>1
      <4> HIDE DEF S
      <4>2. PICK r : r = Server!RemoveAt(clients, i)
        OBVIOUS
      <4>3. /\ r \in Seq(S) /\ Len(r) = Len(clients) - 1
            /\ \A k \in 1 .. i - 1 : r[k] = clients[k]
            /\ \A k \in i .. Len(clients) - 1 : r[k] = clients[k + 1]
        BY <4>1, <4>2, Removed
      <4>4. clients' = r
        BY <2>2, <4>2
      <4>5. QED
        BY <4>3, <4>4 DEF S
    <3> DEFINE at(k) == IF k < i THEN k ELSE k + 1
    <3>3. ASSUME NEW k \in 1 .. Len(clients')
          PROVE  /\ at(k) \in 1 .. Len(clients) /\ at(k) # i
                 /\ clients'[k] = clients[at(k)]
      <4> DEFINE many == Len(clients)
      <4>1. /\ many \in Nat /\ i \in 1 .. many /\ k \in 1 .. many - 1
            /\ k \in 1 .. i - 1 => clients'[k] = clients[k]
            /\ k \in i .. many - 1 => clients'[k] = clients[k + 1]
        BY <3>1, <3>2
      <4> HIDE DEF many
      <4>2. k \in 1 .. i - 1 \/ k \in i .. many - 1
        BY <4>1
      <4>3. CASE k \in 1 .. i - 1
        <5>1. at(k) = k /\ k \in 1 .. many /\ k # i
          BY <4>1, <4>3
        <5>2. QED
          BY <4>1, <4>3, <5>1 DEF many
      <4>4. CASE k \in i .. many - 1
        <5>1. at(k) = k + 1 /\ k + 1 \in 1 .. many /\ k + 1 # i
          BY <4>1, <4>4
        <5>2. QED
          BY <4>1, <4>4, <5>1 DEF many
      <4>5. QED
        BY <4>2, <4>3, <4>4
    <3>4. \A k, m \in 1 .. Len(clients') : at(k) = at(m) => k = m
      <4>1. \A k, m \in Int : at(k) = at(m) => k = m
        OBVIOUS
      <4>2. QED
        BY <4>1
    <3> HIDE DEF at
    <3>5. \A m : Server!Listed(m)' => Server!Listed(m)
      BY <3>3 DEF Server!Listed
    <3>6. ListedOnce'
      BY <3>1, <3>3, <3>4 DEF ListedOnce
    <3>7. Server!Listed(n)
      BY <2>2 DEF Server!Listed
    <3>8. ~Server!Listed(n)'
      BY <2>2, <3>1, <3>3 DEF Server!Listed, ListedOnce
    <3>9. QED
      BY <3>2, <3>5, <3>6, <3>7, <3>8
  <2>3. QED
    BY <1>1, <1>2, <2>1, <2>2
<1>4. Controls' /\ Tables' /\ Sets' /\ Lists'
  BY <1>0, <1>1, <1>2, <1>3 DEF Controls, Tables, Sets, Lists
<1>5. Holding' /\ Fresh'
  BY <1>0, <1>1, <1>2, <1>3 DEF Holding, Served, Fresh
<1>6. Listening' /\ Server!NoRequestForgotten'
  BY <1>0, <1>1, <1>2 DEF Served, Listening, Server!NoRequestForgotten
<1>7. AnnouncedSoFar'
  BY <1>0, <1>1, <1>2 DEF Served, AnnouncedSoFar
<1>8. Leaving'
  <2> SUFFICES ASSUME loop' # "crashed", NEW m \in (1 .. MaxClients) \ (early \cup broken),
                      reader[m] = "done", OnTheList(m)'
               PROVE  Server!Pending("disconnected", m)'
    BY <1>1 DEF Leaving
  <2>1. m # n
    BY <1>0, <1>1, <1>3 DEF OnTheList, Holding
  <2>2. OnTheList(m)
    BY <1>1, <1>3 DEF OnTheList
  <2>3. QED
    BY <1>0, <1>2, <2>1, <2>2 DEF Served, Leaving
<1>9. QED
  BY <1>3, <1>4, <1>5, <1>6, <1>7, <1>8 DEF ServerInv, Served, Typed

\* readReady() of client n, whichever of the two slots calls it; rest is the
\* queue without the call that is at work.
Parses(n, rest) ==
    /\ Server!Parse(n, rest)
    /\ n \in 1 .. MaxClients
    /\ rest \in Seq(CallsOfServer) /\ ReadyOnce(rest)
    /\ \A t, m : InQueue(<<t, m>>, rest) => Server!Pending(t, m)
    /\ \A t, m : Server!Pending(t, m) /\ ~(t = "readReady" /\ m = n) => InQueue(<<t, m>>, rest)
    /\ loop = "idle" \/ (loop = "setSocket" /\ current = n)
    /\ UNCHANGED <<tls, peer, bound, listening, acceptor, held, tail, received, early, broken,
                   reader, slots, clients, requests, announced>>

\* The cases of Parse in which no request becomes complete.
LEMMA ParseLeavesQueue ==
  ASSUME ServerInv, loop # "crashed", NEW n, NEW rest, Parses(n, rest), queue' = rest,
         finished' = finished, refused' \in {refused, refused \cup {n}},
         state' \in {state, state \ {n}},
         loop' = "idle" \/ (loop' = "refuse" /\ current' = n),
         current' \in {0, n},
         taken' \in [1 .. MaxClients -> 0 .. MaxPieces],
         data' \in [1 .. MaxClients -> 0 .. MaxPieces],
         \A m \in 1 .. MaxClients : m # n => taken'[m] = taken[m] /\ data'[m] = data[m],
         taken'[n] + data'[n] <= received[n],
         reader[n] = "none" => data'[n] = 0,
         data'[n] = 0 \/ n \in refused' \cup finished'
  PROVE  ServerInv'
<1> USE Bounds
<1>0. Controls /\ Tables /\ Sets /\ Lists /\ Holding /\ Served
  BY DEF ServerInv, Served, Typed
<1>1. /\ n \in 1 .. MaxClients /\ queue' \in Seq(CallsOfServer) /\ ReadyOnce(queue')
      /\ loop = "idle" \/ (loop = "setSocket" /\ current = n)
      /\ UNCHANGED <<tls, peer, bound, listening, acceptor, held, tail, received, early, broken,
                     reader, slots, clients, requests, announced>>
  BY DEF Parses
<1>2. /\ \A t, m : Server!Pending(t, m)' => Server!Pending(t, m)
      /\ \A t, m : Server!Pending(t, m) /\ ~(t = "readReady" /\ m = n) => Server!Pending(t, m)'
  <2>1. \A t, m : Server!Pending(t, m)' <=> InQueue(<<t, m>>, queue')
    BY DEF Server!Pending, InQueue
  <2>2. QED
    BY <2>1 DEF Parses
<1>3. Controls' /\ Tables' /\ Sets' /\ Lists'
  <2>1. Tables' /\ Lists'
    BY <1>0, <1>1 DEF Tables, Lists
  <2>2. Sets'
    BY <1>0, <1>1 DEF Sets
  <2>3. current' \in 0 .. MaxClients
    BY <1>1
  <2>4. Controls'
    BY <1>0, <1>1, <2>3 DEF Controls
  <2>5. QED
    BY <2>1, <2>2, <2>4
<1>4. Fresh'
  <2>1. ASSUME NEW m \in 1 .. MaxClients
        PROVE  /\ reader'[m] = "none" => data'[m] = 0 /\ ~Server!Listed(m)'
               /\ taken'[m] + data'[m] <= received'[m]
    <3>1. Server!Listed(m)' <=> Server!Listed(m)
      BY <1>1 DEF Server!Listed
    <3>2. CASE m = n
      BY <1>0, <1>1, <3>1, <3>2 DEF Served, Fresh
    <3>3. CASE m # n
      BY <1>0, <1>1, <3>1, <3>3 DEF Served, Fresh
    <3>4. QED
      BY <3>2, <3>3
  <2>2. QED
    BY <2>1 DEF Fresh
<1>5. Holding' /\ ListedOnce'
  BY <1>0, <1>1 DEF Holding, Served, ListedOnce, Server!Listed
<1>6. Listening'
  BY <1>0, <1>1, <1>2 DEF Served, Listening
<1>7. Server!NoRequestForgotten'
  <2>1. ASSUME NEW m \in (1 .. MaxClients) \ (refused' \cup finished'), data'[m] > 0
        PROVE  \/ reader'[m] = "ready" \/ Server!Pending("readReady", m)'
               \/ held' = m \/ Server!Pending("newConnection", m)'
    <3>1. m # n
      BY <2>1
    <3>2. data[m] > 0 /\ m \notin refused \cup finished
      BY <2>1, <3>1
    <3>3. QED
      BY <1>0, <1>1, <1>2, <3>1, <3>2 DEF Served, Server!NoRequestForgotten, Server!Clients
  <2>2. QED
    BY <2>1 DEF Server!NoRequestForgotten, Server!Clients
<1>8. AnnouncedSoFar'
  BY <1>0, <1>1, <1>2 DEF Served, AnnouncedSoFar
<1>9. Leaving'
  BY <1>0, <1>1, <1>2 DEF Served, Leaving, OnTheList, Server!Listed
<1>10. QED
  BY <1>3, <1>4, <1>5, <1>6, <1>7, <1>8, <1>9 DEF ServerInv, Typed

\* A requestReady behind the calls of rest.
LEMMA ReadyPosted ==
  ASSUME NEW rest \in Seq(CallsOfServer), NEW n \in 1 .. MaxClients, ReadyOnce(rest),
         ~InQueue(<<"requestReady", n>>, rest), queue' = Append(rest, <<"requestReady", n>>)
  PROVE  /\ queue' \in Seq(CallsOfServer) /\ ReadyOnce(queue')
         /\ \A t, m : Server!Pending(t, m)' <=> \/ InQueue(<<t, m>>, rest)
                                                \/ t = "requestReady" /\ m = n
<1> DEFINE call == <<"requestReady", n>>
<1>1. call \in CallsOfServer /\ queue' = Append(rest, call) /\ ~InQueue(call, rest)
  BY DEF CallsOfServer
<1>2. \A t, m : <<t, m>> = call <=> t = "requestReady" /\ m = n
  OBVIOUS
<1>3. \A t, m : Server!Pending(t, m)' <=> InQueue(<<t, m>>, queue')
  BY DEF Server!Pending, InQueue
<1> HIDE DEF call
<1>4. /\ queue' \in Seq(CallsOfServer) /\ ReadyOnce(queue')
      /\ \A c : InQueue(c, queue') <=> InQueue(c, rest) \/ c = call
  BY <1>1, PostedTo
<1>5. QED
  BY <1>2, <1>3, <1>4

\* The case in which one does: it is ready.
LEMMA ParseCompletes ==
  ASSUME ServerInv, loop # "crashed", NEW n, NEW rest, Parses(n, rest),
         queue' = Append(rest, <<"requestReady", n>>),
         n \notin finished, finished' = finished \cup {n}, refused' = refused, state' = state,
         loop' = "idle", current' = 0,
         taken' \in [1 .. MaxClients -> 0 .. MaxPieces],
         data' \in [1 .. MaxClients -> 0 .. MaxPieces],
         \A m \in 1 .. MaxClients : m # n => taken'[m] = taken[m] /\ data'[m] = data[m],
         taken'[n] + data'[n] <= received[n],
         data'[n] = 0
  PROVE  ServerInv'
<1> USE Bounds
<1>0. Controls /\ Tables /\ Sets /\ Lists /\ Holding /\ Served
  BY DEF ServerInv, Served, Typed
<1>1. /\ n \in 1 .. MaxClients
      /\ loop = "idle" \/ (loop = "setSocket" /\ current = n)
      /\ UNCHANGED <<tls, peer, bound, listening, acceptor, held, tail, received, early, broken,
                     reader, slots, clients, requests, announced>>
  BY DEF Parses
<1>2. /\ announced[n] = 0 /\ ~Server!Pending("requestReady", n)
  BY <1>0, <1>1 DEF Served, AnnouncedSoFar
<1>3. /\ queue' \in Seq(CallsOfServer) /\ ReadyOnce(queue')
      /\ \A t, m : Server!Pending(t, m)' => \/ Server!Pending(t, m)
                                            \/ t = "requestReady" /\ m = n
      /\ \A t, m : Server!Pending(t, m) /\ ~(t = "readReady" /\ m = n) => Server!Pending(t, m)'
  <2>1. /\ rest \in Seq(CallsOfServer) /\ ReadyOnce(rest)
        /\ \A t, m : InQueue(<<t, m>>, rest) => Server!Pending(t, m)
        /\ \A t, m : Server!Pending(t, m) /\ ~(t = "readReady" /\ m = n)
                        => InQueue(<<t, m>>, rest)
    BY DEF Parses
  <2>2. ~InQueue(<<"requestReady", n>>, rest)
    BY <1>2, <2>1
  <2>3. /\ queue' \in Seq(CallsOfServer) /\ ReadyOnce(queue')
        /\ \A t, m : Server!Pending(t, m)' <=> \/ InQueue(<<t, m>>, rest)
                                               \/ t = "requestReady" /\ m = n
    BY <1>1, <2>1, <2>2, ReadyPosted
  <2>4. QED
    BY <2>1, <2>3
<1>4. Controls' /\ Tables' /\ Sets' /\ Lists'
  <2>1. Tables' /\ Lists'
    BY <1>0, <1>1, <1>3 DEF Tables, Lists
  <2>2. Sets'
    BY <1>0, <1>1 DEF Sets
  <2>3. current' \in 0 .. MaxClients
    OBVIOUS
  <2>4. Controls'
    BY <1>0, <1>1, <2>3 DEF Controls
  <2>5. QED
    BY <2>1, <2>2, <2>4
<1>5. Fresh'
  <2>1. ASSUME NEW m \in 1 .. MaxClients
        PROVE  /\ reader'[m] = "none" => data'[m] = 0 /\ ~Server!Listed(m)'
               /\ taken'[m] + data'[m] <= received'[m]
    <3>1. Server!Listed(m)' <=> Server!Listed(m)
      BY <1>1 DEF Server!Listed
    <3>2. CASE m = n
      BY <1>0, <1>1, <3>1, <3>2 DEF Served, Fresh
    <3>3. CASE m # n
      BY <1>0, <1>1, <3>1, <3>3 DEF Served, Fresh
    <3>4. QED
      BY <3>2, <3>3
  <2>2. QED
    BY <2>1 DEF Fresh
<1>6. Holding' /\ ListedOnce'
  BY <1>0, <1>1 DEF Holding, Served, ListedOnce, Server!Listed
<1>7. Listening'
  BY <1>0, <1>1, <1>3 DEF Served, Listening
<1>8. Server!NoRequestForgotten'
  <2>1. ASSUME NEW m \in (1 .. MaxClients) \ (refused' \cup finished'), data'[m] > 0
        PROVE  \/ reader'[m] = "ready" \/ Server!Pending("readReady", m)'
               \/ held' = m \/ Server!Pending("newConnection", m)'
    <3>1. m # n /\ data[m] > 0 /\ m \notin refused \cup finished
      BY <2>1
    <3>2. QED
      BY <1>0, <1>1, <1>3, <3>1 DEF Served, Server!NoRequestForgotten, Server!Clients
  <2>2. QED
    BY <2>1 DEF Server!NoRequestForgotten, Server!Clients
<1>9. AnnouncedSoFar'
  <2>1. ASSUME NEW m \in 1 .. MaxClients
        PROVE  /\ announced'[m] <= 1
               /\ m \notin finished' => /\ announced'[m] = 0
                                        /\ ~Server!Pending("requestReady", m)'
                                        /\ ~Server!Pending("newRequest", m)'
               /\ announced'[m] = 1 => ~Server!Pending("requestReady", m)'
    <3>1. CASE m = n
      BY <1>1, <1>2, <3>1
    <3>2. CASE m # n
      BY <1>0, <1>1, <1>3, <3>2 DEF Served, AnnouncedSoFar
    <3>3. QED
      BY <3>1, <3>2
  <2>2. QED
    BY <1>3, <2>1 DEF AnnouncedSoFar
<1>10. Leaving'
  BY <1>0, <1>1, <1>3 DEF Served, Leaving, OnTheList, Server!Listed
<1>11. QED
  BY <1>4, <1>5, <1>6, <1>7, <1>8, <1>9, <1>10 DEF ServerInv, Typed

LEMMA ParseKeeps ==
  ASSUME ServerInv, loop # "crashed", NEW n, NEW rest, Parses(n, rest)
  PROVE  ServerInv'
<1> USE Bounds
<1>0. Tables /\ Fresh
  BY DEF ServerInv, Typed
<1>1. /\ n \in 1 .. MaxClients /\ Server!Parse(n, rest)
      /\ taken \in [1 .. MaxClients -> 0 .. MaxPieces]
      /\ data \in [1 .. MaxClients -> 0 .. MaxPieces]
      /\ received \in [1 .. MaxClients -> 0 .. MaxPieces]
      /\ taken[n] + data[n] <= received[n]
      /\ reader[n] = "none" => data[n] = 0
  BY <1>0 DEF Parses, Tables, Fresh
<1>2. /\ taken[n] \in Nat /\ data[n] \in Nat /\ received[n] \in Nat /\ received[n] <= MaxPieces
      /\ taken[n] + data[n] \in 0 .. MaxPieces
  <2>1. taken[n] \in Nat /\ data[n] \in Nat /\ received[n] \in Nat /\ received[n] <= MaxPieces
    BY <1>1
  <2>2. QED
    BY <1>1, <2>1
<1>3. CASE /\ n \in finished
           /\ loop' = "idle" /\ current' = 0 /\ queue' = rest
           /\ UNCHANGED <<data, state, refused, taken, finished>>
  BY <1>1, <1>3, ParseLeavesQueue
<1>4. CASE /\ n \notin finished /\ taken[n] = 0 /\ data[n] > 0
           /\ refused' = refused \cup {n}
           /\ taken' = [taken EXCEPT ![n] = 1]
           /\ data' = [data EXCEPT ![n] = data[n] - 1]
           /\ state' = state \ {n}
           /\ loop' = "refuse" /\ current' = n /\ queue' = rest
           /\ finished' = finished
  <2>1. 1 \in 0 .. MaxPieces /\ data[n] - 1 \in 0 .. MaxPieces /\ 1 + (data[n] - 1) <= received[n]
    <3>1. taken[n] = 0 /\ data[n] > 0
      BY <1>4
    <3>2. QED
      BY <1>1, <1>2, <3>1
  <2>2. /\ taken' \in [1 .. MaxClients -> 0 .. MaxPieces]
        /\ data' \in [1 .. MaxClients -> 0 .. MaxPieces]
        /\ \A m \in 1 .. MaxClients : m # n => taken'[m] = taken[m] /\ data'[m] = data[m]
        /\ taken'[n] = 1 /\ data'[n] = data[n] - 1
    BY <1>1, <1>4, <2>1
  <2>3. taken'[n] + data'[n] <= received[n] /\ reader[n] # "none"
    <3>1. data[n] # 0
      BY <1>2, <1>4
    <3>2. QED
      BY <1>1, <2>1, <2>2, <3>1
  <2>4. QED
    BY <1>4, <2>2, <2>3, ParseLeavesQueue
<1>5. CASE /\ n \notin finished
           /\ taken' = [taken EXCEPT ![n] = taken[n] + data[n]]
           /\ data' = [data EXCEPT ![n] = 0]
           /\ LET complete == taken[n] + data[n] = MaxPieces IN
                /\ finished' = IF complete THEN finished \cup {n} ELSE finished
                /\ queue' = IF complete THEN Append(rest, <<"requestReady", n>>) ELSE rest
           /\ loop' = "idle" /\ current' = 0
           /\ UNCHANGED <<state, refused>>
  <2>1. /\ taken' \in [1 .. MaxClients -> 0 .. MaxPieces]
        /\ data' \in [1 .. MaxClients -> 0 .. MaxPieces]
        /\ \A m \in 1 .. MaxClients : m # n => taken'[m] = taken[m] /\ data'[m] = data[m]
        /\ taken'[n] = taken[n] + data[n] /\ data'[n] = 0
    BY <1>1, <1>2, <1>5
  <2>2. taken'[n] + data'[n] <= received[n]
    BY <1>1, <1>2, <2>1
  <2>3. CASE taken[n] + data[n] = MaxPieces
    <3>1. finished' = finished \cup {n} /\ queue' = Append(rest, <<"requestReady", n>>)
      BY <1>5, <2>3
    <3>2. QED
      BY <1>5, <2>1, <2>2, <3>1, ParseCompletes
  <2>4. CASE taken[n] + data[n] # MaxPieces
    <3>1. finished' = finished /\ queue' = rest
      BY <1>5, <2>4
    <3>2. QED
      BY <1>5, <2>1, <2>2, <3>1, ParseLeavesQueue
  <2>5. QED
    BY <2>3, <2>4
<1>6. QED
  BY <1>1, <1>3, <1>4, <1>5 DEF Server!Parse, Server!None

\* setSocket() reads what came before the request listened.
LEMMA SetSocketReadsKeeps ==
  ASSUME ServerInv, loop # "crashed", Server!SetSocketReads PROVE ServerInv'
<1> USE Bounds DEF Server!accepting, Server!sockets
<1>1. PICK n : n = current
  OBVIOUS
<1>2. PICK rest : rest = queue
  OBVIOUS
<1>3. /\ loop = "setSocket" /\ Server!Parse(n, rest)
      /\ UNCHANGED <<tls, peer, bound, listening, acceptor, held, tail, received, early, broken,
                     reader, slots, clients, requests, announced>>
  BY <1>1, <1>2 DEF Server!SetSocketReads
<1>4. n \in 1 .. MaxClients /\ rest \in Seq(CallsOfServer) /\ ReadyOnce(rest)
  BY <1>1, <1>2, <1>3 DEF ServerInv, Typed, Lists, Holding, AnnouncedSoFar
<1>5. \A t, m : InQueue(<<t, m>>, rest) <=> Server!Pending(t, m)
  BY <1>2 DEF InQueue, Server!Pending
<1>6. Parses(n, rest)
  BY <1>1, <1>3, <1>4, <1>5 DEF Parses
<1>7. QED
  BY <1>6, ParseKeeps

LEMMA ReadReadyKeeps ==
  ASSUME ServerInv, loop # "crashed", Server!ReadReady PROVE ServerInv'
<1> USE Bounds DEF Server!accepting, Server!sockets
<1>1. PICK n : n = Server!Sender
  OBVIOUS
<1>2. PICK rest : rest = Tail(queue)
  OBVIOUS
<1>3. /\ Server!Call("readReady") /\ Server!Parse(n, rest)
      /\ UNCHANGED <<tls, peer, bound, listening, acceptor, held, tail, received, early, broken,
                     reader, slots, clients, requests, announced>>
  BY <1>1, <1>2 DEF Server!ReadReady
<1>4. /\ queue \in Seq(CallsOfServer) /\ queue # <<>> /\ loop = "idle" /\ ReadyOnce(queue)
      /\ Head(queue)[1] = "readReady" /\ Head(queue)[2] = n
  BY <1>1, <1>3 DEF ServerInv, Typed, Lists, AnnouncedSoFar, Server!Call, Server!Sender
<1>5. /\ rest \in Seq(CallsOfServer) /\ ReadyOnce(rest) /\ n \in 1 .. MaxClients
      /\ \A t, m : InQueue(<<t, m>>, rest) => Server!Pending(t, m)
      /\ \A t, m : Server!Pending(t, m) /\ ~(t = "readReady" /\ m = n)
                      => InQueue(<<t, m>>, rest)
  <2>1. PICK call : call = Head(queue)
    OBVIOUS
  <2>2. /\ rest \in Seq(CallsOfServer) /\ call \in CallsOfServer /\ ReadyOnce(rest)
        /\ \A c : InQueue(c, rest) => InQueue(c, queue)
        /\ \A c : InQueue(c, queue) /\ c # call => InQueue(c, rest)
    BY <1>2, <1>4, <2>1, TakenFrom
  <2>3. call = <<"readReady", n>> /\ n \in 1 .. MaxClients
    BY <1>4, <2>1, <2>2 DEF CallsOfServer
  <2>4. \A t, m : <<t, m>> = call <=> t = "readReady" /\ m = n
    BY <2>3
  <2>5. \A t, m : InQueue(<<t, m>>, queue) <=> Server!Pending(t, m)
    BY DEF InQueue, Server!Pending
  <2>6. QED
    BY <2>2, <2>3, <2>4, <2>5
<1>6. Parses(n, rest)
  BY <1>3, <1>4, <1>5 DEF Parses
<1>7. QED
  BY <1>6, ParseKeeps

LEMMA ServerNext == ServerInv /\ Server!Next => ServerInv'
<1> SUFFICES ASSUME ServerInv, Server!Next PROVE ServerInv'
  OBVIOUS
<1>1. loop # "crashed"
  BY DEF Server!Next
<1>2. CASE \/ Server!Bind \/ Server!Unbind \/ Server!UnbindJoins
           \/ Server!CheckBound \/ Server!CallAccept \/ Server!Handshake
           \/ Server!ConnectDisconnected \/ Server!PushFindsEnd
           \/ Server!Refuse \/ Server!CloseJoins
           \/ \E n \in 1 .. MaxClients : Server!ClientConnects(n) \/ Server!ClientEnds(n)
  BY <1>1, <1>2, ControlSteps
<1>3. CASE \/ Server!AcceptReturns \/ Server!HandshakeFails \/ Server!StartThread
           \/ Server!PushLinks \/ Server!EmitNewConnection
  BY <1>1, <1>3, AcceptReturnsKeeps, HandshakeFailsKeeps, StartThreadKeeps, PushLinksKeeps,
     EmitNewConnectionKeeps
<1>4. CASE \/ Server!Disconnected \/ Server!NewConnection \/ Server!SetSocketReads
           \/ Server!ReadReady \/ Server!RequestReady \/ Server!SendReply
           \/ Server!ReplySent \/ Server!RequestFinished
  BY <1>1, <1>4, DisconnectedKeeps, NewConnectionKeeps, SetSocketReadsKeeps, ReadReadyKeeps,
     RequestReadyKeeps, SendReplyKeeps, ReplySentKeeps, RequestFinishedKeeps
<1>5. ASSUME NEW n \in 1 .. MaxClients,
             Server!Receive(n) \/ Server!EmitReadReady(n) \/ Server!EndOfStream(n)
      PROVE  ServerInv'
  BY <1>1, <1>5, ServerReceiveKeeps, ServerEmitReadReadyKeeps, ServerEndOfStreamKeeps
<1>6. QED
  BY <1>2, <1>3, <1>4, <1>5 DEF Server!Next, Server!AcceptConnections, Server!Loop, Server!Read,
     Server!Clients

\* What the server promises.
LEMMA ServerPromises ==
  ServerInv => /\ Server!TypeOK /\ Server!AnnouncedOnce /\ Server!NoRequestForgotten
               /\ Server!GoneClientsAreRemoved
BY ServerTypes DEF ServerInv, AnnouncedSoFar, Leaving, OnTheList, Server!AnnouncedOnce,
   Server!GoneClientsAreRemoved, Server!Clients

\* What the ping promises.
LEMMA PingPromises == PingInv => Ping!OneOutcome /\ Ping!ResultNamesHost
<1> SUFFICES ASSUME PingInv PROVE Ping!OneOutcome /\ Ping!ResultNamesHost
  OBVIOUS
<1>1. pings \in Nat
  BY Bounds DEF PingInv, Ping!TypeOK
<1>2. \A i \in 1 .. Len(outcomes) : outcomes[i][2] = i
  BY DEF PingInv, InOrder
<1>3. pings > 0 /\ ~running => Len(outcomes) = pings \/ pc[pings] \in {"error", "finished"}
  BY <1>1 DEF PingInv, InOrder, RunningWhile
<1>4. Ping!ResultNamesHost
  BY DEF PingInv, NamesHost, Ping!ResultNamesHost, Ping!Pings, Ping!None
<1>5. QED
  BY <1>2, <1>3, <1>4 DEF Ping!OneOutcome

-----------------------------------------------------------------------------
\* The five components of MCDevices, of which a behaviour has one.

Kinds == {"server", "client", "serial", "ping", "ssl"}

DevicesInv == /\ kind \in Kinds
              /\ kind = "server" => ServerInv
              /\ kind = "client" => ClientInv
              /\ kind = "serial" => SerialInv
              /\ kind = "ping" => PingInv
              /\ kind = "ssl" => SslInv

LEMMA DevicesInit == Init => DevicesInv
BY ServerInit, ClientInit, SerialInit, PingInit, SslInit DEF Init, DevicesInv, Kinds

LEMMA DevicesStay == DevicesInv /\ UNCHANGED vars => DevicesInv'
<1> SUFFICES ASSUME DevicesInv, UNCHANGED vars PROVE DevicesInv'
  OBVIOUS
<1> USE DEF vars, serverOnly, clientOnly, serialOnly, icmpOnly, sslOnly
<1>1. CASE kind = "server"
  <2>1. ServerInv
    BY <1>1 DEF DevicesInv
  <2>2. Typed'
    BY <2>1 DEF ServerInv, Typed, Controls, Tables, Sets, Lists
  <2>3. Fresh' /\ Holding' /\ ListedOnce' /\ Listening'
    BY <2>1 DEF ServerInv, Fresh, Holding, ListedOnce, Listening, Server!Listed, Server!Pending
  <2>4. Server!NoRequestForgotten' /\ AnnouncedSoFar' /\ Leaving'
    BY <2>1 DEF ServerInv, AnnouncedSoFar, ReadyOnce, Leaving, OnTheList, Server!Listed,
       Server!Pending, Server!NoRequestForgotten
  <2>5. QED
    BY <1>1, <2>2, <2>3, <2>4 DEF DevicesInv, ServerInv, Kinds
<1>2. CASE kind = "client"
  <2>1. ClientInv
    BY <1>2 DEF DevicesInv
  <2>2. Client!TypeOK' /\ OutcomesSoFar' /\ UnderWay' /\ EndsLast' /\ Starting'
    BY <2>1 DEF ClientInv, Client!TypeOK, OutcomesSoFar, UnderWay, ReaderWorks, OnlyTimeouts,
       EndsLast, Starting, Client!Pending
  <2>3. Told' /\ HeaderFirst'
    BY <2>1 DEF ClientInv, Told, HeaderFirst, Client!Pending
  <2>4. PiecesInStep'
    BY <2>1 DEF ClientInv, PiecesInStep, PayloadIsOwn, InStep
  <2>5. QED
    BY <1>2, <2>2, <2>3, <2>4 DEF DevicesInv, ClientInv, Kinds
<1>3. CASE kind = "serial"
  BY <1>3 DEF DevicesInv, Kinds, SerialInv, Serial!TypeOK, Serial!NoByteForgotten, Ordered,
     Serial!BytesInOrder, InHand, Below, Came
<1>4. CASE kind = "ping"
  BY <1>4 DEF DevicesInv, Kinds, PingInv, Ping!TypeOK, InTurn, RunningWhile, InOrder, NamesHost
<1>5. CASE kind = "ssl"
  BY <1>5 DEF DevicesInv, Kinds, SslInv, Ssl!TypeOK, FreedIsGone
<1>6. QED
  BY <1>1, <1>2, <1>3, <1>4, <1>5 DEF DevicesInv, Kinds

LEMMA DevicesNext == DevicesInv /\ Next => DevicesInv'
<1> SUFFICES ASSUME DevicesInv, Next PROVE DevicesInv'
  OBVIOUS
<1>1. CASE ServerStep
  <2>1. kind = "server" /\ kind' = "server" /\ ServerInv'
    BY <1>1, ServerNext DEF ServerStep, DevicesInv
  <2>2. QED
    BY <2>1 DEF DevicesInv, Kinds
<1>2. CASE ClientStep
  <2>1. kind = "client" /\ kind' = "client" /\ ClientInv'
    BY <1>2, ClientNext DEF ClientStep, DevicesInv
  <2>2. QED
    BY <2>1 DEF DevicesInv, Kinds
<1>3. CASE SerialStep
  <2>1. kind = "serial" /\ kind' = "serial" /\ SerialInv'
    BY <1>3, SerialNext DEF SerialStep, DevicesInv
  <2>2. QED
    BY <2>1 DEF DevicesInv, Kinds
<1>4. CASE PingStep
  <2>1. kind = "ping" /\ kind' = "ping" /\ PingInv'
    BY <1>4, PingNext DEF PingStep, DevicesInv
  <2>2. QED
    BY <2>1 DEF DevicesInv, Kinds
<1>5. CASE SslStep
  <2>1. kind = "ssl" /\ kind' = "ssl" /\ SslInv'
    BY <1>5, SslNext DEF SslStep, DevicesInv
  <2>2. QED
    BY <2>1 DEF DevicesInv, Kinds
<1>6. QED
  BY <1>1, <1>2, <1>3, <1>4, <1>5 DEF Next

\* The inductive invariant of all five: each component's own, whichever one a
\* behaviour has.
THEOREM DevicesInvariance == Spec => []DevicesInv
<1>1. Init => DevicesInv
  BY DevicesInit
<1>2. DevicesInv /\ [Next]_vars => DevicesInv'
  BY DevicesStay, DevicesNext
<1>3. QED
  BY <1>1, <1>2, PTL DEF Spec

\* Every variable of the HTTP server, the HTTP client, the serial port, the
\* ping and the SSL socket keeps its type.
THEOREM TypeCorrect == Spec => []TypeOK
<1>1. DevicesInv => TypeOK
  <2> SUFFICES ASSUME DevicesInv PROVE TypeOK
    OBVIOUS
  <2>1. CASE kind = "server"
    <3>1. Server!TypeOK
      BY <2>1, ServerPromises DEF DevicesInv
    <3>2. QED
      BY <2>1, <3>1 DEF TypeOK
  <2>2. CASE kind = "client"
    <3>1. Client!TypeOK
      BY <2>2 DEF DevicesInv, ClientInv
    <3>2. QED
      BY <2>2, <3>1 DEF TypeOK
  <2>3. CASE kind = "serial"
    <3>1. Serial!TypeOK
      BY <2>3 DEF DevicesInv, SerialInv
    <3>2. QED
      BY <2>3, <3>1 DEF TypeOK
  <2>4. CASE kind = "ping"
    <3>1. Ping!TypeOK
      BY <2>4 DEF DevicesInv, PingInv
    <3>2. QED
      BY <2>4, <3>1 DEF TypeOK
  <2>5. CASE kind = "ssl"
    <3>1. Ssl!TypeOK
      BY <2>5 DEF DevicesInv, SslInv
    <3>2. QED
      BY <2>5, <3>1 DEF TypeOK
  <2>6. QED
    BY <2>1, <2>2, <2>3, <2>4, <2>5 DEF DevicesInv, Kinds
<1>2. QED
  BY <1>1, DevicesInvariance, PTL

\* An HTTP request ends once, with finished or with error (get() may throw
\* before it begins), a ping has its one outcome in its turn, and the server
\* announces a request once, however many of its pieces are told late.
THEOREM AskedOnceAnsweredOnce == Spec => []OneOutcome
<1>1. DevicesInv => OneOutcome
  BY ServerPromises, ClientPromises, PingPromises DEF DevicesInv, OneOutcome
<1>2. QED
  BY <1>1, DevicesInvariance, PTL

\* Nobody waits for a signal that will not come: bytes for a request that is
\* being collected are told or read by setSocket(), a client that has gone
\* leaves the server's list unless it was early or broken, an HTTP client's
\* request has something that will end it, and bytes in the buffer of the
\* serial port have a readyRead to come or were told.
THEOREM NobodyWaitsInVain == Spec => []NothingForgotten
<1>1. DevicesInv => NothingForgotten
  BY ServerPromises, ClientPromises DEF DevicesInv, SerialInv, NothingForgotten
<1>2. QED
  BY <1>1, DevicesInvariance, PTL

\* The payload of an HTTP client is that of its own request, without the
\* header and in order, the bytes of the serial port come in order and once,
\* and a ping names the host it went to unless the destination was set.
THEOREM EveryoneGetsHisOwn == Spec => []AnswersBelong
<1>1. DevicesInv => AnswersBelong
  BY ClientPromises, PingPromises DEF DevicesInv, SerialInv, Ordered, AnswersBelong
<1>2. QED
  BY <1>1, DevicesInvariance, PTL

\* The destructor of an EBSslSocket frees the session when its thread has
\* ended, and none is started on it again.
THEOREM ReadersHaveASession == Spec => []SessionOutlivesReader
<1>1. DevicesInv => SessionOutlivesReader
  BY DEF DevicesInv, SslInv, FreedIsGone, SessionOutlivesReader, Ssl!SessionOutlivesReader
<1>2. QED
  BY <1>1, DevicesInvariance, PTL

=============================================================================
