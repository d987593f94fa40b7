--------------------------- MODULE TcpSocketProofs ---------------------------
(***************************************************************************)
(* Proofs about EBTcpSocket, for any number of opens and bytes.            *)
(***************************************************************************)
EXTENDS TcpSocket, SequenceTheorems, FiniteSetTheorems, TLAPS

\* TypeOK holds in every state: each member of EBTcpSocket keeps its type.
THEOREM TypeCorrect == Spec => []TypeOK
<1> USE TcpSocketAssumption
<1>1. Init => TypeOK
  <2> SUFFICES ASSUME Init
               PROVE  TypeOK
    OBVIOUS
  <2>1. data \in Seq(Bytes) /\ read \in Seq(Bytes) /\ <<>> \in Seq(Bytes)
    BY DEF Init
  <2>2. buffer \in [Threads -> Seq(Bytes)]
    BY <2>1 DEF Init
  <2>3. signals \in Seq({"connected", "disconnected", "error"} \X Threads)
    BY DEF Init
  <2>4. pc \in [Threads -> Labels] /\ fd \in [Threads -> Threads \cup {None}]
    BY DEF Init, Labels
  <2>5. peer \in [Threads -> {"none", "open", "refused", "closed", "reset"}]
    BY DEF Init
  <2>6. /\ sent \in [Threads -> 0 .. MaxBytes]
        /\ received \in [Threads -> 0 .. MaxBytes]
    BY DEF Init
  <2> QED
    BY <2>1, <2>2, <2>3, <2>4, <2>5, <2>6 DEF Init, TypeOK
<1>2. TypeOK /\ [Next]_vars => TypeOK'
  <2> SUFFICES ASSUME TypeOK, [Next]_vars
               PROVE  TypeOK'
    OBVIOUS
  <2> USE DEF TypeOK
  <2>1. CASE Accept
    <3>1. 1 \in Threads
      BY DEF Threads
    <3>2. pc' \in [Threads -> Labels] /\ peer' \in [Threads -> {"none", "open", "refused", "closed", "reset"}]
      BY <2>1, <3>1 DEF Accept, Labels
    <3> QED
      BY <2>1, <3>1, <3>2 DEF Accept, output
  <2>2. CASE Open
    BY <2>2 DEF Open, network, reader, output
  <2>3. CASE Reset
    BY <2>3 DEF Reset, network, reader, output
  <2>4. ASSUME NEW op \in {"close", "destroy"}, Close(op)
        PROVE  TypeOK'
    BY <2>4 DEF Close, Closed, network, reader, output
  <2>5. CASE Shutdown
    BY <2>5 DEF Shutdown, members, reader, output
  <2>6. CASE CloseJoins
    BY <2>6 DEF CloseJoins, Closed, members, network, reader, output
  <2>7. CASE JoinThread
    <3>1. /\ pc' \in [Threads -> Labels] /\ thread' \in Threads \cup {None}
          /\ user' \in {"gone", "idle"} /\ joinable' \in BOOLEAN
      BY <2>7 DEF JoinThread, Labels
    <3>2. UNCHANGED <<request, read, left, members, network, fd, buffer, output>>
      BY <2>7 DEF JoinThread
    <3> QED
      BY <3>1, <3>2 DEF members, network, output
  <2>8. CASE SlotBegins
    <3>1. user' = "reading" /\ ready' \in Nat
      BY <2>8 DEF SlotBegins
    <3> QED
      BY <2>8, <3>1 DEF SlotBegins, members, network, reader
  <2>9. CASE Read
    <3>1. PICK size \in 1 .. Len(data) :
            /\ read' = read \o SubSeq(data, 1, size)
            /\ data' = SubSeq(data, size + 1, Len(data))
      BY <2>9 DEF Read
    <3>2. SubSeq(data, 1, size) \in Seq(Bytes)
      BY <3>1, SubSeqProperties
    <3>3. data' \in Seq(Bytes)
      BY <3>1, SubSeqProperties
    <3>4. read' \in Seq(Bytes)
      BY <3>1, <3>2, ConcatProperties
    <3> QED
      BY <2>9, <3>3, <3>4 DEF Read, members, network, reader
  <2>10. CASE SlotEnds
    BY <2>10 DEF SlotEnds, members, network, reader, output
  <2>11. ASSUME NEW n \in Threads, Run(n)
         PROVE  TypeOK'
    <3> USE DEF Goto, Labels, program, members, network, output
    <3>1. CASE Begin(n)
      BY <3>1 DEF Begin
    <3>2. CASE Adopt(n)
      BY <3>2 DEF Adopt
    <3>3. CASE Socket(n)
      BY <3>3 DEF Socket
    <3>4. CASE SocketFails(n)
      <4>1. signals' \in Seq({"connected", "disconnected", "error"} \X Threads)
        BY <3>4, AppendProperties DEF SocketFails, Say
      <4> QED
        BY <3>4, <4>1 DEF SocketFails
    <3>5. CASE Fail(n)
      BY <3>5 DEF Fail
    <3>6. CASE Connect(n)
      <4>1. peer' \in [Threads -> {"none", "open", "refused", "closed", "reset"}]
        BY <3>6 DEF Connect
      <4> QED
        BY <3>6, <4>1 DEF Connect
    <3>7. CASE Established(n)
      BY <3>7 DEF Established
    <3>8. CASE EmitConnected(n)
      <4>1. signals' \in Seq({"connected", "disconnected", "error"} \X Threads)
        BY <3>8, AppendProperties DEF EmitConnected, Say
      <4> QED
        BY <3>8, <4>1 DEF EmitConnected
    <3>9. CASE Recv(n)
      BY <3>9 DEF Recv
    <3>10. CASE RecvData(n)
      <4>0. PICK c \in handles : \E size \in 1 .. sent[c] - received[c] :
              /\ received' = [received EXCEPT ![c] = @ + size]
              /\ buffer' = [buffer EXCEPT ![n] = [i \in 1 .. size |-> <<c, received[c] + i>>]]
        BY <3>10 DEF RecvData
      <4>1. PICK size \in 1 .. sent[c] - received[c] :
              /\ received' = [received EXCEPT ![c] = @ + size]
              /\ buffer' = [buffer EXCEPT ![n] = [i \in 1 .. size |-> <<c, received[c] + i>>]]
        BY <4>0
      <4>2. /\ c \in Threads /\ sent[c] \in 0 .. MaxBytes /\ received[c] \in 0 .. MaxBytes
            /\ size \in Nat /\ received[c] + size \in 0 .. MaxBytes
        <5>1. c \in Threads
          OBVIOUS
        <5>2. sent[c] \in 0 .. MaxBytes /\ received[c] \in 0 .. MaxBytes
          BY <5>1
        <5>3. size \in 1 .. sent[c] - received[c]
          OBVIOUS
        <5> HIDE DEF TypeOK
        <5> QED
          BY <5>1, <5>2, <5>3
      <4>3. \A i \in 1 .. size : <<c, received[c] + i>> \in Bytes
        <5> HIDE DEF TypeOK
        <5>1. \A i \in 1 .. size : received[c] + i \in 1 .. MaxBytes
          BY <4>2
        <5> QED
          BY <5>1, <4>2 DEF Bytes
      <4>4. [i \in 1 .. size |-> <<c, received[c] + i>>] \in Seq(Bytes)
        <5>1. size \in Nat
          BY <4>2
        <5> QED
          BY <5>1, <4>3, IsASeq
      <4>5. buffer' \in [Threads -> Seq(Bytes)]
        BY <4>1, <4>4
      <4>6. received' \in [Threads -> 0 .. MaxBytes]
        BY <4>1, <4>2
      <4>7. /\ pc' = [pc EXCEPT ![n] = "got"]
            /\ UNCHANGED <<program, members, handles, shut, peer, sent, fd, output>>
        BY <3>10 DEF RecvData, Goto
      <4>8. pc' \in [Threads -> Labels]
        BY <4>7 DEF Labels
      <4> QED
        BY <4>5, <4>6, <4>7, <4>8 DEF program, members, output
    <3>11. CASE RecvEnd(n)
      BY <3>11 DEF RecvEnd
    <3>12. CASE RecvFails(n)
      BY <3>12 DEF RecvFails
    <3>13. CASE Store(n)
      <4>1. <<>> \in Seq(Bytes) /\ buffer[n] \in Seq(Bytes)
        OBVIOUS
      <4>2. data \o buffer[n] \in Seq(Bytes)
        BY <4>1, ConcatProperties
      <4>3. data' \in Seq(Bytes)
        BY <3>13, <4>2 DEF Store
      <4>4. buffer' \in [Threads -> Seq(Bytes)]
        BY <3>13, <4>1 DEF Store
      <4> QED
        BY <3>13, <4>3, <4>4 DEF Store
    <3>14. CASE EmitReady(n)
      BY <3>14 DEF EmitReady
    <3>15. CASE CloseHandle(n)
      BY <3>15 DEF CloseHandle
    <3>16. CASE Finish(n)
      <4>1. signals' \in Seq({"connected", "disconnected", "error"} \X Threads)
        BY <3>16, AppendProperties DEF Finish, Say
      <4> QED
        BY <3>16, <4>1 DEF Finish
    <3> QED
      BY <2>11, <3>1, <3>2, <3>3, <3>4, <3>5, <3>6, <3>7, <3>8, <3>9, <3>10,
         <3>11, <3>12, <3>13, <3>14, <3>15, <3>16 DEF Run
  <2>12. ASSUME NEW n \in Threads, PeerSends(n)
         PROVE  TypeOK'
    <3>1. sent' \in [Threads -> 0 .. MaxBytes]
      BY <2>12 DEF PeerSends
    <3> QED
      BY <2>12, <3>1 DEF PeerSends, program, members, reader, output
  <2>13. ASSUME NEW n \in Threads, PeerEnds(n)
         PROVE  TypeOK'
    <3>1. peer' \in [Threads -> {"none", "open", "refused", "closed", "reset"}]
      BY <2>13 DEF PeerEnds
    <3> QED
      BY <2>13, <3>1 DEF PeerEnds, program, members, reader, output
  <2>14. CASE UNCHANGED vars
    BY <2>14 DEF vars, program, members, network, reader, output
  <2> QED
    BY <2>1, <2>2, <2>3, <2>4, <2>5, <2>6, <2>7, <2>8, <2>9, <2>10, <2>11, <2>12,
       <2>13, <2>14 DEF Next, Program
<1> QED
  BY <1>1, <1>2, PTL DEF Spec

\* What a step of a reader does to the program's side and to the label of the
\* other readers, whatever the step is.
LEMMA ReaderSteps ==
    ASSUME NEW n \in Threads, Run(n), TypeOK
    PROVE  /\ user # "crashed"
           /\ UNCHANGED <<thread, joinable, read>>
           /\ pc[n] \notin {"none", "done"}
           /\ \A m \in Threads \ {n} : pc'[m] = pc[m]
           /\ user' = user \/ user' = "crashed"
<1> USE DEF program, Goto, TypeOK
<1>1. CASE Begin(n)
  BY <1>1 DEF Begin, Run
<1>2. CASE Adopt(n)
  BY <1>2 DEF Adopt, Run
<1>3. CASE Socket(n) \/ SocketFails(n)
  BY <1>3 DEF Socket, SocketFails, Run
<1>4. CASE Fail(n)
  BY <1>4 DEF Fail, Run
<1>5. CASE Connect(n)
  BY <1>5 DEF Connect, Run
<1>6. CASE Established(n) \/ EmitConnected(n)
  BY <1>6 DEF Established, EmitConnected, Run
<1>7. CASE Recv(n)
  BY <1>7 DEF Recv, Run
<1>8. CASE RecvData(n)
  BY <1>8 DEF RecvData, Run
<1>9. CASE RecvEnd(n)
  BY <1>9 DEF RecvEnd, Run
<1>10. CASE RecvFails(n)
  BY <1>10 DEF RecvFails, Run
<1>11. CASE Store(n) \/ EmitReady(n)
  BY <1>11 DEF Store, EmitReady, Run
<1>12. CASE CloseHandle(n) \/ Finish(n)
  BY <1>12 DEF CloseHandle, Finish, Run
<1> QED
  BY <1>1, <1>2, <1>3, <1>4, <1>5, <1>6, <1>7, <1>8, <1>9, <1>10, <1>11, <1>12 DEF Run

\* OneReader holds in every state: close(), the destructor and a second open()
\* leave no reader behind that emits or stores.
THEOREM OnlyTheJoinedReaderRuns == Spec => []OneReader
<1>1. Init => OneReader
  BY DEF Init, OneReader
<1>2. TypeOK /\ OneReader /\ [Next]_vars => OneReader'
  <2> SUFFICES ASSUME TypeOK, OneReader, [Next]_vars
               PROVE  OneReader'
    OBVIOUS
  <2> USE DEF OneReader
  <2>1. CASE Accept
    <3>1. \A n \in Threads : pc[n] \in {"none", "done"}
      BY <2>1 DEF Accept, None, Threads
    <3>2. \A n \in Threads : n # 1 => pc'[n] = pc[n]
      BY <2>1 DEF Accept, TypeOK
    <3> QED
      BY <2>1, <3>1, <3>2 DEF Accept
  <2>2. CASE Open \/ Reset
    BY <2>2 DEF Open, Reset, reader
  <2>3. ASSUME NEW op \in {"close", "destroy"}, Close(op)
        PROVE  OneReader'
    BY <2>3 DEF Close, reader
  <2>4. CASE Shutdown
    BY <2>4 DEF Shutdown, reader
  <2>5. CASE CloseJoins
    <3>1. \A n \in Threads : pc[n] \in {"none", "done"}
      BY <2>5 DEF CloseJoins
    <3> QED
      BY <2>5, <3>1 DEF CloseJoins, reader
  <2>6. CASE JoinThread
    <3>1. \A n \in Threads : pc[n] \in {"none", "done"}
      BY <2>6 DEF JoinThread
    <3>2. CASE request = "destroy"
      BY <2>6, <3>1, <3>2 DEF JoinThread
    <3>3. CASE request # "destroy"
      <4>1. PICK n \in Threads : thread' = n /\ joinable' = TRUE /\ pc' = [pc EXCEPT ![n] = "begin"]
        BY <2>6, <3>3 DEF JoinThread
      <4>2. \A m \in Threads : m # n => pc'[m] = pc[m]
        BY <4>1 DEF TypeOK
      <4> QED
        BY <3>1, <4>1, <4>2
    <3> QED
      BY <3>2, <3>3
  <2>7. CASE SlotBegins \/ Read \/ SlotEnds
    BY <2>7 DEF SlotBegins, Read, SlotEnds, reader
  <2>8. ASSUME NEW n \in Threads, Run(n)
        PROVE  OneReader'
    BY <2>8, ReaderSteps
  <2>9. ASSUME NEW n \in Threads, PeerSends(n) \/ PeerEnds(n)
        PROVE  OneReader'
    BY <2>9 DEF PeerSends, PeerEnds, program, reader
  <2>10. CASE UNCHANGED vars
    BY <2>10 DEF vars, program, reader
  <2> QED
    BY <2>1, <2>2, <2>3, <2>4, <2>5, <2>6, <2>7, <2>8, <2>9, <2>10 DEF Next, Program
<1> QED
  BY <1>1, <1>2, TypeCorrect, PTL DEF Spec

\* NoByteForgotten holds in every state: the slot of readReady runs, or is
\* queued or about to be, as long as bytes are in the buffer.
THEOREM EveryByteIsOffered == Spec => []NoByteForgotten
<1>1. Init => NoByteForgotten
  BY DEF Init, NoByteForgotten
<1>2. TypeOK /\ NoByteForgotten /\ [Next]_vars => NoByteForgotten'
  <2> SUFFICES ASSUME TypeOK, NoByteForgotten, [Next]_vars
               PROVE  NoByteForgotten'
    OBVIOUS
  <2> USE DEF NoByteForgotten
  <2>1. ready \in Nat /\ pc \in [Threads -> Labels]
    BY DEF TypeOK
  <2>2. CASE Accept
    <3>1. \A n \in Threads : pc[n] = "ready" => pc'[n] = "ready"
      BY <2>1, <2>2 DEF Accept
    <3> QED
      BY <2>2, <3>1 DEF Accept, output
  <2>3. CASE Open \/ Reset
    BY <2>3 DEF Open, Reset, output, reader
  <2>4. ASSUME NEW op \in {"close", "destroy"}, Close(op)
        PROVE  NoByteForgotten'
    BY <2>4 DEF Close, output, reader
  <2>5. CASE Shutdown \/ CloseJoins
    BY <2>5 DEF Shutdown, CloseJoins, output, reader
  <2>6. CASE JoinThread
    <3>1. \A n \in Threads : pc[n] = "ready" => pc'[n] = "ready"
      <4>1. CASE pc' = pc
        BY <4>1
      <4>2. ASSUME NEW m \in Threads, pc[m] = "none", pc' = [pc EXCEPT ![m] = "begin"]
            PROVE  \A n \in Threads : pc[n] = "ready" => pc'[n] = "ready"
        BY <2>1, <4>2
      <4> QED
        BY <2>6, <4>1, <4>2 DEF JoinThread
    <3>2. UNCHANGED <<data, ready>> /\ user = "joinThread"
      BY <2>6 DEF JoinThread, output
    <3> QED
      BY <3>1, <3>2
  <2>7. CASE SlotBegins \/ Read \/ SlotEnds
    BY <2>7 DEF SlotBegins, Read, SlotEnds, output, reader
  <2>8. ASSUME NEW n \in Threads, Run(n)
        PROVE  NoByteForgotten'
    <3> USE <2>1, <2>8, ReaderSteps
    <3>1. CASE Store(n)
      <4>1. CASE connectionState
        <5>1. pc'[n] = "ready"
          BY <3>1, <4>1 DEF Store, Goto
        <5> QED
          BY <5>1
      <4>2. CASE ~connectionState
        <5>1. data' = data /\ ready' = ready /\ pc[n] = "got"
          BY <3>1, <4>2 DEF Store
        <5>2. user' = user
          BY <3>1 DEF Store, program
        <5>3. \A m \in Threads : pc[m] = "ready" => pc'[m] = "ready"
          BY <5>1
        <5> QED
          BY <5>1, <5>2, <5>3
      <4> QED
        BY <4>1, <4>2
    <3>2. CASE EmitReady(n)
      BY <3>2 DEF EmitReady
    <3>3. CASE ~Store(n) /\ ~EmitReady(n)
      <4>1. UNCHANGED <<data, ready>> /\ pc[n] # "ready"
        BY <3>3 DEF Run, Begin, Adopt, Socket, SocketFails, Fail, Connect, Established,
           EmitConnected, Recv, RecvData, RecvEnd, RecvFails, CloseHandle, Finish, output
      <4>2. \A m \in Threads : pc[m] = "ready" => pc'[m] = "ready"
        BY <4>1
      <4> QED
        BY <4>1, <4>2
    <3> QED
      BY <3>1, <3>2, <3>3
  <2>9. ASSUME NEW n \in Threads, PeerSends(n) \/ PeerEnds(n)
        PROVE  NoByteForgotten'
    BY <2>9 DEF PeerSends, PeerEnds, program, reader, output
  <2>10. CASE UNCHANGED vars
    BY <2>10 DEF vars, program, reader, output
  <2> QED
    BY <2>2, <2>3, <2>4, <2>5, <2>6, <2>7, <2>8, <2>9, <2>10 DEF Next, Program
<1> QED
  BY <1>1, <1>2, TypeCorrect, PTL DEF Spec

(***************************************************************************)
(* Descriptors.  A reader may find the descriptor of the reader before it  *)
(* in socketId, but then that one is closed: what recv returns comes from  *)
(* the connection of the reader itself.                                    *)
(***************************************************************************)

\* Labels of a thread whose descriptor, if socketId names it, is closed.
Over == {"none", "done", "failed", "ended", "failure"}

OwnDescriptor ==
    /\ socketId \in handles => pc[socketId] \notin Over
    /\ \A n \in Threads : pc[n] = "wait" /\ fd[n] \in handles => fd[n] = n

\* Threads are made in the order of their numbers.
MadeInOrder == \A m, n \in Threads : pc[n] = "none" /\ pc[m] # "none" => m < n

Descriptors == OwnDescriptor /\ MadeInOrder

\* When a thread is made, and when the thread is joined, none is alive.
LEMMA NobodyRuns ==
    ASSUME TypeOK, OneReader, thread = None \/ (joinable => pc[thread] = "done")
    PROVE  \A n \in Threads : pc[n] \in {"none", "done"}
BY DEF OneReader, None, Threads

LEMMA DescriptorsStep ==
    TypeOK /\ OneReader /\ Descriptors /\ [Next]_vars => Descriptors'
<1> SUFFICES ASSUME TypeOK, OneReader, Descriptors, [Next]_vars PROVE Descriptors'
  OBVIOUS
<1>0. /\ pc \in [Threads -> Labels] /\ handles \subseteq Threads /\ None \notin Threads
      /\ fd \in [Threads -> Threads \cup {None}] /\ socketId \in Threads \cup {None}
      /\ \A m, n \in Threads : pc[m] \notin {"none", "done"} /\ pc[n] \notin {"none", "done"} => m = n
      /\ \A n \in Threads : n \in Nat /\ 1 <= n
  BY DEF TypeOK, OneReader, None, Threads
<1>1. ASSUME UNCHANGED <<socketId, handles, pc, fd>> PROVE Descriptors'
  BY <1>1 DEF Descriptors, OwnDescriptor, MadeInOrder
<1>2. ASSUME NEW n \in Threads, pc[n] = "none", \A m \in 1 .. n - 1 : pc[m] # "none",
             pc' = [pc EXCEPT ![n] = "begin"]
      PROVE  MadeInOrder'
  <2>1. ASSUME NEW m \in Threads, NEW k \in Threads, pc'[k] = "none", pc'[m] # "none"
        PROVE  m < k
    <3>1. k # n /\ pc[k] = "none" /\ (m = n \/ pc[m] # "none")
      BY <1>0, <1>2, <2>1
    <3>2. k \notin 1 .. n - 1
      BY <1>2, <3>1
    <3>3. n < k
      BY <1>0, <3>1, <3>2
    <3>4. QED
      BY <3>1, <3>3 DEF Descriptors, MadeInOrder
  <2>2. QED
    BY <2>1 DEF MadeInOrder
<1>3. CASE Accept
  <2>1. \A n \in Threads : pc[n] \in {"none", "done"}
    BY <1>3, NobodyRuns DEF Accept
  <2>2. /\ 1 \in Threads /\ pc[1] = "none" /\ pc' = [pc EXCEPT ![1] = "begin"]
        /\ socketId' = 1 /\ handles' = {1}
    BY <1>3, TcpSocketAssumption DEF Accept, Threads
  <2>3. MadeInOrder'
    <3>1. \A m \in 1 .. 1 - 1 : pc[m] # "none"
      OBVIOUS
    <3>2. QED
      BY <1>2, <2>2, <3>1
  <2>4. OwnDescriptor'
    BY <1>0, <2>1, <2>2 DEF OwnDescriptor, Over
  <2>5. QED
    BY <2>3, <2>4 DEF Descriptors
<1>4. CASE Open
  BY <1>0, <1>4 DEF Open, network, reader, Descriptors, OwnDescriptor, MadeInOrder
<1>5. CASE JoinThread
  <2>1. \A n \in Threads : pc[n] \in {"none", "done"}
    BY <1>5, NobodyRuns DEF JoinThread
  <2>2. socketId \notin handles /\ UNCHANGED <<socketId, handles, fd>>
    BY <1>0, <1>5, <2>1 DEF JoinThread, members, network, Descriptors, OwnDescriptor, Over
  <2>3. CASE request = "destroy"
    BY <1>1, <1>5, <2>2, <2>3 DEF JoinThread
  <2>4. CASE request # "destroy"
    <3>1. PICK n \in Threads : /\ pc[n] = "none" /\ \A m \in 1 .. n - 1 : pc[m] # "none"
                               /\ pc' = [pc EXCEPT ![n] = "begin"]
      BY <1>5, <2>4 DEF JoinThread
    <3>2. OwnDescriptor'
      BY <1>0, <2>1, <2>2, <3>1 DEF OwnDescriptor
    <3>3. QED
      BY <1>2, <3>1, <3>2 DEF Descriptors
  <2>5. QED
    BY <2>3, <2>4
<1>6. ASSUME NEW n \in Threads, Run(n) PROVE Descriptors'
  <2> USE DEF Goto
  <2>1. pc[n] \notin {"none", "done"} /\ \A m \in Threads : m # n => pc[m] \in {"none", "done"}
    BY <1>0, <1>6, ReaderSteps
  <2>2. /\ pc'[n] # "none" /\ \A m \in Threads : m # n => pc'[m] = pc[m]
    <3>1. \A m \in Threads : m # n => pc'[m] = pc[m]
      BY <1>6, ReaderSteps
    <3>2. pc'[n] # "none"
      BY <1>0, <1>6 DEF Run, Begin, Adopt, Socket, SocketFails, Fail, Connect, Established,
           EmitConnected, Recv, RecvData, RecvEnd, RecvFails, Store, EmitReady, CloseHandle,
           Finish
    <3>3. QED
      BY <3>1, <3>2
  <2>3. MadeInOrder'
    BY <2>1, <2>2 DEF Descriptors, MadeInOrder
  <2>4. CASE Socket(n)
    <3>1. OwnDescriptor'
      BY <1>0, <2>1, <2>2, <2>4 DEF Socket, OwnDescriptor, Over
    <3>2. QED
      BY <2>3, <3>1 DEF Descriptors
  <2>5. CASE SocketFails(n)
    BY <1>0, <2>1, <2>2, <2>3, <2>5 DEF SocketFails, network, Descriptors, OwnDescriptor
  <2>6. CASE Recv(n)
    <3>1. OwnDescriptor'
      BY <1>0, <2>1, <2>2, <2>6 DEF Recv, members, network, Descriptors, OwnDescriptor, Over
    <3>2. QED
      BY <2>3, <3>1 DEF Descriptors
  <2>7. CASE CloseHandle(n)
    <3>1. OwnDescriptor'
      BY <1>0, <2>1, <2>2, <2>7 DEF CloseHandle, members, Descriptors, OwnDescriptor, Over
    <3>2. QED
      BY <2>3, <3>1 DEF Descriptors
  <2>8. CASE Fail(n) \/ Finish(n)
    <3>1. UNCHANGED <<socketId, handles, fd>> /\ pc[n] \in Over /\ pc'[n] = "done"
      BY <1>0, <2>8 DEF Fail, Finish, network, members, Over
    <3>2. socketId \notin handles
      BY <1>0, <2>1, <3>1 DEF Descriptors, OwnDescriptor, Over
    <3>3. OwnDescriptor'
      BY <2>1, <2>2, <3>1, <3>2 DEF OwnDescriptor
    <3>4. QED
      BY <2>3, <3>3 DEF Descriptors
  <2>9. CASE Begin(n) \/ Adopt(n) \/ Connect(n) \/ Established(n) \/ EmitConnected(n)
             \/ RecvData(n) \/ RecvEnd(n) \/ RecvFails(n) \/ Store(n) \/ EmitReady(n)
    <3>1. UNCHANGED <<socketId, handles, fd>>
      BY <2>9 DEF Begin, Adopt, Connect, Established, EmitConnected, RecvData, RecvEnd,
           RecvFails, Store, EmitReady, members, network
    <3>2. pc'[n] \notin Over \cup {"wait"}
      BY <1>0, <2>9 DEF Begin, Adopt, Connect, Established, EmitConnected, RecvData, RecvEnd,
           RecvFails, Store, EmitReady, Over
    <3>3. OwnDescriptor'
      BY <1>0, <2>1, <2>2, <3>1, <3>2 DEF Descriptors, OwnDescriptor, Over
    <3>4. QED
      BY <2>3, <3>3 DEF Descriptors
  <2>10. QED
    BY <1>6, <2>4, <2>5, <2>6, <2>7, <2>8, <2>9 DEF Run
<1>7. QED
  BY <1>1, <1>3, <1>4, <1>5, <1>6
  DEF Next, Program, Reset, Shutdown, CloseJoins, Close, SlotBegins, Read, SlotEnds,
      PeerSends, PeerEnds, vars, members, network, reader

(***************************************************************************)
(* The bytes the program has read, and those it has yet to read.           *)
(***************************************************************************)
Stored == read \o data

LEMMA StoredType == TypeOK => /\ Stored \in Seq(Bytes) /\ Len(Stored) \in Nat
                             /\ \A i \in 1 .. Len(Stored) : Stored[i] \in Bytes
<1> SUFFICES ASSUME TypeOK PROVE Stored \in Seq(Bytes)
  BY LenProperties, ElementOfSeq
<1>1. QED
  BY ConcatProperties DEF TypeOK, Stored

\* The store moves the bytes of the buffer to data, or drops them.
LEMMA StoreStores ==
    ASSUME TypeOK, NEW n \in Threads, Store(n)
    PROVE  Stored' = IF connectionState THEN Stored \o buffer[n] ELSE Stored
<1> DEFINE b == buffer[n]
<1>1. /\ read' = read /\ data' = IF connectionState THEN data \o b ELSE data
      /\ read \in Seq(Bytes) /\ data \in Seq(Bytes) /\ b \in Seq(Bytes)
  BY DEF Store, program, TypeOK
<1> HIDE DEF b
<1>2. (read \o data) \o b = read \o (data \o b)
  <2>1. read \in Seq(Bytes) /\ data \in Seq(Bytes) /\ b \in Seq(Bytes)
    BY <1>1
  <2> HIDE DEF TypeOK
  <2>2. QED
    BY ONLY <2>1, ConcatAssociative
<1>3. Stored' = IF connectionState THEN Stored \o b ELSE Stored
  BY <1>1, <1>2 DEF Stored
<1>4. QED
  BY <1>3 DEF b

\* Only a reader that stores its buffer changes them: reading moves bytes.
LEMMA StoredStep ==
    ASSUME TypeOK, [Next]_vars
    PROVE  \/ Stored' = Stored
           \/ \E n \in Threads : Store(n) /\ connectionState /\ Stored' = Stored \o buffer[n]
<1>0. /\ read \in Seq(Bytes) /\ data \in Seq(Bytes)
      /\ \A n \in Threads : buffer[n] \in Seq(Bytes)
  BY DEF TypeOK
<1>1. CASE Read
  <2>1. PICK size \in 1 .. Len(data) : /\ read' = read \o SubSeq(data, 1, size)
                                       /\ data' = SubSeq(data, size + 1, Len(data))
    BY <1>1 DEF Read
  <2> DEFINE front == SubSeq(data, 1, size)
             back == SubSeq(data, size + 1, Len(data))
  <2>a. /\ Len(data) \in Nat /\ size \in Int /\ size + 1 \in Int /\ 1 \in Int
        /\ \A i \in 1 .. Len(data) : data[i] \in Bytes
        /\ \A i \in 1 .. size : i \in 1 .. Len(data)
        /\ \A i \in size + 1 .. Len(data) : i \in 1 .. Len(data)
        /\ 1 \in 1 .. Len(data) + 1 /\ size \in 1 - 1 .. Len(data)
        /\ Len(data) \in size .. Len(data)
    BY <1>0, ElementOfSeq, LenProperties
  <2>2. front \in Seq(Bytes) /\ back \in Seq(Bytes)
    <3>1. front \in Seq(Bytes)
      BY <2>a, SubSeqProperties
    <3>2. back \in Seq(Bytes)
      BY <2>a, SubSeqProperties
    <3>3. QED
      BY <3>1, <3>2
  <2>3. front \o back = data
    <3>1. front \o back = SubSeq(data, 1, Len(data))
      BY <1>0, <2>a, ConcatAdjacentSubSeq
    <3>2. QED
      BY <1>0, <3>1, SubSeqFull
  <2>4. (read \o front) \o back = read \o (front \o back)
    <3> HIDE DEF front, back
    <3>1. read \in Seq(Bytes) /\ front \in Seq(Bytes) /\ back \in Seq(Bytes)
      BY <1>0, <2>2
    <3>2. QED
      BY ONLY <3>1, ConcatAssociative
  <2>5. QED
    BY <2>1, <2>3, <2>4 DEF Stored
<1>2. ASSUME NEW n \in Threads, Store(n)
      PROVE  Stored' = Stored \/ (connectionState /\ Stored' = Stored \o buffer[n])
  BY <1>2, StoreStores
<1>3. ASSUME UNCHANGED <<read, data>> PROVE Stored' = Stored
  BY <1>3 DEF Stored
<1>4. ASSUME NEW n \in Threads, Run(n), ~Store(n) PROVE UNCHANGED <<read, data>>
  BY <1>4 DEF Run, Begin, Adopt, Socket, SocketFails, Fail, Connect, Established,
       EmitConnected, Recv, RecvData, RecvEnd, RecvFails, EmitReady, CloseHandle,
       Finish, program, output
<1>5. QED
  BY <1>1, <1>2, <1>3, <1>4
  DEF Next, Program, Accept, Open, Reset, Shutdown, CloseJoins, JoinThread, Close, SlotBegins,
      SlotEnds, PeerSends, PeerEnds, vars, program, output

\* Labels of a thread that has not come to its loop of recv.
Before == {"none", "begin", "adopt", "socket", "failed", "connect", "set"}

\* How many bytes of its connection a thread has stored or dropped.
Taken(n) == received[n] - Len(buffer[n])

\* The buffer of a thread holds the next bytes of its own connection.
BufferIsNext == \A n \in Threads :
    /\ pc[n] # "got" => buffer[n] = <<>>
    /\ \A i \in 1 .. Len(buffer[n]) : buffer[n][i] = <<n, Taken(n) + i>>

\* The thread has taken nothing, and what is stored is of earlier ones.
NotBegun(n) == Taken(n) = 0 /\ (Stored # <<>> => Stored[Len(Stored)][1] < n)

\* The last byte stored is the one before those in the buffer of the thread.
Continues(n) == \/ NotBegun(n)
                \/ Stored # <<>> /\ Stored[Len(Stored)] = <<n, Taken(n)>>

\* A thread drops bytes only when connectionState has been cleared, and then
\* nothing sets it again before the thread is over.
NextContinues == \A n \in Threads :
    /\ pc[n] \in Before => NotBegun(n)
    /\ pc[n] # "done" /\ connectionState => Continues(n)

Order == BufferIsNext /\ NextContinues /\ BytesInOrder

\* What the steps of a reader, apart from recv and the store, leave alone.
LEMMA QuietReader ==
    ASSUME NEW n \in Threads, Run(n), ~RecvData(n), ~Store(n), TypeOK
    PROVE  /\ UNCHANGED <<received, buffer, read, data>>
           /\ pc'[n] # "got" /\ pc[n] # "got" /\ pc[n] \notin {"none", "done"}
           /\ pc'[n] \in Before => pc[n] \in Before
           /\ connectionState' /\ ~connectionState => pc[n] \in Before
           /\ \A m \in Threads : m # n => pc'[m] = pc[m]
<1> USE DEF TypeOK, Goto, Before, program, members, network, output
<1>1. CASE Begin(n) \/ Adopt(n)
  BY <1>1 DEF Begin, Adopt
<1>2. CASE Socket(n) \/ SocketFails(n) \/ Fail(n)
  BY <1>2 DEF Socket, SocketFails, Fail
<1>3. CASE Connect(n)
  BY <1>3 DEF Connect
<1>4. CASE Established(n) \/ EmitConnected(n)
  BY <1>4 DEF Established, EmitConnected
<1>5. CASE Recv(n) \/ RecvFails(n) \/ EmitReady(n)
  BY <1>5 DEF Recv, RecvFails, EmitReady
<1>6. CASE RecvEnd(n)
  BY <1>6 DEF RecvEnd
<1>7. CASE CloseHandle(n) \/ Finish(n)
  BY <1>7 DEF CloseHandle, Finish
<1>8. QED
  BY <1>1, <1>2, <1>3, <1>4, <1>5, <1>6, <1>7 DEF Run

LEMMA QuietStepKeepsOrder ==
    ASSUME Order, UNCHANGED <<received, buffer>>, Stored' = Stored,
           \A n \in Threads : /\ pc[n] = "got" => pc'[n] = "got"
                              /\ pc'[n] \in Before => pc[n] \in Before
                              /\ pc'[n] # "done" /\ connectionState' =>
                                    pc[n] \in Before \/ (pc[n] # "done" /\ connectionState)
    PROVE  Order'
<1>1. \A n \in Threads : (Taken(n))' = Taken(n)
  BY DEF Taken
<1>2. \A n \in Threads : (NotBegun(n))' <=> NotBegun(n)
  BY <1>1 DEF NotBegun
<1>3. \A n \in Threads : (Continues(n))' <=> Continues(n)
  BY <1>1, <1>2 DEF Continues
<1>4. BufferIsNext'
  BY <1>1 DEF Order, BufferIsNext
<1>5. NextContinues'
  <2>1. ASSUME NEW n \in Threads
        PROVE  /\ pc'[n] \in Before => (NotBegun(n))'
               /\ pc'[n] # "done" /\ connectionState' => (Continues(n))'
    <3>1. pc[n] \in Before => NotBegun(n) /\ Continues(n)
      BY DEF Order, NextContinues, Continues
    <3>2. QED
      BY <1>2, <1>3, <3>1 DEF Order, NextContinues
  <2>2. QED
    BY <2>1 DEF NextContinues
<1>6. BytesInOrder'
  BY DEF Order, BytesInOrder, Stored
<1>7. QED
  BY <1>4, <1>5, <1>6 DEF Order

\* recv fills the buffer with the next bytes of the connection.
LEMMA RecvFillsBuffer ==
    ASSUME TypeOK, OneReader, Descriptors, Order, NEW n \in Threads, RecvData(n)
    PROVE  /\ \A m \in Threads : (Taken(m))' = Taken(m)
           /\ \A i \in 1 .. Len(buffer'[n]) : buffer'[n][i] = <<n, (Taken(n))' + i>>
           /\ \A m \in Threads : m # n =>
                 received'[m] = received[m] /\ buffer'[m] = buffer[m] /\ pc'[m] = pc[m]
<1>1. /\ pc \in [Threads -> Labels] /\ received \in [Threads -> 0 .. MaxBytes]
      /\ sent \in [Threads -> 0 .. MaxBytes] /\ buffer \in [Threads -> Seq(Bytes)]
      /\ pc[n] = "wait" /\ pc' = [pc EXCEPT ![n] = "got"]
      /\ UNCHANGED <<connectionState, read, data>>
  BY DEF TypeOK, RecvData, Goto, members, program, output
<1>2. PICK size \in 1 .. sent[n] - received[n] :
        /\ received' = [received EXCEPT ![n] = received[n] + size]
        /\ buffer' = [buffer EXCEPT ![n] = [i \in 1 .. size |-> <<n, received[n] + i>>]]
  <2>1. PICK c \in handles : \E size \in 1 .. sent[c] - received[c] :
          /\ fd[n] = c
          /\ received' = [received EXCEPT ![c] = received[c] + size]
          /\ buffer' = [buffer EXCEPT ![n] = [i \in 1 .. size |-> <<c, received[c] + i>>]]
    BY DEF RecvData
  <2>2. c = n
    BY <1>1, <2>1 DEF Descriptors, OwnDescriptor
  <2>3. PICK size \in 1 .. sent[c] - received[c] :
          /\ received' = [received EXCEPT ![c] = received[c] + size]
          /\ buffer' = [buffer EXCEPT ![n] = [i \in 1 .. size |-> <<c, received[c] + i>>]]
    BY <2>1
  <2>4. QED
    BY <2>2, <2>3
<1>3. size \in Nat /\ received[n] \in Nat
  BY <1>1, <1>2
<1>4. /\ received'[n] = received[n] + size
      /\ Len(buffer'[n]) = size
      /\ \A i \in 1 .. size : buffer'[n][i] = <<n, received[n] + i>>
  BY <1>1, <1>2, <1>3
<1>5. Taken(n) = received[n]
  <2>1. buffer[n] = <<>>
    BY <1>1 DEF Order, BufferIsNext
  <2>2. QED
    BY <1>3, <2>1 DEF Taken
<1>6. (Taken(n))' = Taken(n)
  BY <1>3, <1>4, <1>5 DEF Taken
<1>7. \A m \in Threads : m # n => received'[m] = received[m] /\ buffer'[m] = buffer[m] /\ pc'[m] = pc[m]
  BY <1>1, <1>2
<1>8. \A m \in Threads : (Taken(m))' = Taken(m)
  BY <1>6, <1>7 DEF Taken
<1>9. QED
  BY <1>4, <1>5, <1>6, <1>7, <1>8

LEMMA RecvKeepsOrder ==
    ASSUME TypeOK, OneReader, Descriptors, Order, NEW n \in Threads, RecvData(n)
    PROVE  Order'
<1>1. /\ pc[n] = "wait" /\ pc'[n] = "got"
      /\ UNCHANGED <<connectionState, read, data>>
  BY DEF TypeOK, RecvData, Goto, members, program, output
<1>2. /\ \A m \in Threads : (Taken(m))' = Taken(m)
      /\ \A i \in 1 .. Len(buffer'[n]) : buffer'[n][i] = <<n, (Taken(n))' + i>>
      /\ \A m \in Threads : m # n => buffer'[m] = buffer[m] /\ pc'[m] = pc[m]
  BY RecvFillsBuffer
<1>3. Stored' = Stored
  BY <1>1 DEF Stored
<1>4. \A m \in Threads : ((NotBegun(m))' <=> NotBegun(m)) /\ ((Continues(m))' <=> Continues(m))
  BY <1>2, <1>3 DEF NotBegun, Continues
<1>5. BufferIsNext'
  <2>1. ASSUME NEW m \in Threads, m # n
        PROVE  /\ pc'[m] # "got" => buffer'[m] = <<>>
               /\ \A i \in 1 .. Len(buffer'[m]) : buffer'[m][i] = <<m, (Taken(m))' + i>>
    BY <1>2, <2>1 DEF Order, BufferIsNext
  <2>2. QED
    BY <1>1, <1>2, <2>1 DEF BufferIsNext
<1>6. NextContinues'
  BY <1>1, <1>2, <1>4 DEF Order, NextContinues, Before
<1>7. BytesInOrder'
  BY <1>3 DEF Order, BytesInOrder, Stored
<1>8. QED
  BY <1>5, <1>6, <1>7 DEF Order

\* The store moves the bytes of the buffer to the end of those stored, or
\* drops them.
LEMMA StoreKeepsOrder ==
    ASSUME TypeOK, OneReader, Descriptors, Order, NEW n \in Threads, Store(n),
           Stored' = IF connectionState THEN Stored \o buffer[n] ELSE Stored
    PROVE  Order'
<1> DEFINE b == buffer[n]
           L == Len(Stored)
<1>1. /\ pc \in [Threads -> Labels] /\ received \in [Threads -> 0 .. MaxBytes]
      /\ buffer \in [Threads -> Seq(Bytes)] /\ pc[n] = "got"
      /\ buffer' = [buffer EXCEPT ![n] = <<>>]
      /\ pc' = [pc EXCEPT ![n] = IF connectionState THEN "ready" ELSE "recv"]
      /\ UNCHANGED <<connectionState, received>>
  BY DEF TypeOK, Store, Goto, members, network
<1>2. /\ Stored \in Seq(Bytes) /\ b \in Seq(Bytes) /\ L \in Nat /\ Len(b) \in Nat
      /\ received[n] \in Nat
  BY <1>1, StoredType, LenProperties
<1>3. /\ \A i \in 1 .. Len(b) : b[i] = <<n, Taken(n) + i>>
      /\ Taken(n) \in Int /\ Taken(n) + Len(b) = received[n]
  BY <1>1, <1>2 DEF Order, BufferIsNext, Taken
<1>4. (Taken(n))' = received[n]
  BY <1>1, <1>2 DEF Taken
<1>5. \A m \in Threads : m # n => /\ (Taken(m))' = Taken(m) /\ buffer'[m] = buffer[m]
                                 /\ pc'[m] = pc[m] /\ pc[m] \in {"none", "done"}
  BY <1>1 DEF Taken, OneReader
<1>6. BufferIsNext'
  <2>1. ASSUME NEW m \in Threads, m # n
        PROVE  /\ pc'[m] # "got" => buffer'[m] = <<>>
               /\ \A i \in 1 .. Len(buffer'[m]) : buffer'[m][i] = <<m, (Taken(m))' + i>>
    BY <1>5, <2>1 DEF Order, BufferIsNext
  <2>2. buffer'[n] = <<>>
    BY <1>1
  <2>3. QED
    BY <2>1, <2>2 DEF BufferIsNext
<1> HIDE DEF b, L
<1>7. CASE ~connectionState
  <2>1. Stored' = Stored
    BY <1>7
  <2>2. ASSUME NEW m \in Threads, pc'[m] \in Before PROVE (NotBegun(m))'
    <3>1. m # n
      BY <1>1, <1>7, <2>2 DEF Before
    <3>2. QED
      BY <1>5, <2>1, <2>2, <3>1 DEF Order, NextContinues, NotBegun
  <2>3. NextContinues'
    BY <1>1, <1>7, <2>2 DEF NextContinues
  <2>4. BytesInOrder'
    BY <2>1 DEF Order, BytesInOrder, Stored
  <2>5. QED
    BY <1>6, <2>3, <2>4 DEF Order
<1>8. CASE connectionState
  <2>1. /\ Stored' = Stored \o b /\ Stored' \in Seq(Bytes) /\ Len(Stored') = L + Len(b)
        /\ \A i \in 1 .. L : Stored'[i] = Stored[i]
        /\ \A j \in 1 .. Len(b) : Stored'[L + j] = <<n, Taken(n) + j>>
    <3>1. Stored' = Stored \o b
      BY <1>8 DEF b
    <3>2. /\ Stored \o b \in Seq(Bytes) /\ Len(Stored \o b) = L + Len(b)
          /\ \A i \in 1 .. L + Len(b) : (Stored \o b)[i] = IF i <= L THEN Stored[i] ELSE b[i - L]
      BY <1>2, ConcatProperties DEF L
    <3>3. \A j \in 1 .. Len(b) : /\ L + j \in 1 .. L + Len(b) /\ ~(L + j <= L)
                                 /\ (L + j) - L = j
      BY <1>2
    <3>4. \A i \in 1 .. L : i \in 1 .. L + Len(b) /\ i <= L
      BY <1>2
    <3>5. QED
      BY <1>3, <3>1, <3>2, <3>3, <3>4
  <2>2. Continues(n)
    BY <1>1, <1>8 DEF Order, NextContinues
  <2>3. BytesInOrder'
    <3>1. ASSUME NEW i \in 1 .. Len(Stored')
          PROVE  \/ Stored'[i][2] = 1 /\ (i > 1 => Stored'[i - 1][1] < Stored'[i][1])
                 \/ i > 1 /\ Stored'[i] = <<Stored'[i - 1][1], Stored'[i - 1][2] + 1>>
      <4>1. CASE i \in 1 .. L
        <5>1. /\ Stored'[i] = Stored[i]
              /\ i > 1 => Stored'[i - 1] = Stored[i - 1]
          BY <1>2, <2>1, <4>1
        <5>2. \/ Stored[i][2] = 1 /\ (i > 1 => Stored[i - 1][1] < Stored[i][1])
              \/ i > 1 /\ Stored[i] = <<Stored[i - 1][1], Stored[i - 1][2] + 1>>
          BY <4>1 DEF Order, BytesInOrder, Stored, L
        <5>3. QED
          BY <5>1, <5>2
      <4>2. CASE i = L + 1
        <5>1. 1 \in 1 .. Len(b) /\ Stored'[L + 1] = <<n, Taken(n) + 1>>
          BY <1>2, <2>1, <3>1, <4>2
        <5>2. i > 1 => i - 1 = L /\ L \in 1 .. L /\ Stored # <<>> /\ Stored'[L] = Stored[L]
          BY <1>2, <2>1, <4>2 DEF L
        <5>3. CASE NotBegun(n)
          BY <1>2, <4>2, <5>1, <5>2, <5>3 DEF NotBegun, L
        <5>4. CASE ~NotBegun(n)
          <6>1. Stored # <<>> /\ Stored[L] = <<n, Taken(n)>> /\ i > 1
            BY <1>2, <2>2, <4>2, <5>4, EmptySeq DEF Continues, L
          <6>2. QED
            BY <4>2, <5>1, <5>2, <6>1
        <5>5. QED
          BY <5>3, <5>4
      <4>3. CASE i \in L + 2 .. L + Len(b)
        <5>1. PICK j \in 2 .. Len(b) : i = L + j
          <6>1. i - L \in 2 .. Len(b) /\ i = L + (i - L)
            BY <1>2, <4>3
          <6>2. QED
            BY <6>1
        <5>2. j \in 1 .. Len(b) /\ j - 1 \in 1 .. Len(b) /\ i - 1 = L + (j - 1) /\ i > 1
          BY <1>2, <5>1
        <5>3. Stored'[i] = <<n, Taken(n) + j>> /\ Stored'[i - 1] = <<n, Taken(n) + (j - 1)>>
          BY <2>1, <5>1, <5>2
        <5>4. Taken(n) + j = (Taken(n) + (j - 1)) + 1
          BY <1>3, <5>2
        <5>5. PICK last : last = Taken(n) + (j - 1)
          OBVIOUS
        <5>6. Stored'[i] = <<n, last + 1>> /\ Stored'[i - 1] = <<n, last>>
          BY <5>3, <5>4, <5>5
        <5>7. <<n, last>>[1] = n /\ <<n, last>>[2] = last
          OBVIOUS
        <5>8. Stored'[i - 1][1] = n /\ Stored'[i - 1][2] = last
          BY <5>6, <5>7, Zenon
        <5>9. Stored'[i] = <<Stored'[i - 1][1], Stored'[i - 1][2] + 1>>
          BY <5>6, <5>8, Zenon
        <5>10. QED
          BY <5>2, <5>9, Zenon
      <4>4. i \in 1 .. L \/ i = L + 1 \/ i \in L + 2 .. L + Len(b)
        BY <1>2, <2>1
      <4>5. QED
        BY <4>1, <4>2, <4>3, <4>4
    <3>2. QED
      BY <3>1 DEF BytesInOrder, Stored
  <2>4. ASSUME Len(b) = 0 PROVE Stored' = Stored
    <3>1. b = <<>>
      BY <1>2, <2>4, EmptySeq
    <3>2. Stored \o <<>> = Stored
      BY <1>2, ConcatEmptySeq
    <3>3. QED
      BY <2>1, <3>1, <3>2
  <2>5. ASSUME Len(b) # 0 PROVE Stored'[L + Len(b)] = <<n, Taken(n) + Len(b)>>
    <3> DEFINE k == Len(b)
    <3>1. k \in 1 .. Len(b)
      BY <1>2, <2>5
    <3> HIDE DEF k
    <3>2. Stored'[L + k] = <<n, Taken(n) + k>>
      BY <2>1, <3>1
    <3>3. QED
      BY <3>2 DEF k
  <2>6. (Continues(n))'
    <3>1. CASE Len(b) = 0
      <4>1. Stored' = Stored /\ (Taken(n))' = Taken(n)
        BY <1>3, <1>4, <2>4, <3>1
      <4>2. QED
        BY <2>2, <4>1 DEF Continues, NotBegun
    <3>2. CASE Len(b) # 0
      <4>1. Stored'[L + Len(b)] = <<n, Taken(n) + Len(b)>>
        BY <2>5, <3>2
      <4>2. Stored' # <<>>
        BY <1>2, <2>1, <3>2, EmptySeq
      <4>3. QED
        BY <1>3, <1>4, <2>1, <4>1, <4>2 DEF Continues
    <3>3. QED
      BY <3>1, <3>2
  <2>7. ASSUME NEW m \in Threads, m # n, pc[m] = "none" PROVE (NotBegun(m))'
    <3>1. n < m
      BY <1>1, <2>7 DEF Descriptors, MadeInOrder
    <3>2. NotBegun(m)
      BY <2>7 DEF Order, NextContinues, Before
    <3>3. CASE Len(b) = 0
      <4>1. Stored' = Stored
        BY <2>4, <3>3
      <4>2. QED
        BY <1>5, <2>7, <3>2, <4>1 DEF NotBegun
    <3>4. CASE Len(b) # 0
      <4>1. Stored'[L + Len(b)] = <<n, Taken(n) + Len(b)>>
        BY <2>5, <3>4
      <4>2. Stored'[Len(Stored')][1] = n
        <5>1. Len(Stored') = L + Len(b)
          BY <2>1
        <5>2. Stored'[Len(Stored')] = <<n, Taken(n) + Len(b)>>
          BY <4>1, <5>1, Zenon
        <5>3. \A x : <<n, x>>[1] = n
          OBVIOUS
        <5>4. QED
          BY <5>2, <5>3, Zenon
      <4>3. QED
        BY <1>5, <2>7, <3>1, <3>2, <4>2 DEF NotBegun
    <3>5. QED
      BY <3>3, <3>4
  <2>8. NextContinues'
    <3>1. ASSUME NEW m \in Threads
          PROVE  /\ pc'[m] \in Before => (NotBegun(m))'
                 /\ pc'[m] # "done" /\ connectionState' => (Continues(m))'
      <4>1. CASE m = n
        BY <1>1, <1>8, <2>6, <4>1 DEF Before
      <4>2. CASE m # n
        BY <1>5, <2>7, <4>2 DEF Before, Continues
      <4>3. QED
        BY <4>1, <4>2
    <3>2. QED
      BY <3>1 DEF NextContinues
  <2>9. QED
    BY <1>6, <2>3, <2>8 DEF Order
<1>9. QED
  BY <1>7, <1>8

\* A read moves bytes from the buffer to those the program read.
LEMMA ReadStoresNothing ==
    ASSUME TypeOK, Read
    PROVE  Stored' = Stored
<1>1. pc' = pc /\ pc \in [Threads -> Labels]
  BY DEF Read, reader, TypeOK
<1>2. \A n \in Threads : Store(n) =>
         pc[n] = "got" /\ pc' = [pc EXCEPT ![n] = IF connectionState THEN "ready" ELSE "recv"]
  BY DEF Store, Goto
<1>3. \A n \in Threads : ~Store(n)
  BY <1>1, <1>2
<1>4. QED
  BY <1>3, StoredStep DEF Next, Program

LEMMA OrderStep ==
    TypeOK /\ OneReader /\ Descriptors /\ Order /\ [Next]_vars => Order'
<1> SUFFICES ASSUME TypeOK, OneReader, Descriptors, Order, [Next]_vars PROVE Order'
  OBVIOUS
<1>0. pc \in [Threads -> Labels]
  BY DEF TypeOK
<1>1. ASSUME UNCHANGED <<received, buffer, read, data>>,
             \A n \in Threads : /\ pc[n] = "got" => pc'[n] = "got"
                                /\ pc'[n] \in Before => pc[n] \in Before
                                /\ pc'[n] # "done" /\ connectionState' =>
                                      pc[n] \in Before \/ (pc[n] # "done" /\ connectionState)
      PROVE  Order'
  BY <1>1, QuietStepKeepsOrder DEF Stored
<1>2. ASSUME UNCHANGED <<received, buffer, pc>>, Stored' = Stored, connectionState' => connectionState
      PROVE  Order'
  BY <1>2, QuietStepKeepsOrder
<1>3. CASE Accept
  <2>1. \A n \in Threads : pc[n] \in {"none", "done"}
    BY <1>3, NobodyRuns DEF Accept
  <2>2. /\ \A n \in Threads : pc'[n] = pc[n] \/ (pc[n] = "none" /\ pc'[n] = "begin")
        /\ UNCHANGED <<received, buffer, read, data>>
    BY <1>0, <1>3 DEF Accept, output
  <2>3. QED
    BY <1>1, <2>1, <2>2 DEF Before
<1>4. CASE JoinThread
  <2>1. UNCHANGED <<received, buffer, read, data, connectionState>>
    BY <1>4 DEF JoinThread, members, network, output
  <2>2. \A n \in Threads : pc'[n] = pc[n] \/ (pc[n] = "none" /\ pc'[n] = "begin")
    <3>1. CASE pc' = pc
      BY <3>1
    <3>2. ASSUME NEW k \in Threads, pc[k] = "none", pc' = [pc EXCEPT ![k] = "begin"]
          PROVE  \A n \in Threads : pc'[n] = pc[n] \/ (pc[n] = "none" /\ pc'[n] = "begin")
      BY <1>0, <3>2
    <3>3. QED
      BY <1>4, <3>1, <3>2 DEF JoinThread
  <2>3. QED
    BY <1>1, <2>1, <2>2 DEF Before
<1>5. ASSUME NEW n \in Threads, Run(n) PROVE Order'
  <2>1. CASE RecvData(n)
    BY <2>1, RecvKeepsOrder
  <2>2. CASE Store(n)
    BY <2>2, StoreStores, StoreKeepsOrder
  <2>3. CASE ~RecvData(n) /\ ~Store(n)
    <3>1. /\ UNCHANGED <<received, buffer, read, data>>
          /\ pc'[n] # "got" /\ pc[n] # "got" /\ pc[n] \notin {"none", "done"}
          /\ pc'[n] \in Before => pc[n] \in Before
          /\ connectionState' /\ ~connectionState => pc[n] \in Before
          /\ \A m \in Threads : m # n => pc'[m] = pc[m]
      BY <1>5, <2>3, QuietReader
    <3>2. \A m \in Threads : m # n => pc[m] \in {"none", "done"}
      BY <3>1 DEF OneReader
    <3>3. QED
      BY <1>1, <3>1, <3>2 DEF Before
  <2>4. QED
    BY <2>1, <2>2, <2>3
<1>6. CASE Read
  <2>1. UNCHANGED <<received, buffer, pc, connectionState>>
    BY <1>6 DEF Read, members, network, reader
  <2>2. Stored' = Stored
    BY <1>6, ReadStoresNothing
  <2>3. QED
    BY <1>2, <2>1, <2>2
<1>7. ASSUME UNCHANGED <<received, buffer, pc, read, data>>, connectionState' => connectionState
      PROVE  Order'
  BY <1>2, <1>7 DEF Stored
<1>8. QED
  BY <1>3, <1>4, <1>5, <1>6, <1>7
  DEF Next, Program, Open, Reset, Shutdown, CloseJoins, Close, SlotBegins, SlotEnds,
      PeerSends, PeerEnds, vars, members, program, network, reader, output

\* Descriptors are used in turn, and what is stored is in order, for any
\* number of opens, bytes and readers that come and go.
LEMMA OrderInvariance == Spec => [](TypeOK /\ OneReader /\ Descriptors /\ Order)
<1>1. Init => Descriptors /\ Order
  <2> SUFFICES ASSUME Init PROVE Descriptors /\ Order
    OBVIOUS
  <2>1. Stored = <<>>
    BY ConcatEmptySeq, EmptySeq DEF Init, Stored
  <2>2. Len(Stored) = 0 /\ \A n \in Threads : Taken(n) = 0 /\ Len(buffer[n]) = 0
    BY <2>1 DEF Init, Taken
  <2>3. Descriptors
    BY DEF Init, Descriptors, OwnDescriptor, MadeInOrder
  <2>4. BufferIsNext /\ NextContinues /\ BytesInOrder
    BY <2>1, <2>2 DEF Init, BufferIsNext, NextContinues, NotBegun, BytesInOrder, Stored
  <2>5. QED
    BY <2>3, <2>4 DEF Order
<1>2. QED
  BY <1>1, TypeCorrect, OnlyTheJoinedReaderRuns, DescriptorsStep, OrderStep, PTL DEF Spec

\* Whatever is opened and closed meanwhile, the program reads the bytes of
\* each connection from the first on and in order, without a gap.
THEOREM BytesComeInOrder == Spec => []BytesInOrder
BY OrderInvariance, PTL DEF Order

\* The places in s of the bytes of one connection.
BytesOf(s, n) == {i \in 1 .. Len(s) : s[i][1] = n}

LEMMA BytesOfFinite ==
    ASSUME NEW s \in Seq(Bytes), NEW n
    PROVE  IsFiniteSet(BytesOf(s, n)) /\ Cardinality(BytesOf(s, n)) \in Nat
<1>1. IsFiniteSet(1 .. Len(s)) /\ BytesOf(s, n) \subseteq 1 .. Len(s)
  BY FS_Interval, LenProperties DEF BytesOf
<1>2. IsFiniteSet(BytesOf(s, n))
  BY <1>1, FS_Subset
<1>3. QED
  BY <1>2, FS_CardinalityType

\* Bytes of connection n that are stored add to the count of n alone.
AllOf(t, n) == \A i \in 1 .. Len(t) : t[i][1] = n

LEMMA BytesOfConcat ==
    ASSUME NEW s \in Seq(Bytes), NEW t \in Seq(Bytes), NEW n, NEW m, AllOf(t, n)
    PROVE  Cardinality(BytesOf(s \o t, m)) =
              IF m = n THEN Cardinality(BytesOf(s, m)) + Len(t)
                       ELSE Cardinality(BytesOf(s, m))
<1> DEFINE L == Len(s)
           K == Len(t)
           u == s \o t
           new == L + 1 .. L + K
<1>1. /\ L \in Nat /\ K \in Nat /\ Len(u) = L + K
      /\ \A i \in 1 .. L + K : u[i] = IF i <= L THEN s[i] ELSE t[i - L]
  BY LenProperties, ConcatProperties
<1> HIDE DEF L, K, u
<1>2. \A i \in 1 .. L : i \in 1 .. L + K /\ u[i] = s[i]
  BY <1>1
<1>3. \A i \in new : i \in 1 .. L + K /\ u[i][1] = n
  <2>1. ASSUME NEW i \in new PROVE i \in 1 .. L + K /\ ~(i <= L) /\ i - L \in 1 .. K
    BY <1>1, <2>1
  <2>2. \A j \in 1 .. K : t[j][1] = n
    BY DEF AllOf, K
  <2>3. QED
    BY <1>1, <2>1, <2>2
<1>4. \A i \in 1 .. L + K : i \in 1 .. L \/ i \in new
  BY <1>1
<1>5. BytesOf(s, m) = {i \in 1 .. L : s[i][1] = m} /\ BytesOf(u, m) = {i \in 1 .. L + K : u[i][1] = m}
  BY <1>1 DEF BytesOf, L
<1>6. CASE m # n
  <2>1. BytesOf(u, m) = BytesOf(s, m)
    BY <1>2, <1>3, <1>4, <1>5, <1>6
  <2>2. QED
    BY <1>6, <2>1 DEF u
<1>7. CASE m = n
  <2>1. BytesOf(u, m) = BytesOf(s, m) \cup new
    BY <1>2, <1>3, <1>4, <1>5, <1>7
  <2>2. BytesOf(s, m) \cap new = {}
    BY <1>1, <1>5
  <2>3. IsFiniteSet(new) /\ Cardinality(new) = K
    <3>1. IsFiniteSet(new) /\ Cardinality(new) = IF L + 1 > L + K THEN 0 ELSE (L + K) - (L + 1) + 1
      BY <1>1, FS_Interval
    <3>2. QED
      BY <1>1, <3>1
  <2> HIDE DEF new
  <2>4. IsFiniteSet(BytesOf(s, m)) /\ Cardinality(BytesOf(s, m)) \in Nat
    BY BytesOfFinite
  <2>5. Cardinality(BytesOf(s, m) \cup new) =
           Cardinality(BytesOf(s, m)) + Cardinality(new) - Cardinality(BytesOf(s, m) \cap new)
    BY <2>3, <2>4, FS_Union
  <2>6. Cardinality(BytesOf(s, m) \cap new) = 0
    BY <2>2, FS_EmptySet
  <2>7. Cardinality(BytesOf(u, m)) = Cardinality(BytesOf(s, m)) + K
    BY <1>1, <2>1, <2>3, <2>4, <2>5, <2>6
  <2>8. QED
    BY <1>7, <2>7 DEF u, K
<1>8. QED
  BY <1>6, <1>7

\* Labels of a thread between the connection and the end of run().
After == {"connected", "recv", "wait", "got", "ready", "end", "broken", "ended", "failure"}

\* How many bytes of a connection were stored.
Count(n) == Cardinality(BytesOf(Stored, n))

\* disconnected was told of connection n.
Told(n) == \E i \in 1 .. Len(signals) : signals[i] = <<"disconnected", n>>

\* As long as the program does not cut a connection off, connectionState
\* stands and no byte is dropped.
StateKept == \A n \in Threads \ left : pc[n] \in After => connectionState
NothingDropped == \A n \in Threads \ left : pc[n] # "done" => Count(n) = Taken(n)

\* recv returned 0: the peer has closed, and has nothing more to send.
AtTheEnd == \A n \in Threads :
    pc[n] \in {"end", "ended"} => peer[n] = "closed" /\ received[n] = sent[n]

\* Told of the end, the program has everything.
EndIsLast == \A n \in Threads : Told(n) =>
    pc[n] = "done" /\ (n \notin left => peer[n] = "closed" /\ Count(n) = sent[n])

Ending == StateKept /\ NothingDropped /\ AtTheEnd /\ EndIsLast

\* Steps that neither receive, store nor tell an end.
LEMMA QuietStepKeepsEnding ==
    ASSUME Ending, UNCHANGED <<received, buffer>>, Stored' = Stored, left \subseteq left',
           \A n \in Threads :
              /\ pc[n] = "done" => pc'[n] = "done"
              /\ pc'[n] \in {"end", "ended"} => pc[n] \in {"end", "ended"}
              /\ pc[n] \in {"end", "ended", "done"} /\ peer[n] = "closed" =>
                    peer'[n] = "closed" /\ sent'[n] = sent[n]
              /\ n \notin left' /\ pc'[n] \in After => connectionState'
              /\ (Told(n))' => Told(n)
    PROVE  Ending'
<1>1. \A n : (Count(n))' = Count(n)
  BY DEF Count, BytesOf
<1>2. \A n \in Threads : (Taken(n))' = Taken(n)
  BY DEF Taken
<1>3. StateKept'
  BY DEF StateKept
<1>4. NothingDropped'
  BY <1>1, <1>2 DEF Ending, NothingDropped
<1>5. AtTheEnd'
  BY DEF Ending, AtTheEnd
<1>6. EndIsLast'
  <2>1. ASSUME NEW n \in Threads, (Told(n))'
        PROVE  pc'[n] = "done" /\ (n \notin left' => peer'[n] = "closed" /\ (Count(n))' = sent'[n])
    <3>1. /\ pc[n] = "done" /\ pc'[n] = "done"
          /\ n \notin left => peer[n] = "closed" /\ Count(n) = sent[n]
      BY <2>1 DEF Ending, EndIsLast
    <3>2. n \notin left' => n \notin left
      OBVIOUS
    <3>3. QED
      BY <1>1, <3>1, <3>2
  <2>2. QED
    BY <2>1 DEF EndIsLast
<1>7. QED
  BY <1>3, <1>4, <1>5, <1>6 DEF Ending

\* A signal other than disconnected tells no end.
LEMMA SaidNothing ==
    ASSUME TypeOK, NEW n \in Threads, NEW what, what # "disconnected",
           signals' = Append(signals, <<what, n>>), NEW m \in Threads, (Told(m))'
    PROVE  Told(m)
<1>1. PICK i \in 1 .. Len(signals') : signals'[i] = <<"disconnected", m>>
  BY DEF Told
<1>2. signals \in Seq({"connected", "disconnected", "error"} \X Threads)
  BY DEF TypeOK
<1>3. i \in 1 .. Len(signals) \/ i = Len(signals) + 1
  BY <1>1, <1>2, AppendProperties
<1>4. signals'[Len(signals) + 1] = <<what, n>>
  BY <1>2, AppendProperties
<1>5. i # Len(signals) + 1
  BY <1>1, <1>4
<1>6. signals'[i] = signals[i]
  BY <1>2, <1>3, <1>5, AppendProperties
<1>7. QED
  BY <1>1, <1>3, <1>5, <1>6 DEF Told

\* What the steps of a reader do that neither receive, store nor tell an end.
LEMMA QuietReaderKeepsEnding ==
    ASSUME TypeOK, OneReader, Ending, NEW n \in Threads, Run(n),
           ~RecvData(n), ~RecvEnd(n), ~Store(n), ~Finish(n)
    PROVE  Ending'
<1>1. /\ pc \in [Threads -> Labels] /\ peer \in [Threads -> {"none", "open", "refused", "closed", "reset"}]
      /\ connectionState \in BOOLEAN
  BY DEF TypeOK
<1>2. \A m \in Threads : m # n => pc[m] \in {"none", "done"} \/ pc[n] \in {"none", "done"}
  BY DEF OneReader
<1>3. ASSUME UNCHANGED <<received, buffer, read, data, left, peer, sent>>,
             \A m \in Threads : (Told(m))' => Told(m),
             NEW label, pc' = [pc EXCEPT ![n] = label],
             pc[n] \notin {"none", "done"},
             label \in {"end", "ended"} => pc[n] \in {"end", "ended"},
             label \in After => \/ connectionState'
                                \/ pc[n] \in After /\ connectionState' = connectionState
      PROVE  Ending'
  <2>1. Stored' = Stored
    BY <1>3 DEF Stored
  <2>2. ASSUME NEW m \in Threads
        PROVE  /\ pc[m] = "done" => pc'[m] = "done"
               /\ pc'[m] \in {"end", "ended"} => pc[m] \in {"end", "ended"}
               /\ m \notin left' /\ pc'[m] \in After => connectionState'
    <3>1. CASE m = n
      BY <1>1, <1>3, <3>1 DEF Ending, StateKept
    <3>2. CASE m # n
      BY <1>1, <1>2, <1>3, <3>2 DEF After
    <3>3. QED
      BY <3>1, <3>2
  <2>3. QED
    BY <1>3, <2>1, <2>2, QuietStepKeepsEnding
<1>4. ASSUME UNCHANGED signals, NEW m \in Threads, (Told(m))' PROVE Told(m)
  BY <1>4 DEF Told
<1> USE DEF Goto, After, program, members, network, output
<1>5. CASE Begin(n)
  <2>1. /\ UNCHANGED <<received, buffer, read, data, left, peer, sent, signals>>
        /\ pc[n] = "begin"
        /\ pc' = [pc EXCEPT ![n] = "socket"] \/ pc' = [pc EXCEPT ![n] = "adopt"]
    BY <1>5 DEF Begin
  <2>2. QED
    BY <1>3, <1>4, <2>1
<1>6. CASE Adopt(n)
  BY <1>3, <1>4, <1>6 DEF Adopt
<1>7. CASE Socket(n)
  BY <1>3, <1>4, <1>7 DEF Socket
<1>8. CASE SocketFails(n)
  <2>1. /\ UNCHANGED <<received, buffer, read, data, left, peer, sent>>
        /\ pc[n] = "socket" /\ pc' = [pc EXCEPT ![n] = "failed"]
        /\ signals' = Append(signals, <<"error", n>>)
    BY <1>8 DEF SocketFails, Say
  <2>2. \A m \in Threads : (Told(m))' => Told(m)
    BY <2>1, SaidNothing
  <2>3. QED
    BY <1>3, <2>1, <2>2
<1>9. CASE Fail(n)
  BY <1>3, <1>4, <1>9 DEF Fail
<1>10. CASE Connect(n)
  <2>1. /\ UNCHANGED <<received, buffer, read, data, left, sent, signals, connectionState>>
        /\ pc[n] = "connect" /\ pc' = [pc EXCEPT ![n] = "set"]
        /\ \A m \in Threads : m # n => peer'[m] = peer[m]
    BY <1>1, <1>10 DEF Connect
  <2>2. Stored' = Stored
    BY <2>1 DEF Stored
  <2>3. \A m \in Threads : pc'[m] = pc[m] \/ (m = n /\ pc'[m] = "set")
    BY <1>1, <2>1
  <2>4. QED
    BY <1>4, <2>1, <2>2, <2>3, QuietStepKeepsEnding DEF Ending, StateKept
<1>11. CASE Established(n)
  BY <1>3, <1>4, <1>11 DEF Established
<1>12. CASE EmitConnected(n)
  <2>1. /\ UNCHANGED <<received, buffer, read, data, left, peer, sent, connectionState>>
        /\ pc[n] = "connected" /\ pc' = [pc EXCEPT ![n] = "recv"]
        /\ signals' = Append(signals, <<"connected", n>>)
    BY <1>12 DEF EmitConnected, Say
  <2>2. \A m \in Threads : (Told(m))' => Told(m)
    BY <2>1, SaidNothing
  <2>3. QED
    BY <1>3, <2>1, <2>2
<1>13. CASE Recv(n)
  BY <1>3, <1>4, <1>13 DEF Recv
<1>14. CASE RecvFails(n)
  BY <1>3, <1>4, <1>14 DEF RecvFails
<1>15. CASE EmitReady(n)
  BY <1>3, <1>4, <1>15 DEF EmitReady
<1>16. CASE CloseHandle(n)
  <2>1. /\ UNCHANGED <<received, buffer, read, data, left, peer, sent, signals, connectionState>>
        /\ \/ pc[n] = "end" /\ pc' = [pc EXCEPT ![n] = "ended"]
           \/ pc[n] = "broken" /\ pc' = [pc EXCEPT ![n] = "failure"]
    BY <1>16 DEF CloseHandle
  <2>2. QED
    BY <1>3, <1>4, <2>1
<1>17. QED
  BY <1>5, <1>6, <1>7, <1>8, <1>9, <1>10, <1>11, <1>12, <1>13, <1>14, <1>15, <1>16 DEF Run

\* recv returns bytes: they are taken only when they are stored.
LEMMA RecvKeepsEnding ==
    ASSUME TypeOK, OneReader, Descriptors, Order, Ending, NEW n \in Threads, RecvData(n)
    PROVE  Ending'
<1>1. /\ pc \in [Threads -> Labels] /\ received \in [Threads -> 0 .. MaxBytes]
      /\ pc[n] = "wait" /\ pc' = [pc EXCEPT ![n] = "got"]
      /\ UNCHANGED <<connectionState, read, data, left, peer, sent, signals>>
  BY DEF TypeOK, RecvData, Goto, members, program, output
<1>2. \A m \in Threads : (Taken(m))' = Taken(m)
  BY RecvFillsBuffer
<1>3. \A m \in Threads : m # n => pc'[m] = pc[m] /\ received'[m] = received[m]
  <2>1. fd[n] \in handles => fd[n] = n
    BY <1>1 DEF Descriptors, OwnDescriptor
  <2>2. QED
    BY <1>1, <2>1 DEF RecvData
<1>4. \A m : (Count(m))' = Count(m) /\ ((Told(m))' <=> Told(m))
  BY <1>1 DEF Count, BytesOf, Stored, Told
<1>5. pc'[n] = "got"
  BY <1>1
<1>6. StateKept' /\ NothingDropped'
  BY <1>1, <1>2, <1>3, <1>4, <1>5 DEF Ending, StateKept, NothingDropped, After
<1>7. AtTheEnd' /\ EndIsLast'
  BY <1>1, <1>3, <1>4, <1>5 DEF Ending, AtTheEnd, EndIsLast
<1>8. QED
  BY <1>6, <1>7 DEF Ending

\* recv returns 0 on the descriptor of the connection of its own thread.
LEMMA RecvEndKeepsEnding ==
    ASSUME TypeOK, OneReader, Descriptors, Ending, NEW n \in Threads, RecvEnd(n)
    PROVE  Ending'
<1>1. /\ pc \in [Threads -> Labels]
      /\ pc[n] = "wait" /\ pc' = [pc EXCEPT ![n] = "end"]
      /\ UNCHANGED <<connectionState, read, data, left, peer, sent, signals, received, buffer>>
  BY DEF TypeOK, RecvEnd, Goto, program, members, network, output
<1>2. peer[n] = "closed" /\ received[n] = sent[n]
  BY <1>1 DEF RecvEnd, Descriptors, OwnDescriptor
<1>3. \A m \in Threads : m # n => pc'[m] = pc[m]
  BY <1>1
<1>4. pc'[n] = "end"
  BY <1>1
<1>5. \A m : (Count(m))' = Count(m) /\ (Taken(m))' = Taken(m) /\ ((Told(m))' <=> Told(m))
  BY <1>1 DEF Count, BytesOf, Stored, Taken, Told
<1>6. StateKept' /\ NothingDropped'
  BY <1>1, <1>3, <1>4, <1>5 DEF Ending, StateKept, NothingDropped, After
<1>7. AtTheEnd' /\ EndIsLast'
  BY <1>1, <1>2, <1>3, <1>4, <1>5 DEF Ending, AtTheEnd, EndIsLast
<1>8. QED
  BY <1>6, <1>7 DEF Ending

\* Nothing is dropped of a connection the program did not cut off.
LEMMA StoreKeepsEnding ==
    ASSUME TypeOK, OneReader, Order, Ending, NEW n \in Threads, Store(n),
           Stored' = IF connectionState THEN Stored \o buffer[n] ELSE Stored
    PROVE  Ending'
<1> DEFINE b == buffer[n]
<1>1. /\ pc \in [Threads -> Labels] /\ pc[n] = "got"
      /\ received \in [Threads -> 0 .. MaxBytes] /\ buffer \in [Threads -> Seq(Bytes)]
      /\ buffer' = [buffer EXCEPT ![n] = <<>>]
      /\ pc' = [pc EXCEPT ![n] = IF connectionState THEN "ready" ELSE "recv"]
      /\ UNCHANGED <<connectionState, received, left, peer, sent, signals>>
  BY DEF TypeOK, Store, Goto, program, members, network
<1>2. \A m \in Threads : m # n => pc'[m] = pc[m] /\ (Taken(m))' = Taken(m)
  BY <1>1 DEF Taken
<1>3. pc'[n] \in {"ready", "recv"} /\ (n \notin left => connectionState)
  BY <1>1 DEF Ending, StateKept, After
<1>4. /\ Stored \in Seq(Bytes) /\ b \in Seq(Bytes) /\ Len(b) \in Nat
      /\ \A i \in 1 .. Len(b) : b[i][1] = n
  <2>1. Stored \in Seq(Bytes) /\ b \in Seq(Bytes)
    BY <1>1, StoredType
  <2>2. \A i \in 1 .. Len(b) : b[i] = <<n, Taken(n) + i>>
    BY DEF Order, BufferIsNext
  <2>3. \A x : <<n, x>>[1] = n
    OBVIOUS
  <2>4. QED
    BY <2>1, <2>2, <2>3, LenProperties
<1>5. (Taken(n))' = Taken(n) + Len(b)
  <2>1. (Taken(n))' = received[n]
    BY <1>1 DEF Taken
  <2>2. received[n] \in Nat
    BY <1>1
  <2>3. QED
    BY <1>4, <2>1, <2>2 DEF Taken
<1>6. /\ \A m \in Threads : m # n => (Count(m))' = Count(m)
      /\ n \notin left => (Count(n))' = Count(n) + Len(b)
  <2>1. CASE connectionState
    <3>1. Stored' = Stored \o b
      BY <2>1
    <3> HIDE DEF b
    <3>2. \A m : Cardinality(BytesOf(Stored \o b, m)) =
                    IF m = n THEN Cardinality(BytesOf(Stored, m)) + Len(b)
                             ELSE Cardinality(BytesOf(Stored, m))
      <4>1. AllOf(b, n)
        BY <1>4 DEF AllOf
      <4>2. QED
        BY <1>4, <4>1, BytesOfConcat
    <3>3. \A m : (Count(m))' = Cardinality(BytesOf(Stored', m))
      BY DEF Count, BytesOf
    <3>4. QED
      BY <3>1, <3>2, <3>3 DEF Count
  <2>2. CASE ~connectionState
    <3>1. Stored' = Stored
      BY <2>2
    <3>2. QED
      BY <1>3, <2>2, <3>1 DEF Count
  <2>3. QED
    BY <2>1, <2>2
<1>7. \A m \in Threads : (Told(m))' <=> Told(m)
  BY <1>1 DEF Told
<1>8. StateKept' /\ AtTheEnd'
  BY <1>1, <1>2, <1>3 DEF Ending, StateKept, AtTheEnd, After
<1>9. NothingDropped'
  <2>1. n \notin left => Count(n) = Taken(n)
    BY <1>1 DEF Ending, NothingDropped
  <2>2. QED
    BY <1>1, <1>2, <1>5, <1>6, <2>1 DEF Ending, NothingDropped
<1>10. EndIsLast'
  BY <1>1, <1>2, <1>6, <1>7 DEF Ending, EndIsLast
<1>11. QED
  BY <1>8, <1>9, <1>10 DEF Ending

\* disconnected is told when recv has returned 0, or after a close().
LEMMA FinishKeepsEnding ==
    ASSUME TypeOK, OneReader, Order, Ending, NEW n \in Threads, Finish(n)
    PROVE  Ending'
<1>1. /\ pc \in [Threads -> Labels] /\ pc[n] \in {"ended", "failure"}
      /\ pc' = [pc EXCEPT ![n] = "done"]
      /\ signals \in Seq({"connected", "disconnected", "error"} \X Threads)
      /\ received \in [Threads -> 0 .. MaxBytes]
      /\ UNCHANGED <<connectionState, read, data, received, buffer, left, peer, sent>>
  BY DEF TypeOK, Finish, Goto, program, members, network
<1>2. pc'[n] = "done" /\ \A m \in Threads : m # n => pc'[m] = pc[m]
  BY <1>1
<1>3. \A m : (Count(m))' = Count(m) /\ (Taken(m))' = Taken(m)
  BY <1>1 DEF Count, BytesOf, Stored, Taken
<1>4. StateKept' /\ NothingDropped' /\ AtTheEnd'
  BY <1>1, <1>2, <1>3 DEF Ending, StateKept, NothingDropped, AtTheEnd, After
<1>5. \A m \in Threads : m # n /\ (Told(m))' => Told(m)
  <2>1. SUFFICES ASSUME NEW m \in Threads, m # n, (Told(m))' PROVE Told(m)
    OBVIOUS
  <2>2. PICK what : signals' = Append(signals, <<what, n>>)
    BY DEF Finish, Say
  <2>3. PICK i \in 1 .. Len(signals') : signals'[i] = <<"disconnected", m>>
    BY <2>1 DEF Told
  <2>4. i \in 1 .. Len(signals) \/ i = Len(signals) + 1
    BY <1>1, <2>2, <2>3, AppendProperties
  <2>5. signals'[Len(signals) + 1] = <<what, n>>
    BY <1>1, <2>2, AppendProperties
  <2>6. i # Len(signals) + 1
    BY <2>1, <2>3, <2>5
  <2>7. signals'[i] = signals[i]
    BY <1>1, <2>2, <2>4, <2>6, AppendProperties
  <2>8. QED
    BY <2>3, <2>4, <2>6, <2>7 DEF Told
<1>6. (Told(n))' /\ n \notin left => peer[n] = "closed" /\ Count(n) = sent[n]
  <2> SUFFICES ASSUME (Told(n))', n \notin left
               PROVE  peer[n] = "closed" /\ Count(n) = sent[n]
    OBVIOUS
  <2>1. connectionState
    BY <1>1 DEF Ending, StateKept, After
  <2>2. ~Told(n)
    BY <1>1 DEF Ending, EndIsLast
  <2>3. pc[n] = "ended"
    <3>1. SUFFICES ASSUME pc[n] = "failure" PROVE FALSE
      BY <1>1
    <3>2. signals' = Append(signals, <<"error", n>>)
      BY <2>1, <3>1 DEF Finish, Say
    <3>3. QED
      BY <2>2, <3>2, SaidNothing
  <2>4. peer[n] = "closed" /\ received[n] = sent[n]
    BY <2>3 DEF Ending, AtTheEnd
  <2>5. Count(n) = Taken(n)
    BY <2>3 DEF Ending, NothingDropped
  <2>6. buffer[n] = <<>>
    BY <2>3 DEF Order, BufferIsNext
  <2>7. Taken(n) = received[n]
    BY <1>1, <2>6 DEF Taken
  <2>8. QED
    BY <2>4, <2>5, <2>7
<1>7. EndIsLast'
  <2>1. ASSUME NEW m \in Threads, (Told(m))'
        PROVE  pc'[m] = "done" /\ (m \notin left' => peer'[m] = "closed" /\ (Count(m))' = sent'[m])
    BY <1>1, <1>2, <1>3, <1>5, <1>6, <2>1 DEF Ending, EndIsLast
  <2>2. QED
    BY <2>1 DEF EndIsLast
<1>8. QED
  BY <1>4, <1>7 DEF Ending

LEMMA EndingStep ==
    TypeOK /\ OneReader /\ Descriptors /\ Order /\ Ending /\ [Next]_vars => Ending'
<1> SUFFICES ASSUME TypeOK, OneReader, Descriptors, Order, Ending, [Next]_vars PROVE Ending'
  OBVIOUS
<1>0. /\ pc \in [Threads -> Labels] /\ sent \in [Threads -> 0 .. MaxBytes]
      /\ peer \in [Threads -> {"none", "open", "refused", "closed", "reset"}]
  BY DEF TypeOK
<1>1. ASSUME UNCHANGED signals, NEW m \in Threads, (Told(m))' PROVE Told(m)
  BY <1>1 DEF Told
\* A step that leaves the readers alone and, if it clears connectionState,
\* counts the one that runs among those cut off.
<1>2. ASSUME UNCHANGED <<pc, received, buffer, peer, sent, signals>>, Stored' = Stored,
             left \subseteq left',
             \A n \in Threads \ left : pc[n] \in After /\ connectionState =>
                                          connectionState' \/ n \in left'
      PROVE  Ending'
  BY <1>1, <1>2, QuietStepKeepsEnding DEF Ending, StateKept
\* A step that starts a thread when none runs.
<1>3. ASSUME UNCHANGED <<received, buffer, read, data, sent, signals, left>>,
             \A n \in Threads : pc[n] \in {"none", "done"},
             \A n \in Threads : /\ pc'[n] = pc[n] \/ (pc[n] = "none" /\ pc'[n] = "begin")
                                /\ pc[n] = "done" => peer'[n] = peer[n]
      PROVE  Ending'
  <2>1. Stored' = Stored
    BY <1>3 DEF Stored
  <2>2. \A n \in Threads : pc'[n] \in {"none", "begin", "done"} /\ (pc[n] = "done" => pc'[n] = "done")
    BY <1>3
  <2>3. QED
    BY <1>1, <1>3, <2>1, <2>2, QuietStepKeepsEnding DEF After
<1>4. CASE Accept
  <2>1. \A n \in Threads : pc[n] \in {"none", "done"}
    BY <1>4, NobodyRuns DEF Accept
  <2>2. /\ \A n \in Threads : /\ pc'[n] = pc[n] \/ (pc[n] = "none" /\ pc'[n] = "begin")
                              /\ pc[n] = "done" => peer'[n] = peer[n]
        /\ UNCHANGED <<received, buffer, read, data, sent, signals, left>>
    BY <1>0, <1>4 DEF Accept, output
  <2>3. QED
    BY <1>3, <2>1, <2>2
<1>5. CASE JoinThread
  <2>1. \A n \in Threads : pc[n] \in {"none", "done"}
    BY <1>5, NobodyRuns DEF JoinThread
  <2>2. UNCHANGED <<received, buffer, read, data, sent, signals, left, peer>>
    BY <1>5 DEF JoinThread, members, network, output
  <2>3. \A n \in Threads : pc'[n] = pc[n] \/ (pc[n] = "none" /\ pc'[n] = "begin")
    <3>1. ASSUME NEW k \in Threads, pc[k] = "none", pc' = [pc EXCEPT ![k] = "begin"]
          PROVE  \A n \in Threads : pc'[n] = pc[n] \/ (pc[n] = "none" /\ pc'[n] = "begin")
      BY <1>0, <3>1
    <3>2. QED
      BY <1>5, <3>1 DEF JoinThread
  <2>4. QED
    BY <1>3, <2>1, <2>2, <2>3
<1>6. ASSUME NEW n \in Threads, Run(n) PROVE Ending'
  <2>1. CASE Store(n)
    BY <2>1, StoreStores, StoreKeepsEnding
  <2>2. CASE RecvData(n) \/ RecvEnd(n) \/ Finish(n)
    BY <2>2, RecvKeepsEnding, RecvEndKeepsEnding, FinishKeepsEnding
  <2>3. QED
    BY <1>6, <2>1, <2>2, QuietReaderKeepsEnding
<1>7. CASE Read
  <2>1. UNCHANGED <<pc, received, buffer, peer, sent, signals, left, connectionState>>
    BY <1>7 DEF Read, members, network, reader
  <2>2. Stored' = Stored
    BY <1>7, <2>1, ReadStoresNothing
  <2>3. QED
    BY <1>2, <2>1, <2>2
<1>8. ASSUME UNCHANGED <<reader, network, output, read>>,
             connectionState' = connectionState \/ left' = left \cup ({thread} \ {None}),
             left \subseteq left'
      PROVE  Ending'
  <2>1. \A n \in Threads : pc[n] \in After => n \in {thread} \ {None}
    BY DEF OneReader, After, None, Threads
  <2>2. Stored' = Stored
    BY <1>8 DEF output, Stored
  <2>3. QED
    BY <1>2, <1>8, <2>1, <2>2 DEF reader, network, output
<1>9. CASE Open \/ Reset \/ CloseJoins \/ \E op \in {"close", "destroy"} : Close(op)
  <2>1. CASE Open \/ CloseJoins
    BY <1>8, <2>1 DEF Open, CloseJoins, members
  <2>2. CASE Reset
    BY <1>8, <2>2 DEF Reset
  <2>3. ASSUME NEW op \in {"close", "destroy"}, Close(op) PROVE Ending'
    <3>1. /\ UNCHANGED <<reader, network, output, read>>
          /\ left \subseteq left' /\ connectionState \in BOOLEAN
          /\ connectionState' = FALSE
          /\ connectionState => left' = left \cup ({thread} \ {None})
      BY <2>3 DEF Close, TypeOK
    <3>2. QED
      BY <1>8, <3>1
  <2>4. QED
    BY <1>9, <2>1, <2>2, <2>3
<1>10. CASE Shutdown \/ SlotBegins \/ SlotEnds
  <2>1. UNCHANGED <<pc, received, buffer, peer, sent, signals, left, connectionState, read, data>>
    BY <1>10 DEF Shutdown, SlotBegins, SlotEnds, members, network, reader, output
  <2>2. QED
    BY <1>2, <2>1 DEF Stored
<1>11. ASSUME NEW n \in Threads, PeerSends(n) \/ PeerEnds(n) PROVE Ending'
  <2>1. /\ UNCHANGED <<pc, received, buffer, signals, left, connectionState, read, data>>
        /\ \A m \in Threads : peer[m] = "closed" => peer'[m] = "closed" /\ sent'[m] = sent[m]
    BY <1>0, <1>11 DEF PeerSends, PeerEnds, program, members, reader, output
  <2>2. QED
    BY <1>1, <2>1, QuietStepKeepsEnding DEF Stored, Ending, StateKept
<1>12. CASE UNCHANGED vars
  BY <1>2, <1>12 DEF vars, members, program, network, reader, output, Stored
<1>13. QED
  BY <1>4, <1>5, <1>6, <1>7, <1>9, <1>10, <1>11, <1>12 DEF Next, Program

LEMMA EndingInit == Init => Ending
<1> SUFFICES ASSUME Init PROVE Ending
  OBVIOUS
<1>1. Stored = <<>> /\ signals = <<>> /\ Len(signals) = 0
  BY ConcatEmptySeq, EmptySeq DEF Init, Stored
<1>2. \A n : BytesOf(Stored, n) = {}
  BY <1>1 DEF BytesOf
<1>3. \A n \in Threads : Count(n) = 0 /\ Taken(n) = 0 /\ ~Told(n) /\ pc[n] = "none"
  <2>1. Cardinality({}) = 0
    BY FS_EmptySet
  <2>2. \A n \in Threads : Count(n) = 0
    BY <1>2, <2>1, Zenon DEF Count
  <2>3. \A n \in Threads : Taken(n) = 0
    BY DEF Init, Taken
  <2>4. QED
    BY <1>1, <2>2, <2>3 DEF Init, Told
<1>4. QED
  BY <1>3 DEF Ending, StateKept, NothingDropped, AtTheEnd, EndIsLast, After

LEMMA EndingInvariance == Spec => []Ending
BY EndingInit, EndingStep, OrderInvariance, PTL DEF Spec

\* However the peers send and close, and whatever the program opens and closes
\* meanwhile: after disconnected nothing is missing of a connection that the
\* program did not cut off.
THEOREM NothingIsMissed == Spec => []EndAfterData
<1>1. Ending => EndAfterData
  <2> SUFFICES ASSUME Ending, NEW n \in Threads \ left, Told(n)
               PROVE  sent[n] = Count(n)
    BY DEF EndAfterData, Told, Count, BytesOf, Stored
  <2>1. QED
    BY DEF Ending, EndIsLast
<1>2. QED
  BY <1>1, EndingInvariance, PTL
=============================================================================
