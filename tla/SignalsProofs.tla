---------------------------- MODULE SignalsProofs ----------------------------
(***************************************************************************)
(* Proofs about EBEvent and its connections, for any receivers, any number *)
(* of threads, and any number of connections and emissions.                *)
(***************************************************************************)
EXTENDS Signals, SequenceTheorems, TLAPS

\* A suffix, element by element.
LEMMA SuffixElements ==
    ASSUME NEW S, NEW s \in Seq(S), NEW t \in Seq(S)
    PROVE  IsSuffix(s, t) <=>
              /\ Len(s) <= Len(t)
              /\ \A i \in 1 .. Len(s) : s[i] = t[Len(t) - Len(s) + i]
<1> DEFINE rs == Reverse(s)
           rt == Reverse(t)
<1>1. /\ Len(s) \in Nat /\ Len(t) \in Nat
      /\ rs \in Seq(S) /\ rt \in Seq(S)
      /\ Len(rs) = Len(s) /\ Len(rt) = Len(t)
      /\ \A i \in 1 .. Len(s) : rs[i] = s[Len(s) - i + 1]
      /\ \A i \in 1 .. Len(t) : rt[i] = t[Len(t) - i + 1]
  BY DEF Reverse
<1>2. IsSuffix(s, t) <=>
         Len(s) <= Len(t) /\ SubSeq(rs, 1, Len(s)) = SubSeq(rt, 1, Len(s))
  BY <1>1 DEF IsSuffix, IsPrefix
<1>3. ASSUME Len(s) <= Len(t)
      PROVE  SubSeq(rs, 1, Len(s)) = SubSeq(rt, 1, Len(s)) <=>
                \A i \in 1 .. Len(s) : rs[i] = rt[i]
  <2> HIDE DEF rs, rt
  <2>1. /\ SubSeq(rs, 1, Len(s)) = [i \in 1 .. Len(s) |-> rs[i]]
        /\ SubSeq(rt, 1, Len(s)) = [i \in 1 .. Len(s) |-> rt[i]]
    BY <1>1, <1>3
  <2> DEFINE front(q) == [i \in 1 .. Len(s) |-> q[i]]
  <2>2. ASSUME front(rs) = front(rt), NEW i \in 1 .. Len(s)
        PROVE  rs[i] = rt[i]
    <3>1. front(rs)[i] = rs[i] /\ front(rt)[i] = rt[i]
      OBVIOUS
    <3>2. QED
      BY <2>2, <3>1
  <2>3. (\A i \in 1 .. Len(s) : rs[i] = rt[i]) => front(rs) = front(rt)
    OBVIOUS
  <2> HIDE DEF front
  <2>4. (\A i \in 1 .. Len(s) : rs[i] = rt[i]) <=> front(rs) = front(rt)
    BY <2>2, <2>3
  <2>5. SubSeq(rs, 1, Len(s)) = front(rs) /\ SubSeq(rt, 1, Len(s)) = front(rt)
    BY <2>1 DEF front
  <2>6. QED
    BY <2>4, <2>5
<1>4. ASSUME Len(s) <= Len(t)
      PROVE  (\A i \in 1 .. Len(s) : rs[i] = rt[i]) <=>
                \A i \in 1 .. Len(s) : s[i] = t[Len(t) - Len(s) + i]
  <2> HIDE DEF rs, rt
  <2>1. ASSUME \A i \in 1 .. Len(s) : rs[i] = rt[i], NEW i \in 1 .. Len(s)
        PROVE  s[i] = t[Len(t) - Len(s) + i]
    <3>1. Len(s) - i + 1 \in 1 .. Len(s)
      BY <1>1
    <3> DEFINE k == Len(s) - i + 1
    <3>2. k \in 1 .. Len(s) /\ k \in 1 .. Len(t)
      BY <1>1, <1>4, <3>1
    <3>3. Len(s) - k + 1 = i /\ Len(t) - k + 1 = Len(t) - Len(s) + i
      BY <1>1
    <3> HIDE DEF k
    <3>4. rs[k] = s[Len(s) - k + 1] /\ rt[k] = t[Len(t) - k + 1]
      BY <1>1, <3>2
    <3>5. QED
      BY <2>1, <3>2, <3>3, <3>4
  <2>2. ASSUME \A i \in 1 .. Len(s) : s[i] = t[Len(t) - Len(s) + i], NEW i \in 1 .. Len(s)
        PROVE  rs[i] = rt[i]
    <3>1. Len(s) - i + 1 \in 1 .. Len(s)
      BY <1>1
    <3>2. s[Len(s) - i + 1] = t[Len(t) - Len(s) + (Len(s) - i + 1)]
      BY <2>2, <3>1
    <3>3. rs[i] = s[Len(s) - i + 1] /\ rt[i] = t[Len(t) - i + 1]
      BY <1>1, <1>4
    <3>4. QED
      BY <1>1, <3>2, <3>3
  <2>3. QED
    BY <2>1, <2>2
<1>5. QED
  <2> HIDE DEF rs, rt
  <2>1. QED
    BY <1>2, <1>3, <1>4

\* What is left of a walk after a step of it is still a suffix.
LEMMA SuffixTail ==
    ASSUME NEW S, NEW s \in Seq(S), NEW t \in Seq(S), s # <<>>, IsSuffix(s, t)
    PROVE  IsSuffix(Tail(s), t)
<1>1. /\ Tail(s) \in Seq(S) /\ Len(s) \in Nat /\ Len(t) \in Nat
      /\ Len(Tail(s)) = Len(s) - 1
      /\ \A i \in 1 .. Len(Tail(s)) : Tail(s)[i] = s[i + 1]
  BY HeadTailProperties, LenProperties
<1>2. /\ Len(s) <= Len(t)
      /\ \A i \in 1 .. Len(s) : s[i] = t[Len(t) - Len(s) + i]
  BY SuffixElements
<1>3. ASSUME NEW i \in 1 .. Len(Tail(s))
      PROVE  Tail(s)[i] = t[Len(t) - Len(Tail(s)) + i]
  <2>1. i + 1 \in 1 .. Len(s)
    BY <1>1
  <2>2. Tail(s)[i] = s[i + 1] /\ s[i + 1] = t[Len(t) - Len(s) + (i + 1)]
    BY <1>1, <1>2, <2>1
  <2>3. QED
    BY <1>1, <2>2
<1>4. Len(Tail(s)) <= Len(t)
  BY <1>1, <1>2
<1>5. QED
  <2> DEFINE r == Tail(s)
  <2>1. r \in Seq(S) /\ Len(r) <= Len(t) /\ \A i \in 1 .. Len(r) : r[i] = t[Len(t) - Len(r) + i]
    BY <1>1, <1>3, <1>4
  <2> HIDE DEF r
  <2>2. IsSuffix(r, t)
    BY <2>1, SuffixElements
  <2>3. QED
    BY <2>2 DEF r

LEMMA SuffixOfItself ==
    ASSUME NEW S, NEW t \in Seq(S)
    PROVE  IsSuffix(t, t)
<1>1. Len(t) \in Nat /\ \A i \in 1 .. Len(t) : Len(t) - Len(t) + i = i
  BY LenProperties
<1>2. QED
  BY <1>1, SuffixElements
-----------------------------------------------------------------------------
\* The inductive invariant.

\* Only the thread that holds the mutex walks, and it has begun an emission.
WalkBegun == \A t \in Threads : todo[t] # <<>> => mutex = t /\ emissions > 0

\* Connections are numbered in the order they were made, the numbers to come
\* are free, and a connection in the list has not been removed.
Numbered ==
    /\ \A i, j \in 1 .. Len(connections) :
          i < j => connections[i].id < connections[j].id
    /\ \A i \in 1 .. Len(connections) :
          /\ connections[i].id <= connects
          /\ removedAt[connections[i].id] = MaxEmissions
    /\ \A n \in 1 .. MaxConnects : n > connects => removedAt[n] = MaxEmissions

\* The calls in the queue belong to emissions begun, and those of the walk
\* under way are for connections before the ones that are left.
PostedInOrder ==
    /\ \A i \in 1 .. Len(queue) : queue[i].emission <= emissions
    /\ \A t \in Threads : \A i \in 1 .. Len(queue) : \A k \in 1 .. Len(todo[t]) :
          queue[i].emission = emissions => queue[i].connection.id < todo[t][k].id

\* A managed receiver stays while it is connected.
ConnectedStays == \A i \in 1 .. Len(connections) :
    connections[i].receiver \in Managed => connections[i].receiver \in inMemory

Inv == /\ Typed /\ SlotOfHead /\ WalkBegun /\ WalkIsValid /\ Numbered /\ PostedInOrder
       /\ EmissionsInOrder /\ NoEmissionAfterDisconnect
       /\ ConnectedStays /\ ManagedReceiverStays
-----------------------------------------------------------------------------
\* Type correctness.

LEMMA SeqTypes ==
    ASSUME Typed
    PROVE  /\ connections \in Seq(Connection) /\ queue \in Seq(SlotCall)
           /\ \A t \in Threads : todo[t] \in Seq(Connection)
           /\ \A i \in 1 .. Len(connections) : connections[i] \in Connection
           /\ \A i \in 1 .. Len(queue) : queue[i] \in SlotCall
BY ElementOfSeq DEF Typed

LEMMA CounterTypes ==
    ASSUME Typed
    PROVE  /\ connects \in Nat /\ MaxConnects \in Nat
           /\ emissions \in 0 .. MaxEmissions /\ emissions \in Nat /\ MaxEmissions \in Nat
           /\ removedAt \in [1 .. MaxConnects -> 0 .. MaxEmissions]
<1>1. /\ connects \in 0 .. MaxConnects /\ emissions \in 0 .. MaxEmissions
      /\ removedAt \in [1 .. MaxConnects -> 0 .. MaxEmissions]
  BY DEF Typed
<1>2. QED
  BY <1>1, SignalsAssumption

LEMMA RemoveType ==
    ASSUME NEW S, NEW s \in Seq(S), NEW i \in 1 .. Len(s)
    PROVE  /\ RemoveAt(s, i) \in Seq(S)
           /\ Len(RemoveAt(s, i)) = Len(s) - 1
           /\ \A j \in 1 .. Len(s) - 1 :
                 RemoveAt(s, i)[j] = IF j < i THEN s[j] ELSE s[j + 1]
<1> DEFINE front == SubSeq(s, 1, i - 1)
           back == SubSeq(s, i + 1, Len(s))
<1>1. Len(s) \in Nat /\ i \in Nat /\ \A j \in 1 .. Len(s) : s[j] \in S
  BY LenProperties, ElementOfSeq
<1>2. /\ front \in Seq(S) /\ Len(front) = i - 1
      /\ \A j \in 1 .. i - 1 : front[j] = s[j]
  BY <1>1, SubSeqProperties
<1>3. /\ back \in Seq(S) /\ Len(back) = Len(s) - i
      /\ \A j \in 1 .. Len(s) - i : back[j] = s[i + j]
  BY <1>1, SubSeqProperties
<1> HIDE DEF front, back
<1>4. /\ front \o back \in Seq(S) /\ Len(front \o back) = Len(s) - 1
      /\ \A j \in 1 .. Len(s) - 1 :
            (front \o back)[j] = IF j < i THEN s[j] ELSE s[j + 1]
  <2>1. /\ front \o back \in Seq(S) /\ Len(front \o back) = Len(front) + Len(back)
        /\ \A j \in 1 .. Len(front) + Len(back) :
              (front \o back)[j] = IF j <= Len(front) THEN front[j]
                                    ELSE back[j - Len(front)]
    BY <1>2, <1>3, ConcatProperties
  <2>2. ASSUME NEW j \in 1 .. Len(s) - 1
        PROVE  (front \o back)[j] = IF j < i THEN s[j] ELSE s[j + 1]
    <3>1. CASE j < i
      BY <1>1, <1>2, <1>3, <2>1, <3>1
    <3>2. CASE ~(j < i)
      <4>1. j - (i - 1) \in 1 .. Len(s) - i /\ i + (j - (i - 1)) = j + 1
        BY <1>1, <3>2
      <4>2. back[j - (i - 1)] = s[j + 1]
        BY <1>3, <4>1
      <4>3. (front \o back)[j] = back[j - (i - 1)]
        BY <1>1, <1>2, <1>3, <2>1, <3>2
      <4>4. QED
        BY <3>2, <4>2, <4>3
    <3>3. QED
      BY <3>1, <3>2
  <2>3. QED
    BY <1>1, <1>2, <1>3, <2>1, <2>2
<1>5. QED
  BY <1>4 DEF RemoveAt, front, back

\* Disconnect(), as what it removes.
LEMMA DisconnectRemoves ==
    ASSUME Typed, NEW t \in Threads, NEW r \in Receivers, Disconnect(t, r)
    PROVE  \E i \in 1 .. Len(connections) :
              /\ connections[i] \in Connection
              /\ connections' = RemoveAt(connections, i)
              /\ removedAt' = [removedAt EXCEPT ![connections[i].id] = emissions]
BY SeqTypes DEF Disconnect

LEMMA TypeStep == Typed /\ SlotOfHead /\ WalkBegun /\ [Next]_vars => Typed'
<1> SUFFICES ASSUME Typed, SlotOfHead, WalkBegun, [Next]_vars PROVE Typed'
  OBVIOUS
<1> USE SignalsAssumption DEF Typed, receivers, counters
<1>1. ASSUME NEW t \in Threads, NEW r \in Receivers, Connect(t, r) PROVE Typed'
  <2>1. [id |-> connects + 1, receiver |-> r] \in Connection /\ connects + 1 \in 0 .. MaxConnects
    BY <1>1 DEF Connect, Connection
  <2>2. connections' \in Seq(Connection)
    BY <1>1, <2>1, AppendProperties DEF Connect
  <2>3. QED
    BY <1>1, <2>1, <2>2 DEF Connect
<1>2. ASSUME NEW t \in Threads, NEW r \in Receivers, Disconnect(t, r) PROVE Typed'
  <2>1. PICK i \in 1 .. Len(connections) :
          /\ connections[i] \in Connection
          /\ connections' = RemoveAt(connections, i)
          /\ removedAt' = [removedAt EXCEPT ![connections[i].id] = emissions]
    BY <1>2, DisconnectRemoves
  <2>2. connections' \in Seq(Connection)
    BY <2>1, RemoveType
  <2>3. removedAt' \in [1 .. MaxConnects -> 0 .. MaxEmissions]
    BY <2>1
  <2>4. QED
    BY <1>2, <2>2, <2>3 DEF Disconnect
<1>3. ASSUME NEW t \in Threads, DisconnectAll(t) PROVE Typed'
  <2>1. removedAt' \in [1 .. MaxConnects -> 0 .. MaxEmissions] /\ connections' \in Seq(Connection)
    BY <1>3, EmptySeq DEF DisconnectAll
  <2>2. QED
    BY <1>3, <2>1 DEF DisconnectAll
<1>4. ASSUME NEW t \in Threads, NEW r \in Receivers, LetGo(t, r) \/ EndScope(t, r)
      PROVE  Typed'
  BY <1>4 DEF LetGo, EndScope
<1>5. ASSUME NEW t \in Threads, EmitBegin(t) PROVE Typed'
  <2>1. todo' \in [Threads -> Seq(Connection)]
    BY <1>5 DEF EmitBegin
  <2>2. emissions' \in 0 .. MaxEmissions /\ mutex' \in Threads \cup {None}
    BY <1>5 DEF EmitBegin
  <2>3. QED
    BY <1>5, <2>1, <2>2 DEF EmitBegin
<1>6. ASSUME NEW t \in Threads, EmitNext(t) PROVE Typed'
  <2>1. /\ todo[t] \in Seq(Connection) /\ todo[t] # <<>>
        /\ queue' = Append(queue, [connection |-> Head(todo[t]), emission |-> emissions])
        /\ todo' = [todo EXCEPT ![t] = Tail(todo[t])]
    BY <1>6 DEF EmitNext
  <2>2. Head(todo[t]) \in Connection /\ Tail(todo[t]) \in Seq(Connection)
    BY <2>1, HeadTailProperties
  <2>3. emissions \in 1 .. MaxEmissions
    BY <2>1 DEF WalkBegun
  <2>4. queue' \in Seq(SlotCall)
    BY <2>1, <2>2, <2>3, AppendProperties DEF SlotCall
  <2>5. QED
    BY <1>6, <2>1, <2>2, <2>4 DEF EmitNext
<1>7. ASSUME NEW t \in Threads, EmitEnd(t) PROVE Typed'
  BY <1>7 DEF EmitEnd
<1>8. CASE CallSlot
  BY <1>8 DEF CallSlot
<1>9. CASE SlotReturns
  <2>1. queue' \in Seq(SlotCall)
    BY <1>9, HeadTailProperties DEF SlotReturns, SlotOfHead
  <2>2. QED
    BY <1>9, <2>1 DEF SlotReturns
<1>10. ASSUME NEW r \in Managed, DestroyManaged(r) PROVE Typed'
  BY <1>10 DEF DestroyManaged
<1>11. CASE UNCHANGED vars
  BY <1>11 DEF vars
<1>12. QED
  BY <1>1, <1>2, <1>3, <1>4, <1>5, <1>6, <1>7, <1>8, <1>9, <1>10, <1>11
  DEF Next, ThreadStep

-----------------------------------------------------------------------------
\* What the invariant says of the walk under way, element by element.
LEMMA WalkElements ==
    ASSUME Inv, NEW t \in Threads, todo[t] # <<>>
    PROVE  /\ mutex = t
           /\ todo[t] \in Seq(Connection) /\ connections \in Seq(Connection)
           /\ Len(todo[t]) \in Nat \ {0}
           /\ \A k \in 1 .. Len(todo[t]) :
                 \E j \in 1 .. Len(connections) : todo[t][k] = connections[j]
           /\ \A k, m \in 1 .. Len(todo[t]) :
                 k < m => todo[t][k].id < todo[t][m].id
<1> DEFINE s == todo[t]
           d == Len(connections) - Len(s)
<1>1. /\ s \in Seq(Connection) /\ connections \in Seq(Connection)
      /\ mutex = t /\ IsSuffix(s, connections) /\ s # <<>>
  BY SeqTypes DEF Inv, WalkIsValid
<1> HIDE DEF s
<1>2. Len(s) \in Nat \ {0} /\ Len(connections) \in Nat
  BY <1>1, LenProperties, EmptySeq
<1>3. /\ Len(s) <= Len(connections)
      /\ \A k \in 1 .. Len(s) : s[k] = connections[d + k]
  BY <1>1, SuffixElements
<1>4. /\ d \in Nat
      /\ \A k \in 1 .. Len(s) : d + k \in 1 .. Len(connections)
      /\ \A k, m \in 1 .. Len(s) : k < m => d + k < d + m
  BY <1>2, <1>3
<1> HIDE DEF d
<1>5. ASSUME NEW k \in 1 .. Len(s), NEW m \in 1 .. Len(s), k < m
      PROVE  s[k].id < s[m].id
  <2>1. connections[d + k].id < connections[d + m].id
    BY <1>4, <1>5 DEF Inv, Numbered
  <2>2. QED
    BY <1>3, <2>1
<1>6. QED
  BY <1>1, <1>2, <1>3, <1>4, <1>5 DEF s

\* While nobody holds the mutex nobody walks.
LEMMA NoWalk == Inv /\ mutex = None => \A t \in Threads : todo[t] = <<>>
BY SignalsAssumption DEF Inv, WalkBegun, Threads

LEMMA ConnectStep ==
    ASSUME Inv, Typed', NEW t \in Threads, NEW r \in Receivers, Connect(t, r)
    PROVE  Inv'
<1> DEFINE c == [id |-> connects + 1, receiver |-> r]
<1>1. /\ mutex = None /\ r \in inMemory /\ connects < MaxConnects
      /\ connects' = connects + 1 /\ connections' = Append(connections, c)
      /\ UNCHANGED <<mutex, todo, queue, inSlot, inMemory, emissions, removedAt>>
  BY DEF Connect, receivers
<1>2. \A u \in Threads : todo[u] = <<>>
  BY <1>1, NoWalk
<1>3. connects \in Nat /\ MaxConnects \in Nat /\ Len(connections) \in Nat
  BY SignalsAssumption DEF Inv, Typed
<1>4. /\ Len(connections') = Len(connections) + 1
      /\ \A i \in 1 .. Len(connections) : connections'[i] = connections[i]
      /\ connections'[Len(connections) + 1] = c
      /\ c.id = connects + 1 /\ c.receiver = r
  <2>1. c \in Connection /\ connections \in Seq(Connection)
    BY <1>1, <1>3 DEF Inv, Typed, Connection
  <2>2. QED
    BY <1>1, <2>1, AppendProperties
<1> HIDE DEF c
<1>5. \A i \in 1 .. Len(connections) : connections[i].id \in Nat /\ connections[i].id <= connects
  BY SeqTypes DEF Inv, Numbered, Connection
<1>6. Numbered'
  <2>1. ASSUME NEW i \in 1 .. Len(connections'), NEW j \in 1 .. Len(connections'), i < j
        PROVE  connections'[i].id < connections'[j].id
    <3>1. i \in 1 .. Len(connections) /\ (j \in 1 .. Len(connections) \/ j = Len(connections) + 1)
      BY <1>3, <1>4, <2>1
    <3>2. CASE j \in 1 .. Len(connections)
      BY <1>4, <2>1, <3>1, <3>2 DEF Inv, Numbered
    <3>3. CASE j = Len(connections) + 1
      BY <1>3, <1>4, <1>5, <3>1, <3>3
    <3>4. QED
      BY <3>1, <3>2, <3>3
  <2>2. ASSUME NEW i \in 1 .. Len(connections')
        PROVE  connections'[i].id <= connects' /\ removedAt'[connections'[i].id] = MaxEmissions
    <3>1. i \in 1 .. Len(connections) \/ i = Len(connections) + 1
      BY <1>3, <1>4
    <3>2. CASE i \in 1 .. Len(connections)
      <4>1. connections'[i].id = connections[i].id
        BY <1>4, <3>2
      <4>2. connections[i].id <= connects' /\ removedAt'[connections[i].id] = MaxEmissions
        BY <1>1, <1>3, <1>5, <3>2 DEF Inv, Numbered
      <4>3. QED
        BY <4>1, <4>2
    <3>3. CASE i = Len(connections) + 1
      <4>1. connects + 1 \in 1 .. MaxConnects /\ connects + 1 > connects
        BY <1>1, <1>3
      <4>2. removedAt'[connects + 1] = MaxEmissions
        BY <1>1, <4>1 DEF Inv, Numbered
      <4>3. QED
        BY <1>1, <1>3, <1>4, <3>3, <4>2
    <3>4. QED
      BY <3>1, <3>2, <3>3
  <2>3. \A n \in 1 .. MaxConnects : n > connects' => removedAt'[n] = MaxEmissions
    BY <1>1, <1>3 DEF Inv, Numbered
  <2>4. QED
    BY <2>1, <2>2, <2>3 DEF Numbered
<1>7. ConnectedStays'
  BY <1>1, <1>3, <1>4 DEF Inv, ConnectedStays
<1>8. WalkBegun' /\ WalkIsValid'
  BY <1>1, <1>2 DEF WalkBegun, WalkIsValid
<1>9. /\ SlotOfHead' /\ PostedInOrder' /\ EmissionsInOrder'
      /\ NoEmissionAfterDisconnect' /\ ManagedReceiverStays'
  BY <1>1 DEF Inv, SlotOfHead, PostedInOrder, EmissionsInOrder, NoEmissionAfterDisconnect, ManagedReceiverStays
<1>10. QED
  BY <1>6, <1>7, <1>8, <1>9 DEF Inv

LEMMA DisconnectStep ==
    ASSUME Inv, Typed', NEW t \in Threads, NEW r \in Receivers, Disconnect(t, r)
    PROVE  Inv'
<1>1. /\ mutex = None
      /\ UNCHANGED <<mutex, todo, queue, inSlot, inMemory, connects, emissions>>
  BY DEF Disconnect, receivers, counters
<1>2. \A u \in Threads : todo[u] = <<>>
  BY <1>1, NoWalk
<1>3. PICK i \in 1 .. Len(connections) :
        /\ connections[i] \in Connection
        /\ connections' = RemoveAt(connections, i)
        /\ removedAt' = [removedAt EXCEPT ![connections[i].id] = emissions]
  BY DisconnectRemoves DEF Inv
<1> DEFINE Old(j) == IF j < i THEN j ELSE j + 1
<1>4. Len(connections) \in Nat /\ i \in Nat /\ connections \in Seq(Connection)
  BY DEF Inv, Typed
<1>5. /\ Len(connections') = Len(connections) - 1
      /\ \A j \in 1 .. Len(connections') : connections'[j] = connections[Old(j)]
      /\ \A j \in 1 .. Len(connections') : Old(j) \in 1 .. Len(connections) /\ Old(j) # i
      /\ \A j, k \in 1 .. Len(connections') : j < k => Old(j) < Old(k)
  <2>1. /\ Len(connections') = Len(connections) - 1
        /\ \A j \in 1 .. Len(connections) - 1 :
              connections'[j] = IF j < i THEN connections[j] ELSE connections[j + 1]
    BY <1>3, <1>4, RemoveType
  <2>2. QED
    BY <1>4, <2>1
<1>6. /\ emissions \in 0 .. MaxEmissions /\ MaxEmissions \in Nat
      /\ removedAt \in [1 .. MaxConnects -> 0 .. MaxEmissions]
      /\ connections[i].id \in 1 .. MaxConnects /\ connections[i].id <= connects
      /\ connects \in Nat /\ MaxConnects \in Nat
  <2>1. connections[i].id \in 1 .. MaxConnects
    BY <1>3 DEF Connection
  <2>2. connections[i].id <= connects
    BY <1>3 DEF Inv, Numbered
  <2>3. Typed
    BY DEF Inv
  <2>4. QED
    BY <2>1, <2>2, <2>3, CounterTypes
<1>7. \A j \in 1 .. Len(connections) : connections[j].id \in Int
  BY SeqTypes DEF Inv, Connection
<1>8. ASSUME NEW j \in 1 .. Len(connections) PROVE j # i => connections[j].id # connections[i].id
  <2>1. j < i => connections[j].id < connections[i].id
    BY DEF Inv, Numbered
  <2>2. i < j => connections[i].id < connections[j].id
    BY DEF Inv, Numbered
  <2>3. QED
    BY <1>4, <1>7, <2>1, <2>2
<1> HIDE DEF Old
<1>9. Numbered'
  <2>1. ASSUME NEW j \in 1 .. Len(connections'), NEW k \in 1 .. Len(connections'), j < k
        PROVE  connections'[j].id < connections'[k].id
    <3>1. Old(j) < Old(k) /\ Old(j) \in 1 .. Len(connections) /\ Old(k) \in 1 .. Len(connections)
      BY <1>5, <2>1
    <3>2. connections[Old(j)].id < connections[Old(k)].id
      BY <3>1 DEF Inv, Numbered
    <3>3. QED
      BY <1>5, <3>2
  <2>2. ASSUME NEW j \in 1 .. Len(connections')
        PROVE  connections'[j].id <= connects' /\ removedAt'[connections'[j].id] = MaxEmissions
    <3>1. Old(j) \in 1 .. Len(connections) /\ Old(j) # i /\ connections'[j] = connections[Old(j)]
      BY <1>5
    <3>2. /\ connections[Old(j)].id <= connects
          /\ removedAt[connections[Old(j)].id] = MaxEmissions
          /\ connections[Old(j)].id # connections[i].id
          /\ connections[Old(j)].id \in 1 .. MaxConnects
      BY <1>8, <3>1, SeqTypes DEF Inv, Numbered, Connection
    <3>3. removedAt'[connections[Old(j)].id] = MaxEmissions
      BY <1>3, <1>6, <3>2
    <3>4. QED
      BY <1>1, <3>1, <3>2, <3>3
  <2>3. \A n \in 1 .. MaxConnects : n > connects' => removedAt'[n] = MaxEmissions
    BY <1>1, <1>3, <1>6 DEF Inv, Numbered
  <2>4. QED
    BY <2>1, <2>2, <2>3 DEF Numbered
<1>10. NoEmissionAfterDisconnect'
  <2>1. ASSUME NEW k \in 1 .. Len(queue)
        PROVE  queue[k].emission <= removedAt'[queue[k].connection.id]
    <3>1. /\ queue[k].emission <= emissions
          /\ queue[k].emission <= removedAt[queue[k].connection.id]
          /\ queue[k].connection.id \in 1 .. MaxConnects
      BY SeqTypes DEF Inv, PostedInOrder, NoEmissionAfterDisconnect, SlotCall, Connection
    <3>2. QED
      BY <1>3, <1>6, <3>1
  <2>2. QED
    BY <1>1, <2>1 DEF NoEmissionAfterDisconnect
<1>11. ConnectedStays'
  BY <1>1, <1>5 DEF Inv, ConnectedStays
<1>12. WalkBegun' /\ WalkIsValid'
  BY <1>1, <1>2 DEF WalkBegun, WalkIsValid
<1>13. SlotOfHead' /\ PostedInOrder' /\ EmissionsInOrder' /\ ManagedReceiverStays'
  BY <1>1 DEF Inv, SlotOfHead, PostedInOrder, EmissionsInOrder, ManagedReceiverStays
<1>14. QED
  BY <1>9, <1>10, <1>11, <1>12, <1>13 DEF Inv

LEMMA DisconnectAllStep ==
    ASSUME Inv, Typed', NEW t \in Threads, DisconnectAll(t)
    PROVE  Inv'
<1>1. /\ mutex = None /\ connections' = <<>>
      /\ removedAt' = [i \in 1 .. MaxConnects |->
            IF \E k \in 1 .. Len(connections) : connections[k].id = i
            THEN emissions ELSE removedAt[i]]
      /\ UNCHANGED <<mutex, todo, queue, inSlot, inMemory, connects, emissions>>
  BY DEF DisconnectAll, receivers, counters
<1>2. \A u \in Threads : todo[u] = <<>>
  BY <1>1, NoWalk
<1>3. Len(connections') = 0
  BY <1>1
<1>4. Numbered'
  <2>1. ASSUME NEW n \in 1 .. MaxConnects, n > connects
        PROVE  removedAt'[n] = MaxEmissions
    <3>1. \A k \in 1 .. Len(connections) : connections[k].id <= connects /\ connections[k].id \in Int
      BY SeqTypes DEF Inv, Numbered, Connection
    <3>2. connects \in Int
      BY DEF Inv, Typed
    <3>3. ~ \E k \in 1 .. Len(connections) : connections[k].id = n
      BY <2>1, <3>1, <3>2
    <3>4. removedAt'[n] = removedAt[n]
      BY <1>1, <3>3
    <3>5. QED
      BY <2>1, <3>4 DEF Inv, Numbered
  <2>2. QED
    BY <1>1, <1>3, <2>1 DEF Numbered
<1>5. NoEmissionAfterDisconnect'
  <2>1. ASSUME NEW k \in 1 .. Len(queue)
        PROVE  queue[k].emission <= removedAt'[queue[k].connection.id]
    <3>1. /\ queue[k].emission <= emissions
          /\ queue[k].emission <= removedAt[queue[k].connection.id]
          /\ queue[k].connection.id \in 1 .. MaxConnects
      BY SeqTypes DEF Inv, PostedInOrder, NoEmissionAfterDisconnect, SlotCall, Connection
    <3>2. removedAt'[queue[k].connection.id] \in {emissions, removedAt[queue[k].connection.id]}
      BY <1>1, <3>1
    <3>3. QED
      BY <3>1, <3>2
  <2>2. QED
    BY <1>1, <2>1 DEF NoEmissionAfterDisconnect
<1>6. ConnectedStays'
  BY <1>3 DEF ConnectedStays
<1>7. WalkBegun' /\ WalkIsValid'
  BY <1>1, <1>2 DEF WalkBegun, WalkIsValid
<1>8. SlotOfHead' /\ PostedInOrder' /\ EmissionsInOrder' /\ ManagedReceiverStays'
  BY <1>1 DEF Inv, SlotOfHead, PostedInOrder, EmissionsInOrder, ManagedReceiverStays
<1>9. QED
  BY <1>4, <1>5, <1>6, <1>7, <1>8 DEF Inv

LEMMA EmitBeginStep ==
    ASSUME Inv, Typed', NEW t \in Threads, EmitBegin(t)
    PROVE  Inv'
<1>1. /\ mutex = None /\ mutex' = t /\ emissions' = emissions + 1
      /\ todo' = [todo EXCEPT ![t] = connections]
      /\ UNCHANGED <<connections, queue, inSlot, inMemory, connects, removedAt>>
  BY DEF EmitBegin, receivers
<1>2. /\ emissions \in Nat /\ connections \in Seq(Connection)
      /\ todo \in [Threads -> Seq(Connection)]
      /\ \A i \in 1 .. Len(queue) : queue[i].emission \in Nat /\ queue[i].emission <= emissions
  <2>1. Typed
    BY DEF Inv
  <2>2. emissions \in Nat
    BY <2>1, CounterTypes
  <2>3. connections \in Seq(Connection) /\ todo \in [Threads -> Seq(Connection)]
    BY <2>1 DEF Typed
  <2>4. \A i \in 1 .. Len(queue) : queue[i].emission \in Nat
    BY <2>1, SeqTypes DEF SlotCall
  <2>5. QED
    BY <2>2, <2>3, <2>4 DEF Inv, PostedInOrder
<1>3. \A u \in Threads : todo'[u] = IF u = t THEN connections ELSE <<>>
  BY <1>1, <1>2, NoWalk
<1>4. WalkBegun'
  BY <1>1, <1>2, <1>3 DEF WalkBegun
<1>5. WalkIsValid'
  BY <1>1, <1>2, <1>3, SuffixOfItself DEF WalkIsValid
<1>6. PostedInOrder'
  BY <1>1, <1>2 DEF PostedInOrder
<1>7. /\ SlotOfHead' /\ Numbered' /\ EmissionsInOrder' /\ NoEmissionAfterDisconnect'
      /\ ConnectedStays' /\ ManagedReceiverStays'
  BY <1>1 DEF Inv, SlotOfHead, Numbered, EmissionsInOrder, NoEmissionAfterDisconnect,
              ConnectedStays, ManagedReceiverStays
<1>8. QED
  BY <1>4, <1>5, <1>6, <1>7 DEF Inv

LEMMA EmitNextStep ==
    ASSUME Inv, Typed', NEW t \in Threads, EmitNext(t)
    PROVE  Inv'
<1> DEFINE s == todo[t]
           call == [connection |-> Head(s), emission |-> emissions]
           n == Len(queue)
<1>1. /\ s # <<>> /\ queue' = Append(queue, call)
      /\ todo' = [todo EXCEPT ![t] = Tail(s)]
      /\ UNCHANGED <<mutex, connections, inSlot, inMemory, connects, emissions, removedAt>>
  BY DEF EmitNext, receivers, counters
<1>2. /\ mutex = t /\ s \in Seq(Connection) /\ connections \in Seq(Connection)
      /\ Len(s) \in Nat \ {0}
      /\ \A k \in 1 .. Len(s) : \E j \in 1 .. Len(connections) : s[k] = connections[j]
      /\ \A k, m \in 1 .. Len(s) : k < m => s[k].id < s[m].id
  BY <1>1, WalkElements
<1>3. /\ todo \in [Threads -> Seq(Connection)] /\ queue \in Seq(SlotCall)
      /\ emissions \in 1 .. MaxEmissions /\ MaxEmissions \in Nat
  BY <1>1, SignalsAssumption DEF Inv, Typed, WalkBegun
<1> HIDE DEF s
<1>4. /\ Head(s) = s[1] /\ s[1] \in Connection /\ 1 \in 1 .. Len(s)
      /\ Len(Tail(s)) = Len(s) - 1
      /\ \A k \in 1 .. Len(Tail(s)) : Tail(s)[k] = s[k + 1]
  BY <1>1, <1>2, HeadTailProperties, ElementOfSeq
<1>5. PICK c \in 1 .. Len(connections) : s[1] = connections[c]
  BY <1>2, <1>4
<1>6. /\ n \in Nat /\ Len(queue') = n + 1
      /\ \A i \in 1 .. n : queue'[i] = queue[i]
      /\ queue'[n + 1] = call
      /\ call.connection = s[1] /\ call.emission = emissions
  <2>1. call \in SlotCall
    BY <1>3, <1>4 DEF SlotCall
  <2>2. QED
    BY <1>1, <1>3, <1>4, <2>1, AppendProperties, LenProperties
<1>7. \A i \in 1 .. Len(queue') : i \in 1 .. n \/ i = n + 1
  BY <1>6
<1>8. \A u \in Threads : todo'[u] = IF u = t THEN Tail(s) ELSE <<>>
  <2>1. \A u \in Threads : u # t => todo[u] = <<>>
    BY <1>2 DEF Inv, WalkBegun
  <2>2. QED
    BY <1>1, <1>3, <2>1
<1> HIDE DEF call, n
<1>9. \A i \in 1 .. n : /\ queue[i].emission <= emissions /\ queue[i].emission \in Nat
                        /\ queue[i].connection.id \in Nat
                        /\ queue[i].emission = emissions => queue[i].connection.id < s[1].id
  <2>1. ASSUME NEW i \in 1 .. n
        PROVE  queue[i].emission \in Nat /\ queue[i].connection.id \in Nat
    <3>1. queue[i] \in SlotCall
      BY SeqTypes DEF Inv, n
    <3>2. QED
      BY <3>1 DEF SlotCall, Connection
  <2>2. ASSUME NEW i \in 1 .. n
        PROVE  /\ queue[i].emission <= emissions
               /\ queue[i].emission = emissions => queue[i].connection.id < s[1].id
    BY <1>4 DEF Inv, PostedInOrder, n, s
  <2>3. QED
    BY <2>1, <2>2
<1>10. WalkBegun'
  BY <1>1, <1>2, <1>3, <1>8 DEF WalkBegun
<1>11. WalkIsValid'
  <2>1. IsSuffix(s, connections)
    BY <1>1 DEF Inv, WalkIsValid, s
  <2>2. IsSuffix(Tail(s), connections)
    BY <1>1, <1>2, <2>1, SuffixTail
  <2>3. QED
    BY <1>1, <1>2, <1>8, <2>2 DEF WalkIsValid
<1>12. PostedInOrder'
  <2>1. ASSUME NEW i \in 1 .. Len(queue')
        PROVE  queue'[i].emission <= emissions
    BY <1>3, <1>6, <1>7, <1>9, <2>1
  <2>2. ASSUME NEW i \in 1 .. Len(queue'), queue'[i].emission = emissions,
               NEW k \in 1 .. Len(Tail(s))
        PROVE  queue'[i].connection.id < Tail(s)[k].id
    <3>1. k + 1 \in 1 .. Len(s) /\ 1 < k + 1 /\ Tail(s)[k] = s[k + 1]
      BY <1>2, <1>4
    <3>2. s[1].id < s[k + 1].id
      BY <1>2, <1>4, <3>1
    <3>3. s[1].id \in Nat /\ s[k + 1].id \in Nat
      <4>1. s[1] \in Connection /\ s[k + 1] \in Connection
        BY <1>2, <1>4, <3>1, ElementOfSeq
      <4>2. QED
        BY <4>1 DEF Connection
    <3>4. CASE i \in 1 .. n
      <4>1. queue[i].connection.id < s[1].id /\ queue[i].connection.id \in Nat
        BY <1>6, <1>9, <2>2, <3>4
      <4>2. QED
        BY <1>6, <3>1, <3>2, <3>3, <3>4, <4>1
    <3>5. CASE i = n + 1
      BY <1>6, <3>1, <3>2, <3>5
    <3>6. QED
      BY <1>7, <3>4, <3>5
  <2>3. ASSUME NEW u \in Threads, NEW i \in 1 .. Len(queue'), NEW k \in 1 .. Len(todo'[u])
        PROVE  queue'[i].emission = emissions => queue'[i].connection.id < todo'[u][k].id
    <3>1. CASE u = t
      BY <1>8, <2>2, <2>3, <3>1
    <3>2. CASE u # t
      <4>1. Len(todo'[u]) = 0
        BY <1>8, <3>2
      <4>2. QED
        BY <4>1
    <3>3. QED
      BY <3>1, <3>2
  <2>4. QED
    BY <1>1, <2>1, <2>3 DEF PostedInOrder
<1>13. EmissionsInOrder'
  <2>1. ASSUME NEW i \in 1 .. Len(queue'), NEW j \in 1 .. Len(queue'), i < j
        PROVE  \/ queue'[i].emission < queue'[j].emission
               \/ /\ queue'[i].emission = queue'[j].emission
                  /\ queue'[i].connection.id < queue'[j].connection.id
    <3>1. i \in 1 .. n
      BY <1>6, <2>1
    <3>2. CASE j \in 1 .. n
      BY <1>6, <2>1, <3>1, <3>2 DEF Inv, EmissionsInOrder, n
    <3>3. CASE j = n + 1
      BY <1>3, <1>6, <1>9, <3>1, <3>3
    <3>4. QED
      BY <1>7, <3>2, <3>3
  <2>2. QED
    BY <2>1 DEF EmissionsInOrder
<1>14. NoEmissionAfterDisconnect'
  <2>1. ASSUME NEW i \in 1 .. Len(queue')
        PROVE  queue'[i].emission <= removedAt[queue'[i].connection.id]
    <3>1. removedAt[s[1].id] = MaxEmissions
      BY <1>5 DEF Inv, Numbered
    <3>2. CASE i \in 1 .. n
      BY <1>6, <3>2 DEF Inv, NoEmissionAfterDisconnect, n
    <3>3. CASE i = n + 1
      BY <1>3, <1>6, <3>1, <3>3
    <3>4. QED
      BY <1>7, <3>2, <3>3
  <2>2. QED
    BY <1>1, <2>1 DEF NoEmissionAfterDisconnect
<1>15. ManagedReceiverStays'
  <2>1. ASSUME NEW i \in 1 .. Len(queue'), queue'[i].connection.receiver \in Managed
        PROVE  queue'[i].connection.receiver \in inMemory
    <3>1. CASE i \in 1 .. n
      BY <1>6, <2>1, <3>1 DEF Inv, ManagedReceiverStays, n
    <3>2. CASE i = n + 1
      BY <1>5, <1>6, <2>1, <3>2 DEF Inv, ConnectedStays
    <3>3. QED
      BY <1>7, <3>1, <3>2
  <2>2. QED
    BY <1>1, <2>1 DEF ManagedReceiverStays
<1>16. SlotOfHead'
  BY <1>6 DEF SlotOfHead
<1>17. Numbered' /\ ConnectedStays'
  BY <1>1 DEF Inv, Numbered, ConnectedStays
<1>18. QED
  BY <1>10, <1>11, <1>12, <1>13, <1>14, <1>15, <1>16, <1>17 DEF Inv

LEMMA SlotReturnsStep ==
    ASSUME Inv, Typed', SlotReturns
    PROVE  Inv'
<1>1. /\ queue # <<>> /\ queue' = Tail(queue) /\ inSlot' = FALSE
      /\ UNCHANGED <<mutex, connections, todo, inMemory, connects, emissions, removedAt>>
  BY DEF SlotReturns, Inv, SlotOfHead, receivers, counters
<1>2. /\ Len(queue) \in Nat /\ Len(queue') = Len(queue) - 1
      /\ \A i \in 1 .. Len(queue') : queue'[i] = queue[i + 1]
  <2>1. queue \in Seq(SlotCall)
    BY DEF Inv, Typed
  <2>2. QED
    BY <1>1, <2>1, HeadTailProperties, LenProperties
<1>3. /\ \A i \in 1 .. Len(queue') : i + 1 \in 1 .. Len(queue)
      /\ \A i, j \in 1 .. Len(queue') : i < j => i + 1 < j + 1
  BY <1>2
<1>4. PostedInOrder'
  BY <1>1, <1>2, <1>3 DEF Inv, PostedInOrder
<1>5. EmissionsInOrder'
  BY <1>1, <1>2, <1>3 DEF Inv, EmissionsInOrder
<1>6. NoEmissionAfterDisconnect' /\ ManagedReceiverStays'
  BY <1>1, <1>2, <1>3 DEF Inv, NoEmissionAfterDisconnect, ManagedReceiverStays
<1>7. SlotOfHead' /\ WalkBegun' /\ WalkIsValid' /\ Numbered' /\ ConnectedStays'
  BY <1>1 DEF Inv, SlotOfHead, WalkBegun, WalkIsValid, Numbered, ConnectedStays
<1>8. QED
  BY <1>4, <1>5, <1>6, <1>7 DEF Inv

LEMMA InvStep == Inv /\ [Next]_vars => Inv'
<1> SUFFICES ASSUME Inv, [Next]_vars PROVE Inv'
  OBVIOUS
<1>1. Typed'
  BY TypeStep DEF Inv
<1>2. ASSUME NEW t \in Threads, NEW r \in Receivers, Connect(t, r) PROVE Inv'
  BY <1>1, <1>2, ConnectStep
<1>3. ASSUME NEW t \in Threads, NEW r \in Receivers, Disconnect(t, r) PROVE Inv'
  BY <1>1, <1>3, DisconnectStep
<1>4. ASSUME NEW t \in Threads, DisconnectAll(t) PROVE Inv'
  BY <1>1, <1>4, DisconnectAllStep
<1>5. ASSUME NEW t \in Threads, EmitBegin(t) PROVE Inv'
  BY <1>1, <1>5, EmitBeginStep
<1>6. ASSUME NEW t \in Threads, EmitNext(t) PROVE Inv'
  BY <1>1, <1>6, EmitNextStep
<1>7. CASE SlotReturns
  BY <1>1, <1>7, SlotReturnsStep
<1> DEFINE Kept == UNCHANGED <<todo, connections, queue, connects, emissions, removedAt>>
<1>8. ASSUME Kept, UNCHANGED <<mutex, inMemory>>, SlotOfHead' PROVE Inv'
  BY <1>1, <1>8 DEF Inv, WalkBegun, WalkIsValid, Numbered, PostedInOrder, EmissionsInOrder,
                    NoEmissionAfterDisconnect, ConnectedStays, ManagedReceiverStays
<1>9. ASSUME NEW r, r \in Managed => ~Used(r), inMemory' = inMemory \ {r}, Kept,
             UNCHANGED mutex, SlotOfHead'
      PROVE  Inv'
  <2>1. ConnectedStays'
    BY <1>9 DEF Inv, ConnectedStays, Used
  <2>2. ManagedReceiverStays'
    BY <1>9 DEF Inv, ManagedReceiverStays, Used
  <2>3. QED
    BY <1>1, <1>9, <2>1, <2>2 DEF Inv, WalkBegun, WalkIsValid, Numbered, PostedInOrder,
                    EmissionsInOrder, NoEmissionAfterDisconnect
<1>10. ASSUME NEW t \in Threads, EmitEnd(t) PROVE Inv'
  <2>1. \A u \in Threads : todo[u] = <<>>
    BY <1>10 DEF EmitEnd, Inv, WalkBegun
  <2>2. WalkBegun' /\ WalkIsValid'
    BY <1>10, <2>1 DEF EmitEnd, WalkBegun, WalkIsValid
  <2>3. QED
    BY <1>1, <1>10, <2>2 DEF EmitEnd, receivers, counters, Inv, SlotOfHead, Numbered,
          PostedInOrder, EmissionsInOrder, NoEmissionAfterDisconnect, ConnectedStays,
          ManagedReceiverStays
<1>11. ASSUME NEW t \in Threads, NEW r \in Receivers, LetGo(t, r) PROVE Inv'
  BY <1>8, <1>11 DEF LetGo, counters, Inv, SlotOfHead
<1>12. ASSUME NEW t \in Threads, NEW r \in Receivers, EndScope(t, r) PROVE Inv'
  BY <1>9, <1>12, SignalsAssumption DEF EndScope, counters, Inv, SlotOfHead
<1>13. CASE CallSlot
  BY <1>8, <1>13 DEF CallSlot, receivers, counters, SlotOfHead
<1>14. ASSUME NEW r \in Managed, DestroyManaged(r) PROVE Inv'
  BY <1>9, <1>14 DEF DestroyManaged, counters, Inv, SlotOfHead
<1>15. CASE UNCHANGED vars
  BY <1>8, <1>15 DEF vars, Inv, SlotOfHead
<1>16. QED
  BY <1>2, <1>3, <1>4, <1>5, <1>6, <1>7, <1>10, <1>11, <1>12, <1>13, <1>14, <1>15
  DEF Next, ThreadStep

-----------------------------------------------------------------------------
LEMMA InvInit == Init => Inv
<1> SUFFICES ASSUME Init PROVE Inv
  OBVIOUS
<1>1. Typed
  <2>1. connections \in Seq(Connection) /\ queue \in Seq(SlotCall)
    BY EmptySeq DEF Init
  <2>2. todo \in [Threads -> Seq(Connection)]
    BY EmptySeq DEF Init
  <2>3. /\ connects \in 0 .. MaxConnects /\ emissions \in 0 .. MaxEmissions
        /\ removedAt \in [1 .. MaxConnects -> 0 .. MaxEmissions]
    BY SignalsAssumption DEF Init
  <2>4. QED
    BY <2>1, <2>2, <2>3 DEF Init, Typed
<1>2. Len(connections) = 0 /\ Len(queue) = 0 /\ \A t \in Threads : todo[t] = <<>>
  BY DEF Init
<1>3. WalkBegun /\ WalkIsValid /\ SlotOfHead
  BY <1>2 DEF Init, WalkBegun, WalkIsValid, SlotOfHead
<1>4. Numbered /\ PostedInOrder
  BY <1>2 DEF Init, Numbered, PostedInOrder
<1>5. EmissionsInOrder /\ NoEmissionAfterDisconnect /\ ConnectedStays /\ ManagedReceiverStays
  BY <1>2 DEF EmissionsInOrder, NoEmissionAfterDisconnect, ConnectedStays, ManagedReceiverStays
<1>6. QED
  BY <1>1, <1>3, <1>4, <1>5 DEF Inv

\* In every state the invariant holds.
THEOREM Invariance == Spec => []Inv
BY InvInit, InvStep, PTL DEF Spec

\* Whoever connects, emits and disconnects, the lists and queues hold what
\* they are meant to hold, and a loop in a slot has its call at the head.
THEOREM TypeCorrect == Spec => []TypeOK
BY Invariance, PTL DEF Inv, TypeOK

\* The iterator of emit() stays valid, for any number of threads: connect(),
\* disconnect() and disconnectAll() wait for the mutex that emit() holds.
THEOREM WalksStayValid == Spec => []WalkIsValid
BY Invariance, PTL DEF Inv

\* The loop runs the slots emission by emission, and within one emission in
\* the order the connections were made, whichever threads emit.
THEOREM SlotsRunInOrder == Spec => []EmissionsInOrder
BY Invariance, PTL DEF Inv

\* After disconnect() has returned no emission that begins later posts a
\* slot call for the connection.
THEOREM DisconnectEnds == Spec => []NoEmissionAfterDisconnect
BY Invariance, PTL DEF Inv

\* EBSlotCall keeps a managed receiver in memory until its slot has run.
THEOREM CallsKeepTheReceiver == Spec => []ManagedReceiverStays
BY Invariance, PTL DEF Inv
=============================================================================
