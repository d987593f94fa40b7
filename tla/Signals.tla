------------------------------- MODULE Signals -------------------------------
(***************************************************************************)
(* One EBEvent with its EBConnections, the EBSlotCalls it posts to one     *)
(* event loop, and the receivers they call.                                *)
(*                                                                         *)
(* connect, disconnect and disconnectAll hold the mutex of the event for   *)
(* one critical section each.  emit holds it while it walks the list of    *)
(* connections and posts one slot call after the other, so the loop runs   *)
(* slots in the middle of an emission.                                     *)
(*                                                                         *)
(* A managed receiver was made by createObject(): the connection and the   *)
(* slot call hold pointers to it that keep it in memory.  Any other        *)
(* receiver, a member or a local, is destroyed when its scope ends; the    *)
(* pointers to it become null, but the bound function keeps its address.   *)
(***************************************************************************)
EXTENDS Integers, Sequences, SequencesExt

CONSTANTS Managed,        \* receivers made by createObject()
          Scoped,         \* receivers that are members or locals
          Loop,           \* the thread of the event loop
          Emitters,       \* other threads: timers, sockets, main()
          None,
          DisconnectsFirst,   \* a scoped receiver disconnects before it goes
          MaxConnects, MaxEmissions   \* bounds: calls of connect and emit

ASSUME SignalsAssumption ==
    /\ Managed \cap Scoped = {}
    /\ None \notin Emitters \cup {Loop}
    /\ Loop \notin Emitters
    /\ DisconnectsFirst \in BOOLEAN
    /\ MaxConnects \in Nat /\ MaxEmissions \in Nat

Receivers == Managed \cup Scoped
Threads == Emitters \cup {Loop}

VARIABLES mutex,         \* the thread that holds EBEvent::mutex, or None
          connections,   \* EBEvent::connections
          todo,          \* what is left of the walk of an emit, per thread
          queue,         \* EBEventLoop::events: the slot calls posted
          inSlot,        \* the loop runs the slot at the head of its queue
          inMemory,      \* receivers that exist
          held,          \* managed receivers the program has pointers to
          connects,      \* calls of connect() so far; numbers the connections
          emissions,     \* calls of emit() so far; numbers the emissions
          removedAt      \* history: emissions begun when a connection went

vars == <<mutex, connections, todo, queue, inSlot, inMemory, held, connects,
          emissions, removedAt>>
receivers == <<inMemory, held>>
counters == <<connects, emissions>>

Connection == [id : 1 .. MaxConnects, receiver : Receivers]
SlotCall == [connection : Connection, emission : 1 .. MaxEmissions]

Init == /\ mutex = None
        /\ connections = <<>>
        /\ todo = [t \in Threads |-> <<>>]
        /\ queue = <<>>
        /\ inSlot = FALSE
        /\ inMemory = Receivers
        /\ held = Managed
        /\ connects = 0
        /\ emissions = 0
        /\ removedAt = [i \in 1 .. MaxConnects |-> MaxEmissions]

\* The loop's thread runs the program's code only inside slots; a thread
\* inside an emit runs nothing else.
Runs(t) == (t = Loop => inSlot) /\ mutex # t

\* Somebody can name the receiver: a scope, a pointer, or its own slot.
Reachable(t, r) == \/ r \in Scoped \cap inMemory
                   \/ r \in held
                   \/ t = Loop /\ inSlot /\ Head(queue).connection.receiver = r

\* A connect() that does not wait for the mutex.
ConnectUnlocked(t, r) ==
    /\ Runs(t)
    /\ Reachable(t, r) /\ r \in inMemory
    /\ connects < MaxConnects
    /\ connects' = connects + 1
    /\ connections' = Append(connections, [id |-> connects + 1, receiver |-> r])
    /\ UNCHANGED <<mutex, todo, queue, inSlot, receivers, emissions, removedAt>>

\* connect(): a new EBConnection at the end of the list.
Connect(t, r) ==
    /\ Runs(t) /\ mutex = None
    /\ Reachable(t, r) /\ r \in inMemory
    /\ connects < MaxConnects
    /\ connects' = connects + 1
    /\ connections' = Append(connections, [id |-> connects + 1, receiver |-> r])
    /\ UNCHANGED <<mutex, todo, queue, inSlot, receivers, emissions, removedAt>>

\* disconnect(): the first connection of the receiver goes.  The function
\* that is passed is not looked at ("TODO: Check if the functions are equal"),
\* so connections have none here.
Disconnect(t, r) ==
    /\ Runs(t) /\ mutex = None
    /\ Reachable(t, r) /\ r \in inMemory
    /\ \E i \in 1 .. Len(connections) :
          /\ connections[i].receiver = r
          /\ \A j \in 1 .. (i - 1) : connections[j].receiver # r
          /\ connections' = RemoveAt(connections, i)
          /\ removedAt' = [removedAt EXCEPT ![connections[i].id] = emissions]
    /\ UNCHANGED <<mutex, todo, queue, inSlot, receivers, counters>>

\* disconnectAll(), also called by the destructor of the event.
DisconnectAll(t) ==
    /\ Runs(t) /\ mutex = None
    /\ connections # <<>>
    /\ connections' = <<>>
    /\ removedAt' = [i \in 1 .. MaxConnects |->
          IF \E k \in 1 .. Len(connections) : connections[k].id = i
          THEN emissions ELSE removedAt[i]]
    /\ UNCHANGED <<mutex, todo, queue, inSlot, receivers, counters>>

\* An emit() that copies the list and walks the copy without the mutex.
EmitBeginUnlocked(t) ==
    /\ Runs(t) /\ todo[t] = <<>>
    /\ emissions < MaxEmissions
    /\ emissions' = emissions + 1
    /\ todo' = [todo EXCEPT ![t] = connections]
    /\ UNCHANGED <<mutex, connections, queue, inSlot, receivers, connects, removedAt>>

\* emit(): take the mutex, begin the walk.
EmitBegin(t) ==
    /\ Runs(t) /\ mutex = None
    /\ emissions < MaxEmissions
    /\ emissions' = emissions + 1
    /\ mutex' = t
    /\ todo' = [todo EXCEPT ![t] = connections]
    /\ UNCHANGED <<connections, queue, inSlot, receivers, connects, removedAt>>

\* EBConnection::emit(): a slot call for the next connection is posted.
EmitNext(t) ==
    /\ todo[t] # <<>>
    /\ queue' = Append(queue, [connection |-> Head(todo[t]), emission |-> emissions])
    /\ todo' = [todo EXCEPT ![t] = Tail(@)]
    /\ UNCHANGED <<mutex, connections, inSlot, receivers, counters, removedAt>>

\* emit(): the walk is over.
EmitEnd(t) ==
    /\ mutex = t
    /\ todo[t] = <<>>
    /\ mutex' = None
    /\ UNCHANGED <<connections, todo, queue, inSlot, receivers, counters, removedAt>>

-----------------------------------------------------------------------------
\* A loop that takes the call off its queue before the slot runs.
CallSlotPopped ==
    /\ ~inSlot /\ queue # <<>>
    /\ inSlot' = TRUE
    /\ queue' = Tail(queue)
    /\ UNCHANGED <<mutex, connections, todo, receivers, counters, removedAt>>

\* EBSlotCall::call() by the loop: the bound function runs, with no check.
CallSlot ==
    /\ ~inSlot /\ queue # <<>>
    /\ inSlot' = TRUE
    /\ UNCHANGED <<mutex, connections, todo, queue, receivers, counters, removedAt>>

\* The slot returns and its call, with its pointers, is popped.
SlotReturns ==
    /\ inSlot /\ mutex # Loop
    /\ inSlot' = FALSE
    /\ queue' = Tail(queue)
    /\ UNCHANGED <<mutex, connections, todo, receivers, counters, removedAt>>

\* The program lets go of its pointers to a managed receiver.
LetGo(t, r) ==
    /\ Runs(t)
    /\ r \in held
    /\ held' = held \ {r}
    /\ UNCHANGED <<mutex, connections, todo, queue, inSlot, inMemory, counters, removedAt>>

\* Slot calls without a pointer to their receiver.
UsedByConnectionsOnly(r) ==
    \/ r \in held
    \/ \E i \in 1 .. Len(connections) : connections[i].receiver = r

\* Pointers to a managed receiver: the program's, the connections' and the
\* slot calls' (an emit under way walks connections that are still there).
Used(r) == \/ r \in held
           \/ \E i \in 1 .. Len(connections) : connections[i].receiver = r
           \/ \E i \in 1 .. Len(queue) : queue[i].connection.receiver = r

\* destroyObjects(), between two slots, of a managed receiver.
DestroyManaged(r) ==
    /\ ~inSlot
    /\ r \in Managed \cap inMemory
    /\ ~Used(r)
    /\ inMemory' = inMemory \ {r}
    /\ UNCHANGED <<mutex, connections, todo, queue, inSlot, held, counters, removedAt>>

\* The scope of a receiver ends, in a slot or in another thread's code.
EndScope(t, r) ==
    /\ Runs(t)
    /\ r \in Scoped \cap inMemory
    /\ DisconnectsFirst =>
          \A i \in 1 .. Len(connections) : connections[i].receiver # r
    /\ inMemory' = inMemory \ {r}
    /\ UNCHANGED <<mutex, connections, todo, queue, inSlot, held, counters, removedAt>>

ThreadStep(t) ==
    \/ \E r \in Receivers : \/ Connect(t, r) \/ Disconnect(t, r)
                          \/ LetGo(t, r) \/ EndScope(t, r)
    \/ DisconnectAll(t)
    \/ EmitBegin(t) \/ EmitNext(t) \/ EmitEnd(t)

Next == \/ \E t \in Threads : ThreadStep(t)
        \/ CallSlot \/ SlotReturns
        \/ \E r \in Managed : DestroyManaged(r)

Spec == Init /\ [][Next]_vars

-----------------------------------------------------------------------------

Typed == /\ mutex \in Threads \cup {None}
         /\ connections \in Seq(Connection)
         /\ todo \in [Threads -> Seq(Connection)]
         /\ queue \in Seq(SlotCall)
         /\ inSlot \in BOOLEAN
         /\ inMemory \subseteq Receivers
         /\ held \subseteq Managed
         /\ connects \in 0 .. MaxConnects
         /\ emissions \in 0 .. MaxEmissions
         /\ removedAt \in [1 .. MaxConnects -> 0 .. MaxEmissions]

\* The loop is in a slot only of the call at the head of its queue, which
\* keeps the call and its pointers until the slot has returned.
SlotOfHead == inSlot => queue # <<>>

\* Every variable has its type, and a loop in a slot its call at the head,
\* whatever other threads post meanwhile.
TypeOK == Typed /\ SlotOfHead

\* The iterator of an emit stays valid: what is left of its walk is the end
\* of the list as it is now, whoever connects and disconnects meanwhile.
WalkIsValid == \A t \in Threads :
    todo[t] # <<>> => mutex = t /\ IsSuffix(todo[t], connections)

\* One emission does not overtake another, and each reaches its connections
\* in the order they were made: the queue holds the calls of an earlier
\* emission first, and those of one emission by connection.
EmissionsInOrder == \A i, j \in 1 .. Len(queue) : i < j =>
    \/ queue[i].emission < queue[j].emission
    \/ /\ queue[i].emission = queue[j].emission
       /\ queue[i].connection.id < queue[j].connection.id

\* Once disconnect() or disconnectAll() has returned, no later emission
\* reaches the connection, although emissions run in other threads; calls
\* posted before are still in the queue.
NoEmissionAfterDisconnect == \A i \in 1 .. Len(queue) :
    queue[i].emission <= removedAt[queue[i].connection.id]

\* A managed receiver stays in memory while a slot call for it is queued or
\* runs, even if its own slot lets go of the last pointer or disconnects it
\* and another thread does the same: the slot call keeps it.
ManagedReceiverStays == \A i \in 1 .. Len(queue) :
    queue[i].connection.receiver \in Managed =>
        queue[i].connection.receiver \in inMemory

\* "When the EventLoop calls this slot the EBSlotCall checks if the objects
\* provides to the call are valid and calls the slot" (EBSlotCall): a slot is
\* not run on a receiver that is gone.
SlotRunsOnValidReceiver ==
    [][CallSlot => Head(queue).connection.receiver \in inMemory]_vars

=============================================================================
