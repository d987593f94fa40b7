----------------------------- MODULE ObjectWatch -----------------------------
(***************************************************************************)
(* EBObject, EBObjectPointer and EBObjectWatch: objects made by            *)
(* createObject() count the pointers that use them.  When the last pointer *)
(* lets go, the object moves from the object list to the list of objects   *)
(* to be destroyed, and an event loop deletes it after it has run its      *)
(* slots (EBEventLoop::processEvents calls destroyObjects).                *)
(*                                                                         *)
(* Every thread of the program works on pointers: the loops, and those of  *)
(* timers and sockets, which emit signals (EBTimer.hpp:186) and create the *)
(* queued calls (EBConnection.hpp:81).  A step ends where another thread   *)
(* can come in between: before a mutex is taken, and after the object has  *)
(* been queued but before unuse() unlocks the object's own mutex.          *)
(*                                                                         *)
(* The program is asked for two things that no lock of EBObject does:      *)
(* a pointer is worked on by one thread at a time (Free, Readable), and an *)
(* object is held while a thread works on its members (Reaches, Spares).   *)
(***************************************************************************)
EXTENDS Integers, Sequences

CONSTANTS Threads,       \* all threads
          Loops,         \* those that run an event loop
          Objects,       \* objects made by createObject()
          Pointers,      \* instances of EBObjectPointer
          MemberOf,      \* the object a pointer is a member of, or None
          None,
          SelfAssigns,   \* the one event loop assigns a pointer to itself
          RefersToThis,  \* the program makes a pointer from "this" (EB_EMIT)
                         \* inside an object no pointer uses
          LetsGoEarly    \* a thread lets go of the last pointer to an object
                         \* in which a thread other than the one event loop
                         \* works (p = p->next)

ASSUME ObjectWatchAssumption ==
    /\ Loops \subseteq Threads
    /\ None \notin Objects \cup Pointers
    /\ MemberOf \in [Pointers -> Objects \cup {None}]
    /\ SelfAssigns \in BOOLEAN
    /\ RefersToThis \in BOOLEAN
    /\ LetsGoEarly \in BOOLEAN

VARIABLES status,          \* of each object: "fresh", "alive" or "dead"
          val,             \* EBObjectPointerBase::pointer; None is nullptr
          users,           \* EBObjectBase::sharedPointer of each object
          objectList,      \* EBObjectWatchBase: objects in use
          toBeDestroyed,   \* EBObjectWatchBase: objects to delete, in order
          pc,              \* where each thread is
          dst, src,        \* the pointer it works on, and the one it reads
          victim,          \* the object it deletes
          revived          \* history: objects used by a new pointer while the
                           \* program had no pointer to them

vars == <<status, val, users, objectList, toBeDestroyed, pc, dst, src, victim,
          revived>>
usage == <<users, revived>>
watch == <<objectList, toBeDestroyed>>
locals == <<dst, src, victim>>

PCs == {"run",
        "first",             \* createObject(): before its pointer is made
        "construct",         \* a constructor, before it takes the mutex
        "drop", "dropped",   \* the destructor, around its unuse()
        "unuse", "unused",   \* operator=, around its unuse()
        "copy", "use",       \* operator=, what follows
        "size", "pop", "join", "delete",    \* destroyObjects()
        "crashed",           \* took the front of an empty list
        "freed"}             \* used the memory of a deleted object

Queued == {toBeDestroyed[i] : i \in 1 .. Len(toBeDestroyed)}

\* Pointers that the constructor leaves uninitialised.
InitGarbage == /\ status = [o \in Objects |-> "fresh"]
               /\ val = [p \in Pointers |-> p]
               /\ users = [o \in Objects |-> {}]
               /\ objectList = {}
               /\ toBeDestroyed = <<>>
               /\ pc = [t \in Threads |-> "run"]
               /\ dst = [t \in Threads |-> None]
               /\ src = [t \in Threads |-> None]
               /\ victim = [t \in Threads |-> None]
               /\ revived = {}

Init == /\ status = [o \in Objects |-> "fresh"]
        /\ val = [p \in Pointers |-> None]
        /\ users = [o \in Objects |-> {}]
        /\ objectList = {}
        /\ toBeDestroyed = <<>>
        /\ pc = [t \in Threads |-> "run"]
        /\ dst = [t \in Threads |-> None]
        /\ src = [t \in Threads |-> None]
        /\ victim = [t \in Threads |-> None]
        /\ revived = {}

Goto(t, from, to) == pc[t] = from /\ pc' = [pc EXCEPT ![t] = to]
Set(f, x, y) == [f EXCEPT ![x] = y]

\* Nobody works on p; nobody writes q.
Free(p) == \A u \in Threads : dst[u] # p /\ src[u] # p
Readable(q) == \A u \in Threads : dst[u] # q

\* The memory a pointer lives in is there.
InMemory(p) == MemberOf[p] # None => status[MemberOf[p]] = "alive"

\* Thread t may work on p: it is on the stack, or a member of an object that
\* will stay.  Only t deletes if t is the one event loop; another thread
\* needs the object to be in use.
Reaches(t, p) == MemberOf[p] # None =>
    IF Loops = {t} THEN status[MemberOf[p]] = "alive"
                   ELSE MemberOf[p] \in objectList

WorksIn(u, o) == \/ dst[u] # None /\ MemberOf[dst[u]] = o
                 \/ src[u] # None /\ MemberOf[src[u]] = o

\* The last pointer to an object stays while another thread than the one
\* event loop works on a member of the object.
Spares(o, p) == o \in objectList /\ users[o] \ {p} = {} =>
    LetsGoEarly \/ \A u \in Threads : Loops # {u} => ~WorksIn(u, o)

\* EBObjectPointerBase::mutex, which constructors and destructors hold (the
\* destructor over several steps), and the mutex of an object, held until the
\* end of unuse().
PointersUnlocked == \A u \in Threads : pc[u] \notin {"drop", "dropped"}
Unlocked(o) == \A u \in Threads : pc[u] \in {"dropped", "unused"} => val[dst[u]] # o

\* What p points to is not there (any more).
Gone(p) == val[p] = None \/ status[val[p]] = "dead"

\* A thread that uses freed memory: what the program does from there on is
\* undefined, the thread stops.
UseFreed(t, from) == /\ Goto(t, from, "freed")
                     /\ UNCHANGED <<status, val, usage, watch, locals>>

\* EBObject::use().
Use(t, o, p) ==
    /\ Unlocked(o)
    /\ users' = Set(users, o, users[o] \cup {p})
    /\ revived' = IF o \in objectList /\ (users[o] # {} \/ pc[t] = "first")
                  THEN revived ELSE revived \cup {o}

\* An unuse() that moves the object without looking for it in the list.
RemoveUserUnchecked(o, p) ==
    /\ users' = Set(users, o, users[o] \ {p})
    /\ UNCHANGED revived
    /\ IF users[o] \ {p} = {}
       THEN /\ objectList' = objectList \ {o}
            /\ toBeDestroyed' = Append(toBeDestroyed, o)
       ELSE UNCHANGED watch

\* An unuse() that leaves the last pointer in place.
RemoveUserLate(o, p) ==
    /\ users' = Set(users, o, users[o] \ {p})
    /\ UNCHANGED revived
    /\ IF users[o] = {} /\ o \in objectList
       THEN /\ objectList' = objectList \ {o}
            /\ toBeDestroyed' = Append(toBeDestroyed, o)
       ELSE UNCHANGED watch

\* EBObject::unuse() up to its unlock, with EBObjectWatchBase::remove(): an
\* object without users that is still in the object list moves to the other.
RemoveUser(o, p) ==
    /\ users' = Set(users, o, users[o] \ {p})
    /\ UNCHANGED revived
    /\ IF users[o] \ {p} = {} /\ o \in objectList
       THEN /\ objectList' = objectList \ {o}
            /\ toBeDestroyed' = Append(toBeDestroyed, o)
       ELSE UNCHANGED watch

-----------------------------------------------------------------------------
\* What slots, the code they call, and the library's threads do with pointers.

\* createObject(): new, and add() to the object list.
Create(t, p, o) == /\ Goto(t, "run", "first")
                   /\ status[o] = "fresh"
                   /\ Free(p) /\ Reaches(t, p) /\ val[p] = None
                   /\ status' = Set(status, o, "alive")
                   /\ objectList' = objectList \cup {o}
                   /\ val' = Set(val, p, o)
                   /\ dst' = Set(dst, t, p)
                   /\ UNCHANGED <<usage, toBeDestroyed, src, victim>>

\* Copy constructor and casts: other.pointer is read before the mutex is taken.
Copy(t, p, q) == /\ Goto(t, "run", "construct")
                 /\ Free(p) /\ Reaches(t, p) /\ val[p] = None
                 /\ Readable(q) /\ Reaches(t, q) /\ val[q] # None
                 /\ val' = Set(val, p, val[q])
                 /\ dst' = Set(dst, t, p)
                 /\ src' = Set(src, t, q)
                 /\ UNCHANGED <<status, usage, watch, victim>>

\* A pointer from "this" in a method of o (the macro EB_EMIT, operator&).  A
\* method of o may run while no pointer uses o; another thread than that of
\* the loop runs it only until the destructor of o has joined the thread.
CopyThis(t, p, o) == /\ Goto(t, "run", "construct")
                     /\ status[o] = "alive"
                     /\ users[o] # {} \/ RefersToThis
                     /\ \A l \in Loops : victim[l] = o => pc[l] = "join"
                     /\ Free(p) /\ Reaches(t, p) /\ val[p] = None
                     /\ val' = Set(val, p, o)
                     /\ dst' = Set(dst, t, p)
                     /\ UNCHANGED <<status, usage, watch, src, victim>>

\* The constructor with the mutex: the object is used, the pointer is there.
Construct(t) == LET p == dst[t] IN
    /\ pc[t] \in {"first", "construct"}
    /\ PointersUnlocked
    /\ \/ Gone(p) /\ UseFreed(t, pc[t])
       \/ /\ ~Gone(p)
          /\ Use(t, val[p], p)
          /\ pc' = Set(pc, t, "run")
          /\ dst' = Set(dst, t, None)
          /\ src' = Set(src, t, None)
          /\ UNCHANGED <<status, val, watch, victim>>

\* Destructor of a pointer, which takes the mutex.
Drop(t, p) == /\ Goto(t, "run", "drop")
              /\ PointersUnlocked
              /\ Free(p) /\ Reaches(t, p) /\ val[p] # None
              /\ dst' = Set(dst, t, p)
              /\ UNCHANGED <<status, val, usage, watch, src, victim>>

\* p = q.
Assign(t, p, q) == /\ Goto(t, "run", IF val[p] = None THEN "copy" ELSE "unuse")
                   /\ Free(p) /\ Reaches(t, p)
                   /\ Readable(q) /\ Reaches(t, q)
                   /\ p = q => SelfAssigns /\ Loops = {t}
                   /\ dst' = Set(dst, t, p)
                   /\ src' = Set(src, t, q)
                   /\ UNCHANGED <<status, val, usage, watch, victim>>

\* unuse() in the destructor and in operator=, up to its last statement.
Unuse(t, from, to) == LET p == dst[t] IN
    \/ UseFreed(t, from) /\ Gone(p)
    \/ /\ Goto(t, from, to)
       /\ ~Gone(p)
       /\ Unlocked(val[p])
       /\ Spares(val[p], p)
       /\ RemoveUser(val[p], p)
       /\ UNCHANGED <<status, val, locals>>

\* The last statement of unuse(): mutex.unlock().  The object may have been
\* deleted since it was queued; the write to its memory may do no harm.
Unlock(t, from, to) == \/ Goto(t, from, to)
                       \/ Goto(t, from, "freed") /\ Gone(dst[t])

AssignUnuse(t) == Unuse(t, "unuse", "unused")

AssignUnlock(t) == /\ Unlock(t, "unused", "copy")
                   /\ UNCHANGED <<status, val, usage, watch, locals>>

\* pointer = other.pointer.
AssignCopy(t) == /\ Goto(t, "copy", "use")
                 /\ val' = Set(val, dst[t], val[src[t]])
                 /\ UNCHANGED <<status, usage, watch, locals>>

\* p = q, last step: the new object is used.
AssignUse(t) == LET p == dst[t] IN
    \/ UseFreed(t, "use") /\ val[p] # None /\ Gone(p)
    \/ /\ Goto(t, "use", "run")
       /\ Gone(p) => val[p] = None
       /\ IF val[p] = None THEN UNCHANGED usage ELSE Use(t, val[p], p)
       /\ dst' = Set(dst, t, None)
       /\ src' = Set(src, t, None)
       /\ UNCHANGED <<status, val, watch, victim>>

DropUnuse(t) == Unuse(t, "drop", "dropped")

\* The end of the destructor, of a member of a deleted object or of another.
DropUnlock(t) ==
    /\ Unlock(t, "dropped", IF victim[t] = None THEN "run" ELSE "delete")
    /\ IF pc'[t] = "freed" THEN UNCHANGED <<val, dst>>
       ELSE /\ val' = Set(val, dst[t], None)
            /\ dst' = Set(dst, t, None)
    /\ UNCHANGED <<status, usage, watch, src, victim>>

-----------------------------------------------------------------------------
\* destroyObjects(), after the slots of a loop have run.

BeginDestroy(l) == /\ Goto(l, "run", "size")
                   /\ UNCHANGED <<status, val, usage, watch, locals>>

\* while (toBeDestroyed.size()), without the lock.
CheckSize(l) == /\ Goto(l, "size", IF toBeDestroyed = <<>> THEN "run" ELSE "pop")
                /\ UNCHANGED <<status, val, usage, watch, locals>>

\* front() without pop_front().
FrontOnly(l) ==
    IF toBeDestroyed = <<>>
    THEN Goto(l, "pop", "crashed") /\ UNCHANGED <<status, val, usage, watch, locals>>
    ELSE /\ Goto(l, "pop", "join")
         /\ victim' = Set(victim, l, Head(toBeDestroyed))
         /\ UNCHANGED <<status, val, usage, watch, dst, src>>

\* front() and pop_front() under the lock.  On an empty list both are
\* undefined: whatever is read as an object is deleted next.
PopFront(l) ==
    IF toBeDestroyed = <<>>
    THEN Goto(l, "pop", "crashed") /\ UNCHANGED <<status, val, usage, watch, locals>>
    ELSE /\ Goto(l, "pop", "join")
         /\ victim' = Set(victim, l, Head(toBeDestroyed))
         /\ toBeDestroyed' = Tail(toBeDestroyed)
         /\ UNCHANGED <<status, val, usage, objectList, dst, src>>

\* delete: the destructor of a class with a thread joins it (~EBTimer), so no
\* thread makes a pointer from "this" any more.
JoinThreads(l) == /\ Goto(l, "join", "delete")
                  /\ \A u \in Threads : pc[u] = "construct" /\ src[u] = None
                                           => val[dst[u]] # victim[l]
                  /\ UNCHANGED <<status, val, usage, watch, locals>>

\* delete: the destructor of a pointer that is a member of the object.
DropMember(l, p) == /\ Goto(l, "delete", "drop")
                    /\ PointersUnlocked
                    /\ MemberOf[p] = victim[l] /\ val[p] # None
                    /\ Free(p)
                    /\ dst' = Set(dst, l, p)
                    /\ UNCHANGED <<status, val, usage, watch, src, victim>>

\* A destructor that leaves the pointers as they are.
FinishDeleteOnly(l) ==
    /\ Goto(l, "delete", "size")
    /\ \A p \in Pointers : MemberOf[p] = victim[l] => val[p] = None
    /\ status' = Set(status, victim[l], "dead")
    /\ users' = Set(users, victim[l], {})
    /\ victim' = Set(victim, l, None)
    /\ UNCHANGED <<revived, val, watch, dst, src>>

\* delete: ~EBObject nulls the pointers that still use it; the memory goes.
FinishDelete(l) ==
    /\ Goto(l, "delete", "size")
    /\ \A p \in Pointers : MemberOf[p] = victim[l] => val[p] = None
    /\ status' = Set(status, victim[l], "dead")
    /\ val' = [p \in Pointers |-> IF p \in users[victim[l]] THEN None ELSE val[p]]
    /\ users' = Set(users, victim[l], {})
    /\ victim' = Set(victim, l, None)
    /\ UNCHANGED <<revived, watch, dst, src>>

Destroy(l) == \/ CheckSize(l) \/ PopFront(l) \/ JoinThreads(l) \/ FinishDelete(l)
              \/ \E p \in Pointers : DropMember(l, p)

PointerCall(t) ==
    \/ \E p \in Pointers, o \in Objects : Create(t, p, o) \/ CopyThis(t, p, o)
    \/ \E p \in Pointers, q \in Pointers : Copy(t, p, q) \/ Assign(t, p, q)
    \/ \E p \in Pointers : Drop(t, p)

PointerStep(t) == \/ Construct(t) \/ DropUnuse(t) \/ DropUnlock(t)
                  \/ AssignUnuse(t) \/ AssignUnlock(t) \/ AssignCopy(t) \/ AssignUse(t)

Next == \/ \E t \in Threads : PointerCall(t) \/ PointerStep(t)
        \/ \E l \in Loops : BeginDestroy(l) \/ Destroy(l)

Spec == Init /\ [][Next]_vars

\* Slots return and the drain of the queue ends, so an event loop calls
\* destroyObjects() again and again (strong fairness: its slots assign
\* pointers in between); a thread that is inside destroyObjects() or inside an
\* operation on a pointer goes on when it is not waiting for a mutex.
Fairness == /\ \A l \in Loops : SF_vars(BeginDestroy(l)) /\ WF_vars(Destroy(l))
            /\ \A t \in Threads : WF_vars(PointerStep(t))

FairSpec == Spec /\ Fairness

-----------------------------------------------------------------------------

TypeOK == /\ status \in [Objects -> {"fresh", "alive", "dead"}]
          /\ val \in [Pointers -> Objects \cup {None}]
          /\ users \in [Objects -> SUBSET Pointers]
          /\ objectList \subseteq Objects
          /\ toBeDestroyed \in Seq(Objects)
          /\ pc \in [Threads -> PCs]
          /\ dst \in [Threads -> Pointers \cup {None}]
          /\ src \in [Threads -> Pointers \cup {None}]
          /\ victim \in [Threads -> Objects \cup {None}]
          /\ revived \subseteq Objects

\* An object is deleted at most once: at every moment a living object is in
\* the object list, or once in the list of objects to be destroyed, or in
\* the hands of one loop; a dead one is nowhere.  A pointer that brings a
\* queued object back to use and goes again must not queue it twice.
DeletedOnce ==
    /\ \A i, j \in 1 .. Len(toBeDestroyed) :
          toBeDestroyed[i] = toBeDestroyed[j] => i = j
    /\ Queued \cap objectList = {}
    /\ \A l \in Loops : victim[l] # None =>
          /\ victim[l] \notin Queued \cup objectList
          /\ \A m \in Loops : victim[m] = victim[l] => m = l
          /\ status[victim[l]] = "alive"
    /\ \A o \in Queued \cup objectList : status[o] = "alive"

\* Thread t has taken p out of the users of its object, or is past that.
LetGo(t, p) == dst[t] = p /\ pc[t] \in {"dropped", "unused", "copy", "freed"}

\* No pointer dangles, whatever loops delete while other threads copy, assign
\* and destroy pointers.  What a pointer points to is in memory, until the
\* pointer has let go of it.  The exception is a constructor or an operator=
\* between its read of the other pointer and its use(), when the object is
\* one that was already queued and only came back to use: ~EBObject nulls its
\* users, and cannot know this one.  And the pointers a thread works on stay
\* in memory over all its steps, although one of them may let go of the object
\* the other is a member of (p = p->next).
NoDanglingPointer ==
    /\ \A p \in Pointers : val[p] # None /\ status[val[p]] # "alive" =>
          \E t \in Threads : \/ LetGo(t, p)
                             \/ /\ dst[t] = p
                                /\ pc[t] \in {"first", "construct", "use"}
                                /\ val[p] \in revived
    /\ \A t \in Threads : /\ dst[t] # None => InMemory(dst[t])
                          /\ src[t] # None => InMemory(src[t])

\* The object knows its pointers: a pointer that is not in the middle of a
\* construction, a destruction or an assignment points to an object exactly
\* if the object counts it among its users.
UsersAgree ==
    \A p \in Pointers :
        (\A t \in Threads : dst[t] = p => pc[t] \in {"drop", "unuse"}) =>
            \A o \in Objects : val[p] = o <=> p \in users[o]

\* No object is forgotten: one that nobody uses has left the object list, so
\* it is queued or being deleted, or a thread is just making its first pointer.
UnusedIsQueued == \A o \in objectList : users[o] = {} =>
    \E t \in Threads : pc[t] = "first" /\ val[dst[t]] = o

\* An object that is deleted is used by no pointer: "This should never
\* happen" (EBObjectPointerBase::objectDeleted).  The exception are objects
\* that were used again while they waited for the end, by a pointer made from
\* "this" or by a self-assignment: nothing takes them back from the list.
DeletedUnused == \A l \in Loops :
    victim[l] # None /\ users[victim[l]] # {} => victim[l] \in revived

\* The two lists and the users of the objects tell the same story, at every
\* moment and whatever was assigned and deleted in between.
ListsAgree == UsersAgree /\ UnusedIsQueued /\ DeletedUnused

\* destroyObjects() never takes the front of an empty list.
NoPopFromEmpty == \A l \in Loops : pc[l] # "crashed"

\* What is queued is destroyed, and so is what its destruction queues, unless
\* other threads work on pointers for ever: a std::mutex promises nobody a turn.
QueuedIsDestroyed ==
    \/ []<>(\E t \in Threads \ Loops : pc[t] # "run")
    \/ \A o \in Objects : o \in Queued ~> status[o] = "dead"

=============================================================================
