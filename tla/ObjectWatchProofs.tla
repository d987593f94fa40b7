-------------------------- MODULE ObjectWatchProofs --------------------------
(***************************************************************************)
(* Proofs about ObjectWatch, for any objects and pointers, any nesting of  *)
(* pointers in objects, any number of event loops and of other threads.    *)
(***************************************************************************)
EXTENDS ObjectWatch, SequenceTheorems, TLAPS

Inside == {"first", "construct", "drop", "dropped", "unuse", "unused", "copy",
           "use", "freed"}
Assigning == {"unuse", "unused", "copy", "use"}
Deleting == {"join", "delete", "drop", "dropped", "freed"}

\* The local variables of a thread are set while it uses them.
LocalsInv == \A t \in Threads :
    /\ dst[t] # None <=> pc[t] \in Inside
    /\ pc[t] \in Assigning => src[t] # None
    /\ src[t] # None => pc[t] \in Assigning \cup {"construct", "freed"}
    /\ pc[t] \in {"join", "delete"} => victim[t] # None
    /\ victim[t] # None => t \in Loops /\ pc[t] \in Deleting

\* A pointer that a thread writes is nobody else's.
Exclusive == \A t, u \in Threads :
    dst[t] # None /\ (dst[u] = dst[t] \/ src[u] = dst[t]) => u = t

TypeInv == TypeOK /\ LocalsInv /\ Exclusive

\* What an unuse() may do to the users and the lists.
LEMMA RemoveUserType ==
    ASSUME TypeInv, NEW o \in Objects, NEW p \in Pointers, RemoveUser(o, p)
    PROVE  /\ users' \in [Objects -> SUBSET Pointers]
           /\ objectList' \subseteq Objects
           /\ toBeDestroyed' \in Seq(Objects)
           /\ revived' = revived
<1>1. users' \in [Objects -> SUBSET Pointers] /\ revived' = revived
  BY DEF TypeInv, TypeOK, RemoveUser, Set
<1>2. objectList' \subseteq Objects /\ toBeDestroyed' \in Seq(Objects)
  <2>1. objectList \subseteq Objects /\ toBeDestroyed \in Seq(Objects)
    BY DEF TypeInv, TypeOK
  <2>2. \/ /\ objectList' = objectList \ {o}
           /\ toBeDestroyed' = Append(toBeDestroyed, o)
        \/ objectList' = objectList /\ toBeDestroyed' = toBeDestroyed
    BY DEF RemoveUser, watch
  <2>3. Append(toBeDestroyed, o) \in Seq(Objects)
    BY <2>1, AppendProperties
  <2>4. QED
    BY <2>1, <2>2, <2>3
<1>3. QED
  BY <1>1, <1>2

\* An unuse() takes the pointer from a living object, or meets freed memory.
LEMMA UnuseCases ==
    ASSUME TypeInv, NEW t \in Threads, NEW from \in Inside, NEW to \in Inside,
           Unuse(t, from, to)
    PROVE  /\ pc[t] = from /\ dst[t] \in Pointers
           /\ UNCHANGED <<status, val, locals>>
           /\ \/ pc' = [pc EXCEPT ![t] = "freed"] /\ UNCHANGED <<usage, watch>>
                 /\ Gone(dst[t])
              \/ /\ pc' = [pc EXCEPT ![t] = to]
                 /\ val[dst[t]] \in Objects /\ status[val[dst[t]]] # "dead"
                 /\ Spares(val[dst[t]], dst[t])
                 /\ RemoveUser(val[dst[t]], dst[t])
  BY DEF Unuse, UseFreed, Goto, Gone, TypeInv, TypeOK, LocalsInv

LEMMA TypeOKStep == TypeInv /\ [Next]_vars => TypeOK'
<1> SUFFICES ASSUME TypeInv, [Next]_vars PROVE TypeOK'
  OBVIOUS
<1>0. LocalsInv /\ TypeOK
  BY DEF TypeInv
<1> USE ObjectWatchAssumption DEF TypeOK, PCs, Goto, Set, watch, locals, usage
<1>1. ASSUME NEW t \in Threads, NEW p \in Pointers, NEW o \in Objects,
             Create(t, p, o) \/ CopyThis(t, p, o)
      PROVE  TypeOK'
  <2>1. CASE Create(t, p, o)
    BY <1>0, <2>1 DEF Create
  <2>2. CASE CopyThis(t, p, o)
    BY <1>0, <2>2 DEF CopyThis
  <2>3. QED
    BY <1>1, <2>1, <2>2
<1>2. ASSUME NEW t \in Threads, NEW p \in Pointers, NEW q \in Pointers,
             Copy(t, p, q) \/ Assign(t, p, q)
      PROVE  TypeOK'
  BY <1>0, <1>2 DEF Copy, Assign
<1>3. ASSUME NEW t \in Threads, NEW p \in Pointers, Drop(t, p) PROVE TypeOK'
  BY <1>0, <1>3 DEF Drop
<1>4. ASSUME NEW t \in Threads, Construct(t) PROVE TypeOK'
  <2>1. dst[t] \in Pointers
    BY <1>0, <1>4 DEF Construct, LocalsInv, Inside
  <2>2. QED
    BY <1>0, <1>4, <2>1 DEF Construct, Use, UseFreed, Gone
<1>5. ASSUME NEW t \in Threads, AssignUse(t) PROVE TypeOK'
  <2>1. dst[t] \in Pointers
    BY <1>0, <1>5 DEF AssignUse, UseFreed, LocalsInv, Inside
  <2>2. QED
    BY <1>0, <1>5, <2>1 DEF AssignUse, Use, UseFreed, Gone
<1>6. ASSUME NEW t \in Threads, AssignUnuse(t) \/ DropUnuse(t) PROVE TypeOK'
  <2>1. /\ UNCHANGED <<status, val, locals>> /\ pc' \in [Threads -> PCs]
        /\ \/ UNCHANGED <<usage, watch>>
           \/ val[dst[t]] \in Objects /\ dst[t] \in Pointers
              /\ RemoveUser(val[dst[t]], dst[t])
    BY <1>0, <1>6, UnuseCases DEF AssignUnuse, DropUnuse, Inside
  <2>2. QED
    BY <1>0, <2>1, RemoveUserType
<1>7. ASSUME NEW t \in Threads, AssignUnlock(t) \/ DropUnlock(t) \/ AssignCopy(t)
      PROVE  TypeOK'
  <2>1. dst[t] \in Pointers /\ (AssignCopy(t) => src[t] \in Pointers)
    BY <1>0, <1>7 DEF AssignUnlock, DropUnlock, AssignCopy, Unlock, LocalsInv, Inside, Assigning
  <2>2. QED
    BY <1>0, <1>7, <2>1 DEF AssignUnlock, DropUnlock, AssignCopy, Unlock
<1>8. ASSUME NEW l \in Loops, BeginDestroy(l) \/ CheckSize(l) \/ JoinThreads(l)
      PROVE  TypeOK'
  BY <1>0, <1>8 DEF BeginDestroy, CheckSize, JoinThreads
<1>9. ASSUME NEW l \in Loops, PopFront(l) PROVE TypeOK'
  <2>1. CASE toBeDestroyed = <<>>
    BY <1>0, <1>9, <2>1 DEF PopFront
  <2>2. CASE toBeDestroyed # <<>>
    <3>1. PICK o \in Objects : o = Head(toBeDestroyed)
      BY <1>0, <2>2, HeadTailProperties
    <3>2. Tail(toBeDestroyed) \in Seq(Objects)
      BY <1>0, <2>2, HeadTailProperties
    <3>3. /\ pc' = [pc EXCEPT ![l] = "join"] /\ victim' = [victim EXCEPT ![l] = o]
          /\ toBeDestroyed' = Tail(toBeDestroyed)
          /\ UNCHANGED <<status, val, usage, objectList, dst, src>>
      BY <1>9, <2>2, <3>1 DEF PopFront
    <3>4. QED
      BY <1>0, <3>2, <3>3
  <2>3. QED
    BY <2>1, <2>2
<1>10. ASSUME NEW l \in Loops, NEW p \in Pointers, DropMember(l, p) PROVE TypeOK'
  BY <1>0, <1>10 DEF DropMember
<1>11. ASSUME NEW l \in Loops, FinishDelete(l) PROVE TypeOK'
  <2>1. victim[l] \in Objects
    BY <1>0, <1>11 DEF FinishDelete, LocalsInv
  <2>2. QED
    BY <1>0, <1>11, <2>1 DEF FinishDelete
<1>12. CASE UNCHANGED vars
  BY <1>0, <1>12 DEF vars
<1>13. QED
  BY <1>1, <1>2, <1>3, <1>4, <1>5, <1>6, <1>7, <1>8, <1>9, <1>10, <1>11, <1>12
  DEF Next, PointerCall, PointerStep, Destroy

LEMMA LocalsStep == TypeInv /\ TypeOK' /\ [Next]_vars => LocalsInv' /\ Exclusive'
<1> SUFFICES ASSUME TypeInv, TypeOK', [Next]_vars PROVE LocalsInv' /\ Exclusive'
  OBVIOUS
<1>0. /\ pc \in [Threads -> PCs] /\ None \notin Pointers /\ None \notin Objects
      /\ dst \in [Threads -> Pointers \cup {None}]
      /\ src \in [Threads -> Pointers \cup {None}]
      /\ victim \in [Threads -> Objects \cup {None}]
      /\ LocalsInv /\ Exclusive /\ Loops \subseteq Threads
  BY ObjectWatchAssumption DEF TypeInv, TypeOK
<1> USE DEF LocalsInv, Exclusive, Inside, Assigning, Deleting, Goto, Set, watch, locals,
            usage
<1>1. ASSUME NEW t \in Threads, NEW p \in Pointers, NEW o \in Objects,
             Create(t, p, o) \/ CopyThis(t, p, o)
      PROVE  LocalsInv' /\ Exclusive'
  BY <1>0, <1>1 DEF Create, CopyThis, Free
<1>2. ASSUME NEW t \in Threads, NEW p \in Pointers, NEW q \in Pointers, Copy(t, p, q)
      PROVE  LocalsInv' /\ Exclusive'
  BY <1>0, <1>2 DEF Copy, Free, Readable
<1>3. ASSUME NEW t \in Threads, NEW p \in Pointers, NEW q \in Pointers, Assign(t, p, q)
      PROVE  LocalsInv' /\ Exclusive'
  BY <1>0, <1>3 DEF Assign, Free, Readable
<1>4. ASSUME NEW t \in Threads, NEW p \in Pointers, Drop(t, p)
      PROVE  LocalsInv' /\ Exclusive'
  BY <1>0, <1>4 DEF Drop, Free
<1>5. ASSUME NEW t \in Threads, Construct(t) \/ AssignUse(t)
      PROVE  LocalsInv' /\ Exclusive'
  BY <1>0, <1>5 DEF Construct, AssignUse, UseFreed
<1>6. ASSUME NEW t \in Threads, AssignUnuse(t) \/ DropUnuse(t)
      PROVE  LocalsInv' /\ Exclusive'
  BY <1>0, <1>6 DEF AssignUnuse, DropUnuse, Unuse, UseFreed
<1>7. ASSUME NEW t \in Threads, AssignUnlock(t) \/ DropUnlock(t) \/ AssignCopy(t)
      PROVE  LocalsInv' /\ Exclusive'
  BY <1>0, <1>7 DEF AssignUnlock, DropUnlock, AssignCopy, Unlock
<1>8. ASSUME NEW l \in Loops, BeginDestroy(l) \/ CheckSize(l) \/ JoinThreads(l)
      PROVE  LocalsInv' /\ Exclusive'
  BY <1>0, <1>8 DEF BeginDestroy, CheckSize, JoinThreads
<1>9. ASSUME NEW l \in Loops, PopFront(l) PROVE LocalsInv' /\ Exclusive'
  <2>1. CASE toBeDestroyed = <<>>
    BY <1>0, <1>9, <2>1 DEF PopFront
  <2>2. CASE toBeDestroyed # <<>>
    <3>1. PICK o \in Objects : o = Head(toBeDestroyed)
      BY <2>2, HeadTailProperties DEF TypeInv, TypeOK
    <3>2. /\ pc[l] = "pop" /\ pc' = [pc EXCEPT ![l] = "join"]
          /\ victim' = [victim EXCEPT ![l] = o] /\ UNCHANGED <<dst, src>>
      BY <1>9, <2>2, <3>1 DEF PopFront
    <3>3. QED
      BY <1>0, <3>2
  <2>3. QED
    BY <2>1, <2>2
<1>10. ASSUME NEW l \in Loops, NEW p \in Pointers, DropMember(l, p)
       PROVE  LocalsInv' /\ Exclusive'
  BY <1>0, <1>10 DEF DropMember, Free
<1>11. ASSUME NEW l \in Loops, FinishDelete(l) PROVE LocalsInv' /\ Exclusive'
  BY <1>0, <1>11 DEF FinishDelete
<1>12. CASE UNCHANGED vars
  BY <1>12, <1>0 DEF vars
<1>13. QED
  BY <1>1, <1>2, <1>3, <1>4, <1>5, <1>6, <1>7, <1>8, <1>9, <1>10, <1>11, <1>12
  DEF Next, PointerCall, PointerStep, Destroy

\* Every variable keeps its type, and each thread's local variables are set
\* exactly while it uses them.
THEOREM TypeInvariance == Spec => []TypeInv
<1>1. Init => TypeInv
  BY EmptySeq, ObjectWatchAssumption
  DEF Init, TypeInv, TypeOK, LocalsInv, Exclusive, PCs, Inside, Assigning, Deleting
<1>2. TypeInv /\ [Next]_vars => TypeInv'
  BY TypeOKStep, LocalsStep DEF TypeInv
<1>3. QED
  BY <1>1, <1>2, PTL DEF Spec

\* The lists, the users of the objects and the pointers keep their types
\* whatever the threads assign and the loops destroy.
THEOREM TypeCorrect == Spec => []TypeOK
BY TypeInvariance, PTL DEF TypeInv

(***************************************************************************)
(* No object is deleted twice.                                             *)
(***************************************************************************)
Distinct(s) == \A i, j \in 1 .. Len(s) : s[i] = s[j] => i = j
Members(s) == {s[i] : i \in 1 .. Len(s)}

LEMMA DistinctAppend ==
    ASSUME NEW S, NEW s \in Seq(S), NEW e \in S, Distinct(s), e \notin Members(s)
    PROVE  /\ Distinct(Append(s, e))
           /\ Members(Append(s, e)) = Members(s) \cup {e}
<1>1. /\ Len(Append(s, e)) = Len(s) + 1
      /\ Len(s) \in Nat
      /\ \A i \in 1 .. Len(s) : Append(s, e)[i] = s[i]
      /\ Append(s, e)[Len(s) + 1] = e
  BY AppendProperties, LenProperties
<1>2. QED
  BY <1>1 DEF Distinct, Members

LEMMA DistinctTail ==
    ASSUME NEW S, NEW s \in Seq(S), s # <<>>, Distinct(s)
    PROVE  /\ Distinct(Tail(s))
           /\ Members(Tail(s)) \subseteq Members(s)
           /\ Head(s) \in Members(s) /\ Head(s) \notin Members(Tail(s))
<1>1. /\ Len(Tail(s)) = Len(s) - 1
      /\ \A i \in 1 .. Len(Tail(s)) : Tail(s)[i] = s[i + 1]
      /\ Len(s) \in Nat \ {0}
      /\ Head(s) = s[1]
  BY HeadTailProperties, EmptySeq, LenProperties
<1>2. QED
  BY <1>1 DEF Distinct, Members

\* What an unuse() does to the two lists: nothing, or one object moves.
LEMMA RemoveUserMoves ==
    ASSUME TypeInv, DeletedOnce, NEW o \in Objects, NEW p \in Pointers,
           RemoveUser(o, p)
    PROVE  /\ Distinct(toBeDestroyed')
           /\ Queued' \cap objectList' = {}
           /\ Queued' \cup objectList' = Queued \cup objectList
<1>1. Distinct(toBeDestroyed) /\ Queued = Members(toBeDestroyed)
      /\ Queued' = Members(toBeDestroyed')
  BY DEF DeletedOnce, Distinct, Members, Queued
<1>2. CASE users[o] \ {p} = {} /\ o \in objectList
  <2>1. toBeDestroyed' = Append(toBeDestroyed, o) /\ objectList' = objectList \ {o}
    BY <1>2 DEF RemoveUser
  <2>2. o \notin Members(toBeDestroyed)
    BY <1>1, <1>2 DEF DeletedOnce
  <2>3. /\ Distinct(toBeDestroyed')
        /\ Members(toBeDestroyed') = Members(toBeDestroyed) \cup {o}
    BY <1>1, <2>1, <2>2, DistinctAppend DEF TypeInv, TypeOK
  <2>4. QED
    BY <1>1, <1>2, <2>1, <2>3 DEF DeletedOnce
<1>3. CASE ~(users[o] \ {p} = {} /\ o \in objectList)
  <2>1. UNCHANGED <<objectList, toBeDestroyed>>
    BY <1>3 DEF RemoveUser, watch
  <2>2. QED
    BY <1>1, <2>1 DEF DeletedOnce, Queued
<1>4. QED
  BY <1>2, <1>3

\* DeletedOnce survives a step that only moves objects between the lists.
LEMMA MovesKeepDeletedOnce ==
    ASSUME DeletedOnce, Distinct(toBeDestroyed'),
           Queued' \cap objectList' = {},
           Queued' \cup objectList' = Queued \cup objectList,
           UNCHANGED <<status, victim>>
    PROVE  DeletedOnce'
  BY DEF DeletedOnce, Distinct

LEMMA DeletedOnceStep == TypeInv /\ DeletedOnce /\ [Next]_vars => DeletedOnce'
<1> SUFFICES ASSUME TypeInv, DeletedOnce, [Next]_vars PROVE DeletedOnce'
  OBVIOUS
<1> USE DEF watch, locals, usage
<1>1. ASSUME UNCHANGED <<status, objectList, toBeDestroyed, victim>>
      PROVE  DeletedOnce'
  BY <1>1 DEF DeletedOnce, Queued
<1>2. ASSUME NEW t \in Threads, NEW p \in Pointers, NEW o \in Objects,
             Create(t, p, o)
      PROVE  DeletedOnce'
  <2>1. /\ status[o] = "fresh" /\ status' = [status EXCEPT ![o] = "alive"]
        /\ objectList' = objectList \cup {o}
        /\ UNCHANGED <<toBeDestroyed, victim>>
    BY <1>2 DEF Create, Set
  <2>2. o \notin Queued /\ \A m \in Loops : victim[m] # o
    BY <2>1, ObjectWatchAssumption DEF DeletedOnce, TypeInv, TypeOK
  <2>3. Queued' = Queued
    BY <2>1 DEF Queued
  <2>4. QED
    BY <2>1, <2>2, <2>3, ObjectWatchAssumption DEF DeletedOnce, TypeInv, TypeOK
<1>3. ASSUME NEW t \in Threads, AssignUnuse(t) \/ DropUnuse(t) PROVE DeletedOnce'
  <2>1. /\ UNCHANGED <<status, victim>>
        /\ \/ UNCHANGED <<objectList, toBeDestroyed>>
           \/ val[dst[t]] \in Objects /\ dst[t] \in Pointers
              /\ RemoveUser(val[dst[t]], dst[t])
    BY <1>3, UnuseCases DEF AssignUnuse, DropUnuse, Inside
  <2>2. QED
    BY <1>1, <2>1, RemoveUserMoves, MovesKeepDeletedOnce
<1>4. ASSUME NEW l \in Loops, PopFront(l) PROVE DeletedOnce'
  <2>1. CASE toBeDestroyed = <<>>
    BY <1>1, <1>4, <2>1 DEF PopFront
  <2>2. CASE toBeDestroyed # <<>>
    <3>1. PICK o : o = Head(toBeDestroyed)
      OBVIOUS
    <3>2. /\ victim' = [victim EXCEPT ![l] = o]
          /\ toBeDestroyed' = Tail(toBeDestroyed)
          /\ UNCHANGED <<status, objectList>>
      BY <1>4, <2>2, <3>1 DEF PopFront, Set
    <3>3. /\ Distinct(toBeDestroyed) /\ Queued = Members(toBeDestroyed)
          /\ Queued' = Members(toBeDestroyed')
      BY DEF DeletedOnce, Distinct, Members, Queued
    <3>4. /\ Distinct(toBeDestroyed') /\ Queued' \subseteq Queued
          /\ o \in Queued /\ o \notin Queued'
      BY <2>2, <3>1, <3>2, <3>3, DistinctTail DEF TypeInv, TypeOK
    <3>5. o \in Objects /\ o # None
      BY <2>2, <3>1, HeadTailProperties, ObjectWatchAssumption DEF TypeInv, TypeOK
    <3>6. \A m \in Loops : victim[m] # o
      BY <3>4, <3>5 DEF DeletedOnce
    <3>7. l \in Threads
      BY ObjectWatchAssumption
    <3>8. QED
      BY <3>2, <3>4, <3>5, <3>6, <3>7, ObjectWatchAssumption
      DEF DeletedOnce, Distinct, TypeInv, TypeOK
  <2>3. QED
    BY <2>1, <2>2
<1>5. ASSUME NEW l \in Loops, FinishDelete(l) PROVE DeletedOnce'
  <2>1. /\ pc[l] = "delete" /\ victim[l] # None /\ l \in Threads
        /\ status' = [status EXCEPT ![victim[l]] = "dead"]
        /\ victim' = [victim EXCEPT ![l] = None]
        /\ UNCHANGED <<objectList, toBeDestroyed>>
    BY <1>5, ObjectWatchAssumption DEF FinishDelete, Goto, Set, TypeInv, LocalsInv
  <2>2. Queued' = Queued
    BY <2>1 DEF Queued
  <2>3. QED
    BY <2>1, <2>2, ObjectWatchAssumption DEF DeletedOnce, TypeInv, TypeOK
<1>6. ASSUME NEW t \in Threads, Construct(t) \/ AssignUse(t) PROVE DeletedOnce'
  BY <1>1, <1>6 DEF Construct, AssignUse, UseFreed
<1>7. QED
  BY <1>1, <1>2, <1>3, <1>4, <1>5, <1>6
  DEF Next, PointerCall, PointerStep, Destroy, CopyThis, Copy, Assign, Drop, DropUnlock,
      AssignUnlock, AssignCopy, BeginDestroy, CheckSize, JoinThreads, DropMember, vars

\* However many loops run destroyObjects() at once, and whatever pointers
\* come and go meanwhile, no object is queued or deleted twice.
THEOREM NoDoubleDelete == Spec => []DeletedOnce
<1>1. Init => DeletedOnce
  BY EmptySeq, ObjectWatchAssumption DEF Init, DeletedOnce, Queued
<1>2. QED
  BY <1>1, TypeInvariance, DeletedOnceStep, PTL DEF Spec

(***************************************************************************)
(* Pointers and the users of the objects.                                  *)
(***************************************************************************)
Loose == {"first", "construct", "dropped", "unused", "copy", "use", "freed"}

Agrees(p) == \A o \in Objects : val[p] = o <=> p \in users[o]
UsesNone(p) == \A o \in Objects : p \notin users[o]

\* A pointer that is being made, or has let go of its object, is no user.
LooseUsesNone == \A t \in Threads : pc[t] \in Loose => UsesNone(dst[t])

\* A pointer never points to an object that has not been created.
PointsToCreated == \A p \in Pointers : val[p] # None => status[val[p]] # "fresh"

OnlyLivingAreUsed == \A o \in Objects : users[o] # {} => status[o] = "alive"

Agreement == UsersAgree /\ LooseUsesNone /\ PointsToCreated /\ OnlyLivingAreUsed

\* A step of thread t that concerns no pointer but p.
Touches(t, p) ==
    /\ \A u \in Threads : u # t => pc'[u] = pc[u] /\ dst'[u] = dst[u] /\ dst[u] # p
    /\ dst[t] \in {None, p} /\ dst'[t] \in {None, p}
    /\ \A q \in Pointers : q # p =>
          val'[q] = val[q] /\ \A o \in Objects : q \in users'[o] <=> q \in users[o]

LEMMA TouchedAgrees ==
    ASSUME TypeInv, TypeInv', NEW t \in Threads, NEW p \in Pointers,
           UsersAgree, LooseUsesNone, Touches(t, p),
           pc'[t] \in Loose => UsesNone(p)',
           pc'[t] \notin Loose => Agrees(p)'
    PROVE  UsersAgree' /\ LooseUsesNone'
<1>1. /\ \A u \in Threads : dst[u] # None <=> pc[u] \in Inside
      /\ \A u \in Threads : dst'[u] # None <=> pc'[u] \in Inside
      /\ None \notin Pointers /\ Inside = Loose \cup {"drop", "unuse"}
      /\ "drop" \notin Loose /\ "unuse" \notin Loose
  BY ObjectWatchAssumption DEF TypeInv, LocalsInv, Inside, Loose
<1>2. ASSUME NEW q \in Pointers,
             \A u \in Threads : dst'[u] = q => pc'[u] \in {"drop", "unuse"}
      PROVE  Agrees(q)'
  <2>1. CASE q = p
    <3>1. pc'[t] \notin Loose
      BY <1>1, <1>2, <2>1 DEF Touches
    <3>2. QED
      BY <2>1, <3>1
  <2>2. CASE q # p
    <3>1. \A u \in Threads : dst[u] = q => pc[u] \in {"drop", "unuse"}
      BY <1>1, <1>2, <2>2 DEF Touches
    <3>2. Agrees(q)
      BY <3>1 DEF UsersAgree, Agrees
    <3>3. QED
      BY <2>2, <3>2 DEF Touches, Agrees
  <2>3. QED
    BY <2>1, <2>2
<1>3. UsersAgree'
  BY <1>2 DEF UsersAgree, Agrees
<1>4. ASSUME NEW u \in Threads, pc'[u] \in Loose PROVE UsesNone(dst[u])'
  <2>1. CASE u = t
    BY <1>1, <1>4, <2>1 DEF Touches
  <2>2. CASE u # t
    <3>1. dst[u] \in Pointers /\ dst[u] # p /\ dst'[u] = dst[u] /\ UsesNone(dst[u])
      BY <1>1, <1>4, <2>2 DEF Touches, LooseUsesNone, TypeInv, TypeOK
    <3>2. QED
      BY <3>1 DEF Touches, UsesNone
  <2>3. QED
    BY <2>1, <2>2
<1>5. QED
  BY <1>3, <1>4 DEF LooseUsesNone

\* A pointer nobody works on, or before its unuse(), agrees with its object.
LEMMA SettledAgrees ==
    ASSUME TypeInv, UsersAgree, NEW p \in Pointers,
           \/ Free(p)
           \/ \E t \in Threads : dst[t] = p /\ pc[t] \in {"drop", "unuse"}
    PROVE  Agrees(p)
  BY ObjectWatchAssumption DEF UsersAgree, Agrees, Free, TypeInv, Exclusive

LEMMA AgreementStep ==
    TypeInv /\ TypeInv' /\ DeletedOnce /\ Agreement /\ [Next]_vars => Agreement'
<1> SUFFICES ASSUME TypeInv, TypeInv', DeletedOnce, Agreement, [Next]_vars
             PROVE  Agreement'
  OBVIOUS
<1>0. /\ None \notin Objects /\ None \notin Pointers /\ Loops \subseteq Threads
      /\ val \in [Pointers -> Objects \cup {None}]
      /\ status \in [Objects -> {"fresh", "alive", "dead"}]
      /\ users \in [Objects -> SUBSET Pointers]
      /\ pc \in [Threads -> PCs]
      /\ dst \in [Threads -> Pointers \cup {None}]
      /\ src \in [Threads -> Pointers \cup {None}]
      /\ victim \in [Threads -> Objects \cup {None}]
      /\ LocalsInv /\ Exclusive
  BY ObjectWatchAssumption DEF TypeInv, TypeOK
<1>a. UsersAgree /\ LooseUsesNone /\ PointsToCreated /\ OnlyLivingAreUsed
  BY DEF Agreement
<1> USE DEF Goto, Set, watch, locals, usage
<1>1. ASSUME NEW t \in Threads, NEW p \in Pointers, NEW o \in Objects,
             Create(t, p, o) \/ CopyThis(t, p, o)
      PROVE  Agreement'
  <2>1. /\ pc[t] = "run" /\ pc' = [pc EXCEPT ![t] = pc'[t]]
        /\ pc'[t] \in {"first", "construct"}
        /\ Free(p) /\ val[p] = None /\ val' = [val EXCEPT ![p] = o]
        /\ dst' = [dst EXCEPT ![t] = p] /\ users' = users
        /\ status'[o] = "alive" /\ \A x \in Objects : x # o => status'[x] = status[x]
    BY <1>0, <1>1 DEF Create, CopyThis
  <2>2. Touches(t, p)
    BY <1>0, <2>1 DEF Touches, Free, LocalsInv, Inside
  <2>3. UsesNone(p)
    BY <1>0, <1>a, <2>1, SettledAgrees DEF Agrees, UsesNone
  <2>4. UsersAgree' /\ LooseUsesNone'
    BY <1>a, <2>1, <2>2, <2>3, TouchedAgrees DEF Loose, UsesNone
  <2>5. PointsToCreated' /\ OnlyLivingAreUsed'
    BY <1>0, <1>a, <2>1 DEF PointsToCreated, OnlyLivingAreUsed
  <2>6. QED
    BY <2>4, <2>5 DEF Agreement
<1>2. ASSUME NEW t \in Threads, NEW p \in Pointers, NEW q \in Pointers, Copy(t, p, q)
      PROVE  Agreement'
  <2>1. /\ pc[t] = "run" /\ pc' = [pc EXCEPT ![t] = "construct"]
        /\ Free(p) /\ val[p] = None /\ val' = [val EXCEPT ![p] = val[q]]
        /\ dst' = [dst EXCEPT ![t] = p] /\ users' = users /\ status' = status
    BY <1>0, <1>2 DEF Copy
  <2>2. Touches(t, p)
    BY <1>0, <2>1 DEF Touches, Free, LocalsInv, Inside
  <2>3. UsesNone(p)
    BY <1>0, <1>a, <2>1, SettledAgrees DEF Agrees, UsesNone
  <2>4. UsersAgree' /\ LooseUsesNone'
    BY <1>0, <1>a, <2>1, <2>2, <2>3, TouchedAgrees DEF Loose, UsesNone
  <2>5. PointsToCreated' /\ OnlyLivingAreUsed'
    BY <1>0, <1>a, <2>1 DEF PointsToCreated, OnlyLivingAreUsed
  <2>6. QED
    BY <2>4, <2>5 DEF Agreement
<1>3. ASSUME NEW t \in Threads, NEW p \in Pointers,
             \/ Drop(t, p) \/ (t \in Loops /\ DropMember(t, p))
             \/ \E q \in Pointers : Assign(t, p, q)
      PROVE  Agreement'
  <2>1. /\ pc[t] \in {"run", "delete"} /\ pc' = [pc EXCEPT ![t] = pc'[t]]
        /\ pc'[t] \in {"drop", "unuse"} \/ (pc'[t] = "copy" /\ val[p] = None)
        /\ Free(p) /\ dst' = [dst EXCEPT ![t] = p]
        /\ UNCHANGED <<val, users, status>>
    BY <1>0, <1>3 DEF Drop, DropMember, Assign
  <2>2. Touches(t, p)
    BY <1>0, <2>1 DEF Touches, Free, LocalsInv, Inside
  <2>3. Agrees(p)
    BY <1>a, <2>1, SettledAgrees
  <2>4. /\ Agrees(p)' /\ (val[p] = None => UsesNone(p)')
    BY <1>0, <2>1, <2>3 DEF Agrees, UsesNone
  <2>5. UsersAgree' /\ LooseUsesNone'
    BY <1>a, <2>1, <2>2, <2>4, TouchedAgrees DEF Loose
  <2>6. QED
    BY <1>a, <2>1, <2>5 DEF Agreement, PointsToCreated, OnlyLivingAreUsed
<1>4. ASSUME NEW t \in Threads, Construct(t) \/ AssignUse(t) PROVE Agreement'
  <2>1. PICK p \in Pointers : p = dst[t]
    BY <1>0, <1>4 DEF Construct, AssignUse, UseFreed, LocalsInv, Inside
  <2>2. pc[t] \in Loose /\ UNCHANGED <<val, status>>
    BY <1>4 DEF Construct, AssignUse, UseFreed, Loose
  <2>3. UsesNone(p)
    BY <1>a, <2>1, <2>2 DEF LooseUsesNone
  <2>4. \A u \in Threads : u # t => dst[u] # p
    BY <1>0, <2>1 DEF Exclusive
  <2>5. CASE pc' = [pc EXCEPT ![t] = "freed"]
    <3>1. UNCHANGED <<users, dst>>
      BY <1>0, <1>4, <2>1, <2>5 DEF Construct, AssignUse, UseFreed
    <3>2. Touches(t, p)
      BY <1>0, <2>1, <2>2, <2>4, <2>5, <3>1 DEF Touches
    <3>3. UsesNone(p)' /\ pc'[t] \in Loose
      BY <1>0, <2>3, <2>5, <3>1 DEF UsesNone, Loose
    <3>4. UsersAgree' /\ LooseUsesNone'
      BY <1>a, <3>2, <3>3, TouchedAgrees
    <3>5. QED
      BY <1>a, <2>2, <3>1, <3>4 DEF Agreement, PointsToCreated, OnlyLivingAreUsed
  <2>6. CASE pc' = [pc EXCEPT ![t] = "run"] /\ dst' = [dst EXCEPT ![t] = None]
             /\ val[p] = None /\ users' = users
    <3>1. Touches(t, p)
      BY <1>0, <2>1, <2>2, <2>4, <2>6 DEF Touches
    <3>2. Agrees(p)' /\ pc'[t] \notin Loose
      BY <1>0, <2>2, <2>3, <2>6 DEF UsesNone, Agrees, Loose
    <3>3. UsersAgree' /\ LooseUsesNone'
      BY <1>a, <3>1, <3>2, TouchedAgrees
    <3>4. QED
      BY <1>a, <2>2, <2>6, <3>3 DEF Agreement, PointsToCreated, OnlyLivingAreUsed
  <2>7. CASE pc' = [pc EXCEPT ![t] = "run"] /\ dst' = [dst EXCEPT ![t] = None]
             /\ ~Gone(p) /\ users' = [users EXCEPT ![val[p]] = users[val[p]] \cup {p}]
    <3>1. PICK o \in Objects : o = val[p] /\ status[o] = "alive"
      BY <1>0, <1>a, <2>7 DEF Gone, PointsToCreated
    <3>2. Touches(t, p)
      BY <1>0, <2>1, <2>2, <2>4, <2>7, <3>1 DEF Touches
    <3>3. Agrees(p)' /\ pc'[t] \notin Loose
      BY <1>0, <2>2, <2>3, <2>7, <3>1 DEF UsesNone, Agrees, Loose
    <3>4. UsersAgree' /\ LooseUsesNone'
      BY <1>a, <3>2, <3>3, TouchedAgrees
    <3>5. PointsToCreated' /\ OnlyLivingAreUsed'
      BY <1>0, <1>a, <2>2, <2>7, <3>1 DEF PointsToCreated, OnlyLivingAreUsed
    <3>6. QED
      BY <3>4, <3>5 DEF Agreement
  <2>8. QED
    BY <1>4, <2>1, <2>5, <2>6, <2>7 DEF Construct, AssignUse, UseFreed, Use, Gone
<1>5. ASSUME NEW t \in Threads, AssignUnuse(t) \/ DropUnuse(t) PROVE Agreement'
  <2>1. PICK p \in Pointers : p = dst[t]
    BY <1>5, UnuseCases DEF AssignUnuse, DropUnuse, Inside
  <2>2. /\ pc[t] \in {"drop", "unuse"} /\ UNCHANGED <<val, status, dst>>
        /\ \/ pc' = [pc EXCEPT ![t] = "freed"] /\ users' = users /\ Gone(p)
           \/ /\ pc' = [pc EXCEPT ![t] = IF pc[t] = "drop" THEN "dropped" ELSE "unused"]
              /\ users' = [users EXCEPT ![val[p]] = users[val[p]] \ {p}]
              /\ val[p] \in Objects
    BY <1>0, <1>5, <2>1, UnuseCases DEF AssignUnuse, DropUnuse, Inside, RemoveUser
  <2>3. Agrees(p)
    BY <1>a, <2>1, <2>2, SettledAgrees
  <2>4. Touches(t, p)
    BY <1>0, <2>1, <2>2 DEF Touches, Exclusive
  <2>5. UsesNone(p)'
    BY <1>0, <1>a, <2>2, <2>3 DEF Agrees, UsesNone, Gone, OnlyLivingAreUsed
  <2>6. pc'[t] \in Loose
    BY <1>0, <2>2 DEF Loose
  <2>7. UsersAgree' /\ LooseUsesNone'
    BY <1>a, <2>4, <2>5, <2>6, TouchedAgrees
  <2>8. PointsToCreated' /\ OnlyLivingAreUsed'
    BY <1>0, <1>a, <2>2 DEF PointsToCreated, OnlyLivingAreUsed
  <2>9. QED
    BY <2>7, <2>8 DEF Agreement
<1>6. ASSUME NEW t \in Threads, AssignUnlock(t) \/ DropUnlock(t) \/ AssignCopy(t)
      PROVE  Agreement'
  <2>1. PICK p \in Pointers : p = dst[t]
    BY <1>0, <1>6 DEF AssignUnlock, DropUnlock, AssignCopy, Unlock, LocalsInv, Inside
  <2>2. /\ pc[t] \in Loose /\ UNCHANGED <<users, status>>
        /\ pc' = [pc EXCEPT ![t] = pc'[t]]
        /\ \/ pc'[t] \in Loose /\ dst' = dst
           \/ /\ pc'[t] \notin Loose
              /\ dst' = [dst EXCEPT ![t] = None] /\ val' = [val EXCEPT ![p] = None]
        /\ \/ val' = val \/ val' = [val EXCEPT ![p] = None]
           \/ src[t] \in Pointers /\ val' = [val EXCEPT ![p] = val[src[t]]]
    BY <1>0, <1>6, <2>1
    DEF AssignUnlock, DropUnlock, AssignCopy, Unlock, Loose, LocalsInv, Assigning
  <2>3. UsesNone(p)
    BY <1>a, <2>1, <2>2 DEF LooseUsesNone
  <2>4. Touches(t, p)
    BY <1>0, <2>1, <2>2 DEF Touches, Exclusive
  <2>5. UsesNone(p)' /\ (pc'[t] \notin Loose => Agrees(p)')
    BY <1>0, <2>2, <2>3 DEF Agrees, UsesNone
  <2>6. UsersAgree' /\ LooseUsesNone'
    BY <1>a, <2>4, <2>5, TouchedAgrees
  <2>7. PointsToCreated' /\ OnlyLivingAreUsed'
    BY <1>0, <1>a, <2>2 DEF PointsToCreated, OnlyLivingAreUsed
  <2>8. QED
    BY <2>6, <2>7 DEF Agreement
<1>7. ASSUME NEW l \in Loops,
             BeginDestroy(l) \/ CheckSize(l) \/ PopFront(l) \/ JoinThreads(l)
      PROVE  Agreement'
  <2>1. /\ UNCHANGED <<val, users, status, dst>> /\ pc' = [pc EXCEPT ![l] = pc'[l]]
        /\ pc[l] \in {"run", "size", "pop", "join"}
        /\ pc'[l] \in {"run", "size", "pop", "join", "delete", "crashed"}
    BY <1>0, <1>7 DEF BeginDestroy, CheckSize, PopFront, JoinThreads
  <2>2. dst[l] = None /\ l \in Threads
    BY <1>0, <2>1 DEF LocalsInv, Inside
  <2>3. UsersAgree' /\ LooseUsesNone'
    BY <1>0, <1>a, <2>1, <2>2 DEF UsersAgree, LooseUsesNone, UsesNone, Loose
  <2>4. QED
    BY <1>a, <2>1, <2>3 DEF Agreement, PointsToCreated, OnlyLivingAreUsed
<1>8. ASSUME NEW l \in Loops, FinishDelete(l) PROVE Agreement'
  <2>1. PICK v \in Objects : v = victim[l]
    BY <1>0, <1>8 DEF FinishDelete, LocalsInv
  <2>2. /\ pc[l] = "delete" /\ pc' = [pc EXCEPT ![l] = "size"]
        /\ status' = [status EXCEPT ![v] = "dead"] /\ dst' = dst
        /\ val' = [p \in Pointers |-> IF p \in users[v] THEN None ELSE val[p]]
        /\ users' = [users EXCEPT ![v] = {}]
    BY <1>0, <1>8, <2>1 DEF FinishDelete
  <2>3. dst[l] = None /\ l \in Threads
    BY <1>0, <2>2 DEF LocalsInv, Inside
  <2>4. ASSUME NEW p \in Pointers, Agrees(p) PROVE Agrees(p)'
    BY <1>0, <2>2, <2>4 DEF Agrees
  <2>5. UsersAgree'
    <3>1. ASSUME NEW p \in Pointers,
                 \A t \in Threads : dst'[t] = p => pc'[t] \in {"drop", "unuse"}
          PROVE  Agrees(p)'
      <4>1. \A t \in Threads : dst[t] = p => pc[t] \in {"drop", "unuse"}
        BY <1>0, <2>2, <2>3, <3>1
      <4>2. QED
        BY <1>a, <2>4, <4>1 DEF UsersAgree, Agrees
    <3>2. QED
      BY <3>1 DEF UsersAgree, Agrees
  <2>6. LooseUsesNone'
    BY <1>0, <1>a, <2>2 DEF LooseUsesNone, UsesNone, Loose
  <2>7. PointsToCreated' /\ OnlyLivingAreUsed'
    BY <1>0, <1>a, <2>2 DEF PointsToCreated, OnlyLivingAreUsed
  <2>8. QED
    BY <2>5, <2>6, <2>7 DEF Agreement
<1>9. CASE UNCHANGED vars
  BY <1>9 DEF vars, Agreement, UsersAgree, LooseUsesNone, UsesNone, PointsToCreated,
              OnlyLivingAreUsed
<1>10. QED
  BY <1>0, <1>1, <1>2, <1>3, <1>4, <1>5, <1>6, <1>7, <1>8, <1>9
  DEF Next, PointerCall, PointerStep, Destroy

LEMMA AgreementInvariance == Spec => []Agreement
<1>1. Init => Agreement
  BY ObjectWatchAssumption
  DEF Init, Agreement, UsersAgree, LooseUsesNone, PointsToCreated, OnlyLivingAreUsed, Loose
<1>2. QED
  BY <1>1, TypeInvariance, NoDoubleDelete, AgreementStep, PTL DEF Spec

(***************************************************************************)
(* The lists and the users of the objects.                                 *)
(***************************************************************************)

\* Every user of an object that is not in the object list came while the
\* program had no pointer to the object.
LateUsersRevive == \A o \in Objects :
    users[o] # {} /\ o \notin objectList => o \in revived

\* Thread t has created o and not yet made its first pointer.
Creates(t, o) == pc[t] = "first" /\ val[dst[t]] = o

\* An object waits for its first pointer, unless somebody used it meanwhile.
Waits(o) == o \in revived \/ (o \in objectList /\ users[o] = {})

CreatedWaits == \A t \in Threads : pc[t] = "first" =>
    \E o \in Objects : /\ Creates(t, o) /\ Waits(o)
                       /\ \A u \in Threads : Creates(u, o) => u = t

Story == UnusedIsQueued /\ LateUsersRevive /\ CreatedWaits

\* A step in which no thread begins or ends the creation of an object.
SameCreators == \A u \in Threads :
    /\ pc'[u] = "first" <=> pc[u] = "first"
    /\ pc[u] = "first" => val'[dst'[u]] = val[dst[u]]

LEMMA SameStory ==
    ASSUME Story, SameCreators, UNCHANGED <<users, revived, objectList>>
    PROVE  Story'
<1>1. \A u \in Threads : \A o : Creates(u, o)' <=> Creates(u, o)
  BY DEF SameCreators, Creates
<1>2. UnusedIsQueued' /\ LateUsersRevive'
  BY <1>1 DEF Story, UnusedIsQueued, LateUsersRevive, Creates
<1>3. CreatedWaits'
  BY <1>1 DEF Story, CreatedWaits, Waits, SameCreators
<1>4. QED
  BY <1>2, <1>3 DEF Story

\* What the other threads create is not disturbed by a step on one pointer.
LEMMA TouchedCreators ==
    ASSUME TypeInv, NEW t \in Threads, NEW p \in Pointers, Touches(t, p)
    PROVE  \A u \in Threads : u # t =>
              /\ pc'[u] = "first" <=> pc[u] = "first"
              /\ pc[u] = "first" => val'[dst'[u]] = val[dst[u]]
  BY ObjectWatchAssumption DEF Touches, TypeInv, TypeOK, LocalsInv, Inside

LEMMA UseKeepsStory ==
    ASSUME TypeInv, Story, NEW t \in Threads, NEW p \in Pointers, p = dst[t],
           NEW o \in Objects, o = val[p], Use(t, o, p), Touches(t, p),
           pc'[t] # "first", UNCHANGED objectList
    PROVE  Story'
<1>1. /\ users' = [users EXCEPT ![o] = users[o] \cup {p}]
      /\ revived' = IF o \in objectList /\ (users[o] # {} \/ pc[t] = "first")
                    THEN revived ELSE revived \cup {o}
      /\ users \in [Objects -> SUBSET Pointers] /\ objectList \subseteq Objects
  BY DEF Use, Set, TypeInv, TypeOK
<1>2. \A u \in Threads : \A x : u # t => (Creates(u, x)' <=> Creates(u, x))
  BY TouchedCreators DEF Creates
<1>3. UnusedIsQueued'
  <2>1. ASSUME NEW x \in objectList, users'[x] = {}
        PROVE  \E u \in Threads : Creates(u, x)'
    <3>1. x # o /\ users[x] = {} /\ x \in Objects
      BY <1>1, <2>1
    <3>2. PICK u \in Threads : Creates(u, x)
      BY <3>1 DEF Story, UnusedIsQueued, Creates
    <3>3. u # t
      BY <3>1, <3>2 DEF Creates
    <3>4. QED
      BY <1>2, <3>2, <3>3
  <2>2. QED
    BY <2>1 DEF UnusedIsQueued, Creates
<1>4. LateUsersRevive'
  BY <1>1 DEF Story, LateUsersRevive
<1>5. CreatedWaits'
  <2>1. ASSUME NEW u \in Threads, pc'[u] = "first"
        PROVE  \E x \in Objects : /\ Creates(u, x)' /\ Waits(x)'
                                  /\ \A w \in Threads : Creates(w, x)' => w = u
    <3>1. u # t
      BY <2>1
    <3>2. PICK x \in Objects : /\ Creates(u, x) /\ Waits(x)
                               /\ \A w \in Threads : Creates(w, x) => w = u
      BY <2>1, <3>1, TouchedCreators DEF Story, CreatedWaits
    <3>3. Creates(u, x)'
      BY <1>2, <3>1, <3>2
    <3>4. \A w \in Threads : Creates(w, x)' => w = u
      <4>1. ~Creates(t, x)'
        BY DEF Creates
      <4>2. QED
        BY <1>2, <3>2, <4>1
    <3>5. pc[t] = "first" => x # o
      BY <3>1, <3>2 DEF Creates
    <3>6. Waits(x)'
      BY <1>1, <3>2, <3>5 DEF Waits
    <3>7. QED
      BY <3>3, <3>4, <3>6
  <2>2. QED
    BY <2>1 DEF CreatedWaits
<1>6. QED
  BY <1>3, <1>4, <1>5 DEF Story

LEMMA RemoveUserKeepsStory ==
    ASSUME TypeInv, Story, NEW p \in Pointers, NEW o \in Objects, RemoveUser(o, p),
           p \in users[o], SameCreators
    PROVE  Story'
<1>1. /\ users' = [users EXCEPT ![o] = users[o] \ {p}]
      /\ revived' = revived
      /\ objectList' = IF users[o] \ {p} = {} /\ o \in objectList
                       THEN objectList \ {o} ELSE objectList
      /\ users \in [Objects -> SUBSET Pointers] /\ objectList \subseteq Objects
  BY DEF RemoveUser, Set, watch, TypeInv, TypeOK
<1>2. \A u \in Threads : \A x : Creates(u, x)' <=> Creates(u, x)
  BY DEF SameCreators, Creates
<1>3. UnusedIsQueued'
  BY <1>1, <1>2 DEF Story, UnusedIsQueued, Creates
<1>4. LateUsersRevive'
  BY <1>1 DEF Story, LateUsersRevive
<1>5. \A x \in Objects : Waits(x) => Waits(x)'
  BY <1>1 DEF Waits, Story, LateUsersRevive
<1>6. CreatedWaits'
  BY <1>2, <1>5 DEF Story, CreatedWaits, SameCreators
<1>7. QED
  BY <1>3, <1>4, <1>6 DEF Story

LEMMA StoryStep ==
    TypeInv /\ TypeInv' /\ DeletedOnce /\ Agreement /\ Story /\ [Next]_vars => Story'
<1> SUFFICES ASSUME TypeInv, TypeInv', DeletedOnce, Agreement, Story, [Next]_vars
             PROVE  Story'
  OBVIOUS
<1>0. /\ None \notin Objects /\ None \notin Pointers /\ Loops \subseteq Threads
      /\ val \in [Pointers -> Objects \cup {None}]
      /\ status \in [Objects -> {"fresh", "alive", "dead"}]
      /\ users \in [Objects -> SUBSET Pointers] /\ objectList \subseteq Objects
      /\ pc \in [Threads -> PCs]
      /\ dst \in [Threads -> Pointers \cup {None}]
      /\ src \in [Threads -> Pointers \cup {None}]
      /\ victim \in [Threads -> Objects \cup {None}]
      /\ LocalsInv /\ Exclusive
  BY ObjectWatchAssumption DEF TypeInv, TypeOK
<1>a. UsersAgree /\ LooseUsesNone /\ PointsToCreated /\ OnlyLivingAreUsed
  BY DEF Agreement
<1> USE DEF Goto, Set, watch, locals, usage
<1>1. ASSUME NEW t \in Threads, NEW p \in Pointers, NEW o \in Objects, Create(t, p, o)
      PROVE  Story'
  <2>1. /\ pc[t] = "run" /\ pc' = [pc EXCEPT ![t] = "first"] /\ status[o] = "fresh"
        /\ Free(p) /\ val' = [val EXCEPT ![p] = o] /\ dst' = [dst EXCEPT ![t] = p]
        /\ users' = users /\ revived' = revived /\ objectList' = objectList \cup {o}
    BY <1>1 DEF Create
  <2>2. \A u \in Threads : u # t => /\ pc'[u] = pc[u] /\ dst'[u] = dst[u]
                                    /\ pc[u] = "first" => val'[dst[u]] = val[dst[u]]
    BY <1>0, <2>1 DEF Free, LocalsInv, Inside
  <2>3. Creates(t, o)' /\ \A x : Creates(t, x)' => x = o
    BY <1>0, <2>1 DEF Creates
  <2>4. \A u \in Threads : \A x : u # t => (Creates(u, x)' <=> Creates(u, x))
    BY <2>2 DEF Creates
  <2>5. users[o] = {} /\ o \notin objectList /\ \A u \in Threads : ~Creates(u, o)
    BY <1>0, <1>a, <2>1
    DEF OnlyLivingAreUsed, DeletedOnce, PointsToCreated, Creates, LocalsInv, Inside
  <2>6. \A u \in Threads : pc'[u] = "first" <=> u = t \/ pc[u] = "first"
    BY <1>0, <2>1
  <2>7. UnusedIsQueued'
    BY <2>1, <2>3, <2>4, <2>6 DEF Story, UnusedIsQueued, Creates
  <2>8. LateUsersRevive'
    BY <2>1 DEF Story, LateUsersRevive
  <2>9. CreatedWaits'
    <3>1. \A x \in Objects : x # o => (Waits(x) => Waits(x)')
      BY <2>1 DEF Waits
    <3>2. Waits(o)'
      BY <2>1, <2>5 DEF Waits
    <3>3. ASSUME NEW u \in Threads, pc'[u] = "first"
          PROVE  \E x \in Objects : /\ Creates(u, x)' /\ Waits(x)'
                                    /\ \A w \in Threads : Creates(w, x)' => w = u
      <4>1. CASE u = t
        BY <2>3, <2>4, <2>5, <3>2, <4>1
      <4>2. CASE u # t
        <5>1. PICK x \in Objects : /\ Creates(u, x) /\ Waits(x)
                                   /\ \A w \in Threads : Creates(w, x) => w = u
          BY <2>6, <3>3, <4>2 DEF Story, CreatedWaits
        <5>2. x # o
          BY <2>5, <5>1
        <5>3. QED
          BY <2>3, <2>4, <3>1, <4>2, <5>1, <5>2
      <4>3. QED
        BY <4>1, <4>2
    <3>4. QED
      BY <3>3 DEF CreatedWaits
  <2>10. QED
    BY <2>7, <2>8, <2>9 DEF Story
<1>2. ASSUME NEW t \in Threads, NEW p \in Pointers,
             UNCHANGED <<users, revived, objectList>>, pc[t] # "first", pc'[t] # "first",
             Touches(t, p)
      PROVE  Story'
  <2>1. SameCreators
    BY <1>2, TouchedCreators DEF SameCreators
  <2>2. QED
    BY <1>2, <2>1, SameStory
<1>3. ASSUME NEW t \in Threads, NEW p \in Pointers,
             \/ \E o \in Objects : CopyThis(t, p, o)
             \/ \E q \in Pointers : Copy(t, p, q) \/ Assign(t, p, q)
             \/ Drop(t, p) \/ (t \in Loops /\ DropMember(t, p))
      PROVE  Story'
  <2>1. /\ pc[t] \in {"run", "delete"}
        /\ \A u \in Threads : u # t => pc'[u] = pc[u]
        /\ pc'[t] \in {"construct", "drop", "unuse", "copy"}
        /\ Free(p) /\ dst' = [dst EXCEPT ![t] = p]
        /\ UNCHANGED <<users, revived, objectList>>
        /\ \A q \in Pointers : q # p => val'[q] = val[q]
    BY <1>0, <1>3 DEF CopyThis, Copy, Assign, Drop, DropMember
  <2>2. Touches(t, p)
    BY <1>0, <2>1 DEF Touches, Free, LocalsInv, Inside
  <2>3. QED
    BY <1>2, <2>1, <2>2
<1>4. ASSUME NEW t \in Threads, Construct(t) \/ AssignUse(t) PROVE Story'
  <2>1. PICK p \in Pointers : p = dst[t]
    BY <1>0, <1>4 DEF Construct, AssignUse, UseFreed, LocalsInv, Inside
  <2>2. /\ UNCHANGED <<val, objectList>> /\ pc[t] \in {"first", "construct", "use"}
        /\ \A u \in Threads : u # t => pc'[u] = pc[u] /\ dst'[u] = dst[u]
        /\ dst'[t] \in {None, p} /\ pc'[t] \in {"run", "freed"}
        /\ \/ Gone(p) /\ users' = users /\ revived' = revived
              /\ (pc[t] = "first" => pc'[t] = "freed")
           \/ ~Gone(p) /\ Use(t, val[p], p)
    BY <1>0, <1>4, <2>1 DEF Construct, AssignUse, UseFreed, Gone
  <2>3. \A u \in Threads : u # t => dst[u] # p
    BY <1>0, <2>1 DEF Exclusive
  <2>4. Touches(t, p)
    <3>1. \A q \in Pointers : q # p => \A o \in Objects : q \in users'[o] <=> q \in users[o]
      BY <1>0, <2>2 DEF Use
    <3>2. QED
      BY <2>1, <2>2, <2>3, <3>1 DEF Touches
  <2>5. CASE ~Gone(p) /\ Use(t, val[p], p)
    <3>1. PICK o \in Objects : o = val[p]
      BY <1>0, <2>5 DEF Gone
    <3>2. QED
      BY <2>1, <2>2, <2>4, <2>5, <3>1, UseKeepsStory
  <2>6. CASE users' = users /\ revived' = revived /\ pc[t] # "first"
    BY <1>2, <2>2, <2>4, <2>6
  <2>7. CASE users' = users /\ revived' = revived /\ pc[t] = "first" /\ Gone(p)
    <3>1. PICK o \in Objects : Creates(t, o)
      BY <2>7 DEF Story, CreatedWaits
    <3>2. o = val[p] /\ status[o] = "dead" /\ o \notin objectList
      BY <1>0, <2>1, <2>7, <3>1 DEF Creates, Gone, DeletedOnce
    <3>3. \A u \in Threads : \A x : u # t => (Creates(u, x)' <=> Creates(u, x))
      BY <2>4, TouchedCreators DEF Creates
    <3>4. \A x \in Objects : Creates(t, x) => x = o
      BY <3>1 DEF Creates
    <3>5. \A x : ~Creates(t, x)'
      BY <2>2 DEF Creates
    <3>6. UnusedIsQueued'
      BY <1>0, <2>2, <2>7, <3>2, <3>3, <3>4 DEF Story, UnusedIsQueued, Creates
    <3>7. LateUsersRevive'
      BY <2>2, <2>7 DEF Story, LateUsersRevive
    <3>8. CreatedWaits'
      BY <2>2, <2>7, <3>3, <3>5 DEF Story, CreatedWaits, Waits
    <3>9. QED
      BY <3>6, <3>7, <3>8 DEF Story
  <2>8. QED
    BY <2>2, <2>5, <2>6, <2>7
<1>5. ASSUME NEW t \in Threads, AssignUnuse(t) \/ DropUnuse(t) PROVE Story'
  <2>1. PICK p \in Pointers : p = dst[t]
    BY <1>5, UnuseCases DEF AssignUnuse, DropUnuse, Inside
  <2>2. /\ pc[t] \in {"drop", "unuse"} /\ UNCHANGED <<val, dst>>
        /\ \A u \in Threads : u # t => pc'[u] = pc[u]
        /\ pc'[t] \in {"freed", "dropped", "unused"}
        /\ \/ UNCHANGED <<users, revived, objectList>>
           \/ RemoveUser(val[p], p) /\ val[p] \in Objects
    BY <1>0, <1>5, <2>1, UnuseCases DEF AssignUnuse, DropUnuse, Inside
  <2>3. SameCreators
    BY <2>2 DEF SameCreators
  <2>4. val[p] \in Objects => p \in users[val[p]]
    BY <1>a, <2>1, <2>2, SettledAgrees DEF Agrees
  <2>5. QED
    BY <2>2, <2>3, <2>4, SameStory, RemoveUserKeepsStory
<1>6. ASSUME NEW t \in Threads, AssignUnlock(t) \/ DropUnlock(t) \/ AssignCopy(t)
      PROVE  Story'
  <2>1. PICK p \in Pointers : p = dst[t]
    BY <1>0, <1>6 DEF AssignUnlock, DropUnlock, AssignCopy, Unlock, LocalsInv, Inside
  <2>2. /\ pc[t] \in {"unused", "dropped", "copy"} /\ UNCHANGED <<users, revived, objectList>>
        /\ \A u \in Threads : u # t => pc'[u] = pc[u] /\ dst'[u] = dst[u]
        /\ pc'[t] # "first" /\ dst'[t] \in {None, p}
        /\ \A q \in Pointers : q # p => val'[q] = val[q]
    BY <1>0, <1>6, <2>1 DEF AssignUnlock, DropUnlock, AssignCopy, Unlock
  <2>3. Touches(t, p)
    BY <1>0, <2>1, <2>2 DEF Touches, Exclusive
  <2>4. QED
    BY <1>2, <2>2, <2>3
<1>7. ASSUME NEW l \in Loops,
             BeginDestroy(l) \/ CheckSize(l) \/ PopFront(l) \/ JoinThreads(l)
      PROVE  Story'
  <2>1. /\ UNCHANGED <<val, users, revived, objectList, dst>>
        /\ \A u \in Threads : u # l => pc'[u] = pc[u]
        /\ pc[l] # "first" /\ pc'[l] # "first"
    BY <1>0, <1>7 DEF BeginDestroy, CheckSize, PopFront, JoinThreads
  <2>2. QED
    BY <2>1, SameStory DEF SameCreators
<1>8. ASSUME NEW l \in Loops, FinishDelete(l) PROVE Story'
  <2>1. PICK v \in Objects : v = victim[l]
    BY <1>0, <1>8 DEF FinishDelete, LocalsInv
  <2>2. /\ pc[l] = "delete" /\ pc' = [pc EXCEPT ![l] = "size"] /\ dst' = dst
        /\ val' = [p \in Pointers |-> IF p \in users[v] THEN None ELSE val[p]]
        /\ users' = [users EXCEPT ![v] = {}]
        /\ UNCHANGED <<revived, objectList>>
    BY <1>0, <1>8, <2>1 DEF FinishDelete
  <2>3. v \notin objectList
    BY <1>0, <2>1 DEF DeletedOnce
  <2>4. \A u \in Threads : \A x : Creates(u, x)' <=> Creates(u, x)
    BY <1>0, <1>a, <2>2 DEF Creates, LooseUsesNone, UsesNone, Loose, LocalsInv, Inside
  <2>5. UnusedIsQueued'
    <3>1. ASSUME NEW x \in objectList, users'[x] = {}
          PROVE  \E u \in Threads : Creates(u, x)'
      <4>1. x # v /\ x \in Objects /\ users[x] = {}
        BY <1>0, <2>2, <2>3, <3>1
      <4>2. PICK u \in Threads : Creates(u, x)
        BY <4>1 DEF Story, UnusedIsQueued, Creates
      <4>3. QED
        BY <2>4, <4>2
    <3>2. QED
      BY <2>2, <3>1 DEF UnusedIsQueued, Creates
  <2>6. LateUsersRevive'
    BY <1>0, <2>2 DEF Story, LateUsersRevive
  <2>7. CreatedWaits'
    <3>1. \A x \in Objects : Waits(x) => Waits(x)'
      BY <1>0, <2>2 DEF Waits
    <3>2. \A u \in Threads : pc'[u] = "first" => pc[u] = "first"
      BY <1>0, <2>2
    <3>3. QED
      BY <2>4, <3>1, <3>2 DEF Story, CreatedWaits
  <2>8. QED
    BY <2>5, <2>6, <2>7 DEF Story
<1>9. CASE UNCHANGED vars
  BY <1>9, SameStory DEF vars, SameCreators
<1>10. QED
  BY <1>0, <1>1, <1>3, <1>4, <1>5, <1>6, <1>7, <1>8, <1>9
  DEF Next, PointerCall, PointerStep, Destroy

LEMMA StoryInvariance == Spec => []Story
<1>1. Init => Story
  BY DEF Init, Story, UnusedIsQueued, LateUsersRevive, CreatedWaits
<1>2. QED
  BY <1>1, TypeInvariance, NoDoubleDelete, AgreementInvariance, StoryStep, PTL DEF Spec

\* For any number of loops and of other threads: an object nobody uses has left
\* the object list, unless its creator is just making the first pointer, and
\* one that is deleted while pointers use it is one that was used when the
\* program had no pointer to it.
THEOREM NobodyIsForgotten == Spec => [](UnusedIsQueued /\ DeletedUnused)
<1>1. TypeInv /\ DeletedOnce /\ Story => UnusedIsQueued /\ DeletedUnused
  BY ObjectWatchAssumption
  DEF TypeInv, TypeOK, DeletedOnce, Story, LateUsersRevive, DeletedUnused
<1>2. QED
  BY <1>1, TypeInvariance, NoDoubleDelete, StoryInvariance, PTL

\* For any number of loops and of other threads, at every step of theirs: the
\* two lists, the users of the objects and the pointers tell the same story.
THEOREM ListsStayInStep == Spec => []ListsAgree
<1>1. Agreement /\ UnusedIsQueued /\ DeletedUnused => ListsAgree
  BY DEF Agreement, ListsAgree
<1>2. QED
  BY <1>1, AgreementInvariance, NobodyIsForgotten, PTL

(***************************************************************************)
(* Where the object comes from that a thread is about to use.              *)
(***************************************************************************)

\* A method of the object runs, and its destructor has not joined the thread.
FromThis(t) == pc[t] = "construct" /\ src[t] = None =>
    /\ val[dst[t]] # None /\ status[val[dst[t]]] = "alive"
    /\ \A l \in Loops : victim[l] = val[dst[t]] => pc[l] = "join"

\* The other pointer still uses it, or it was deleted while it was in use.
FromOther(t) ==
    src[t] # None /\ src[t] # dst[t] /\ pc[t] \in {"construct", "use"} /\ val[dst[t]] # None =>
       val[dst[t]] \in revived \/ src[t] \in users[val[dst[t]]]

\* Only the one event loop assigns a pointer to itself, and it does not delete
\* meanwhile.
FromItself(t) == src[t] # None /\ src[t] = dst[t] =>
    /\ Loops = {t} /\ pc[t] \in Assigning
    /\ pc[t] \in {"unuse", "unused"} => val[dst[t]] # None
    /\ val[dst[t]] # None => status[val[dst[t]]] = "alive"

SourceOk(t) == FromThis(t) /\ FromOther(t) /\ FromItself(t)
Sources == \A t \in Threads : SourceOk(t)

\* What a step of thread t on pointer p leaves to the others.
Leaves(t, p) ==
    /\ Touches(t, p)
    /\ \A u \in Threads : u # t => src'[u] = src[u] /\ src[u] # p
    /\ victim' = victim /\ revived \subseteq revived'
    /\ \A o \in Objects : status[o] = "alive" => status'[o] = "alive"
    /\ pc[t] # "join"

\* What the first step of a call on pointer p sets.
CallSets(t, p) ==
    /\ pc[t] \in {"run", "delete"} /\ Free(p)
    /\ \A u \in Threads : u # t => pc'[u] = pc[u] /\ src'[u] = src[u]
    /\ dst' = [dst EXCEPT ![t] = p]
    /\ UNCHANGED <<users, revived, victim>>
    /\ \A q \in Pointers : q # p => val'[q] = val[q]
    /\ \A o \in Objects : status[o] = "alive" => status'[o] = "alive"

LEMMA CallLeaves ==
    ASSUME TypeInv, NEW t \in Threads, NEW p \in Pointers,
           \/ \E o \in Objects : Create(t, p, o) \/ CopyThis(t, p, o)
           \/ \E q \in Pointers : Copy(t, p, q) \/ Assign(t, p, q)
           \/ Drop(t, p) \/ (t \in Loops /\ DropMember(t, p))
    PROVE  Leaves(t, p)
<1>0. /\ None \notin Pointers /\ val \in [Pointers -> Objects \cup {None}]
      /\ status \in [Objects -> {"fresh", "alive", "dead"}]
      /\ pc \in [Threads -> PCs] /\ dst \in [Threads -> Pointers \cup {None}]
      /\ src \in [Threads -> Pointers \cup {None}] /\ LocalsInv
  BY ObjectWatchAssumption DEF TypeInv, TypeOK
<1>1. CallSets(t, p)
  <2>1. ASSUME NEW o \in Objects, Create(t, p, o) \/ CopyThis(t, p, o)
        PROVE  CallSets(t, p)
    BY <1>0, <2>1 DEF Create, CopyThis, Goto, Set, usage, watch, CallSets
  <2>2. ASSUME NEW q \in Pointers, Copy(t, p, q) \/ Assign(t, p, q)
        PROVE  CallSets(t, p)
    BY <1>0, <2>2 DEF Copy, Assign, Goto, Set, usage, watch, CallSets
  <2>3. CASE Drop(t, p) \/ (t \in Loops /\ DropMember(t, p))
    BY <1>0, <2>3 DEF Drop, DropMember, Goto, Set, usage, watch, CallSets
  <2>4. QED
    BY <2>1, <2>2, <2>3
<1>2. Touches(t, p)
  BY <1>0, <1>1 DEF CallSets, Touches, Free, LocalsInv, Inside
<1>3. QED
  BY <1>1, <1>2 DEF CallSets, Leaves, Free

LEMMA StepLeaves ==
    ASSUME TypeInv, NEW t \in Threads, PointerStep(t)
    PROVE  dst[t] \in Pointers /\ Leaves(t, dst[t])
<1>0. /\ None \notin Pointers /\ val \in [Pointers -> Objects \cup {None}]
      /\ users \in [Objects -> SUBSET Pointers]
      /\ pc \in [Threads -> PCs] /\ dst \in [Threads -> Pointers \cup {None}]
      /\ src \in [Threads -> Pointers \cup {None}] /\ LocalsInv /\ Exclusive
  BY ObjectWatchAssumption DEF TypeInv, TypeOK
<1>1. PICK p \in Pointers : p = dst[t]
  BY <1>0 DEF PointerStep, Construct, AssignUse, AssignUnuse, DropUnuse, Unuse, UseFreed,
              AssignUnlock, DropUnlock, AssignCopy, Unlock, Goto, LocalsInv, Inside
<1>2. \A u \in Threads : u # t => dst[u] # p /\ src[u] # p
  BY <1>0, <1>1 DEF Exclusive
<1>3. /\ pc[t] # "join" /\ UNCHANGED <<status, victim>>
      /\ \A u \in Threads : u # t => pc'[u] = pc[u] /\ dst'[u] = dst[u] /\ src'[u] = src[u]
      /\ dst'[t] \in {None, p}
      /\ revived \subseteq revived'
      /\ \A q \in Pointers : q # p => val'[q] = val[q]
      /\ \A q \in Pointers : q # p => \A o \in Objects : q \in users'[o] <=> q \in users[o]
  <2>1. CASE Construct(t) \/ AssignUse(t)
    BY <1>0, <1>1, <2>1 DEF Construct, AssignUse, UseFreed, Use, Goto, Set, usage, watch, locals
  <2>2. CASE AssignUnuse(t) \/ DropUnuse(t)
    BY <1>0, <1>1, <2>2 DEF AssignUnuse, DropUnuse, Unuse, UseFreed, RemoveUser, Goto, Set,
                            usage, watch, locals
  <2>3. CASE AssignUnlock(t) \/ DropUnlock(t) \/ AssignCopy(t)
    BY <1>0, <1>1, <2>3 DEF AssignUnlock, DropUnlock, AssignCopy, Unlock, Goto, Set,
                            usage, watch, locals
  <2>4. QED
    BY <2>1, <2>2, <2>3 DEF PointerStep
<1>4. QED
  BY <1>1, <1>2, <1>3 DEF Leaves, Touches

LEMMA OthersKeepSource ==
    ASSUME TypeInv, Sources, NEW t \in Threads, NEW p \in Pointers, Leaves(t, p),
           NEW w \in Threads, w # t
    PROVE  SourceOk(w)'
<1>0. /\ dst[w] \in Pointers \cup {None} /\ src[w] \in Pointers \cup {None}
      /\ val \in [Pointers -> Objects \cup {None}] /\ None \notin Pointers
      /\ dst[w] # None <=> pc[w] \in Inside
      /\ src[w] # None => pc[w] \in Inside
  BY ObjectWatchAssumption DEF TypeInv, TypeOK, LocalsInv, Assigning, Inside
<1>1. /\ pc'[w] = pc[w] /\ dst'[w] = dst[w] /\ src'[w] = src[w]
      /\ dst[w] # None => val'[dst[w]] = val[dst[w]]
      /\ src[w] \in Pointers =>
            \A o \in Objects : src[w] \in users'[o] <=> src[w] \in users[o]
      /\ revived \subseteq revived' /\ victim' = victim /\ pc[t] # "join"
      /\ \A o \in Objects : status[o] = "alive" => status'[o] = "alive"
      /\ \A l \in Threads : l # t => pc'[l] = pc[l]
  BY <1>0 DEF Leaves, Touches
<1>2. FromThis(w)'
  <2>1. SUFFICES ASSUME pc[w] = "construct", src[w] = None
                 PROVE  /\ val'[dst[w]] # None /\ status'[val'[dst[w]]] = "alive"
                        /\ \A l \in Loops : victim'[l] = val'[dst[w]] => pc'[l] = "join"
    BY <1>1 DEF FromThis
  <2>2. dst[w] # None /\ FromThis(w)
    BY <1>0, <2>1 DEF Sources, SourceOk, Inside
  <2>3. PICK o \in Objects : val'[dst[w]] = o /\ val[dst[w]] = o
    BY <1>0, <1>1, <2>1, <2>2 DEF FromThis
  <2>4. status[o] = "alive" /\ \A l \in Loops : victim[l] = o => pc[l] = "join"
    BY <2>1, <2>2, <2>3 DEF FromThis
  <2>5. \A l \in Loops : victim'[l] = o => pc'[l] = "join"
    BY <1>1, <2>4, ObjectWatchAssumption
  <2>6. o # None /\ status'[o] = "alive"
    BY <1>1, <2>4, ObjectWatchAssumption
  <2>7. QED
    BY <2>3, <2>5, <2>6
<1>3. FromOther(w)'
  BY <1>0, <1>1 DEF Sources, SourceOk, FromOther
<1>4. FromItself(w)'
  BY <1>0, <1>1 DEF Sources, SourceOk, FromItself
<1>5. QED
  BY <1>2, <1>3, <1>4 DEF SourceOk

LEMMA SourcesStep ==
    /\ TypeInv /\ TypeInv' /\ DeletedOnce /\ Agreement /\ Story /\ Sources
    /\ [Next]_vars
    => Sources'
<1> SUFFICES ASSUME TypeInv, TypeInv', DeletedOnce, Agreement, Story, Sources, [Next]_vars
             PROVE  Sources'
  OBVIOUS
<1>0. /\ None \notin Objects /\ None \notin Pointers /\ Loops \subseteq Threads
      /\ val \in [Pointers -> Objects \cup {None}]
      /\ status \in [Objects -> {"fresh", "alive", "dead"}]
      /\ users \in [Objects -> SUBSET Pointers] /\ objectList \subseteq Objects
      /\ pc \in [Threads -> PCs]
      /\ dst \in [Threads -> Pointers \cup {None}]
      /\ src \in [Threads -> Pointers \cup {None}]
      /\ victim \in [Threads -> Objects \cup {None}]
      /\ LocalsInv /\ Exclusive
  BY ObjectWatchAssumption DEF TypeInv, TypeOK
<1>a. UsersAgree /\ LooseUsesNone /\ PointsToCreated /\ OnlyLivingAreUsed
  BY DEF Agreement
<1>b. \A w \in Threads : FromThis(w) /\ FromOther(w) /\ FromItself(w)
  BY DEF Sources, SourceOk
<1> USE DEF Goto, Set, watch, locals, usage
<1>1. ASSUME NEW t \in Threads, NEW p \in Pointers, Leaves(t, p), SourceOk(t)'
      PROVE  Sources'
  BY <1>1, OthersKeepSource DEF Sources
<1>2. ASSUME NEW t \in Threads, NEW p \in Pointers,
             \/ \E o \in Objects : Create(t, p, o)
             \/ Drop(t, p) \/ (t \in Loops /\ DropMember(t, p))
      PROVE  Sources'
  <2>1. Leaves(t, p)
    BY <1>2, CallLeaves
  <2>2. pc'[t] \in {"first", "drop"} /\ src'[t] = None
    BY <1>0, <1>2 DEF Create, Drop, DropMember, LocalsInv, Assigning
  <2>3. SourceOk(t)'
    BY <2>2 DEF SourceOk, FromThis, FromOther, FromItself
  <2>4. QED
    BY <1>1, <2>1, <2>3
<1>3. ASSUME NEW t \in Threads, NEW p \in Pointers, NEW o \in Objects, CopyThis(t, p, o)
      PROVE  Sources'
  <2>1. Leaves(t, p)
    BY <1>3, CallLeaves
  <2>2. /\ pc[t] = "run" /\ pc' = [pc EXCEPT ![t] = "construct"] /\ src'[t] = None
        /\ dst'[t] = p /\ val'[p] = o /\ status'[o] = "alive" /\ victim' = victim
        /\ \A l \in Loops : victim[l] = o => pc[l] = "join"
    BY <1>0, <1>3 DEF CopyThis, LocalsInv, Assigning
  <2>3. SourceOk(t)'
    BY <1>0, <2>2 DEF SourceOk, FromThis, FromOther, FromItself
  <2>4. QED
    BY <1>1, <2>1, <2>3
<1>4. ASSUME NEW t \in Threads, NEW p \in Pointers, NEW q \in Pointers, Copy(t, p, q)
      PROVE  Sources'
  <2>1. Leaves(t, p)
    BY <1>4, CallLeaves
  <2>2. /\ pc'[t] = "construct" /\ dst'[t] = p /\ src'[t] = q /\ val'[p] = val[q]
        /\ p # q /\ users' = users /\ val[q] # None /\ Readable(q)
    BY <1>0, <1>4 DEF Copy
  <2>3. q \in users[val[q]]
    BY <1>0, <1>a, <2>2 DEF UsersAgree, Readable
  <2>4. SourceOk(t)'
    BY <1>0, <2>2, <2>3 DEF SourceOk, FromThis, FromOther, FromItself
  <2>5. QED
    BY <1>1, <2>1, <2>4
<1>5. ASSUME NEW t \in Threads, NEW p \in Pointers, NEW q \in Pointers, Assign(t, p, q)
      PROVE  Sources'
  <2>1. Leaves(t, p)
    BY <1>5, CallLeaves
  <2>2. /\ pc'[t] = IF val[p] = None THEN "copy" ELSE "unuse"
        /\ dst'[t] = p /\ src'[t] = q /\ UNCHANGED <<val, status, users>>
        /\ Free(p) /\ (p = q => Loops = {t})
    BY <1>0, <1>5 DEF Assign
  <2>3. val[p] # None => status[val[p]] = "alive"
    BY <1>0, <1>a, <2>2, SettledAgrees DEF Agrees, OnlyLivingAreUsed
  <2>4. SourceOk(t)'
    BY <1>0, <2>2, <2>3 DEF SourceOk, FromThis, FromOther, FromItself, Assigning
  <2>5. QED
    BY <1>1, <2>1, <2>4
<1>6. ASSUME NEW t \in Threads, Construct(t) \/ AssignUse(t) PROVE Sources'
  <2>1. dst[t] \in Pointers /\ Leaves(t, dst[t])
    BY <1>6, StepLeaves DEF PointerStep
  <2>2. /\ UNCHANGED <<val, status>>
        /\ \/ pc'[t] = "run" /\ src'[t] = None
           \/ /\ pc'[t] = "freed" /\ src' = src /\ Gone(dst[t])
              /\ pc[t] \in Assigning => pc[t] = "use" /\ val[dst[t]] # None
    BY <1>0, <1>6 DEF Construct, AssignUse, UseFreed, Assigning
  <2>3. src[t] # None /\ src[t] = dst[t] => pc'[t] # "freed"
    BY <1>0, <1>b, <2>1, <2>2 DEF FromItself, Gone
  <2>4. SourceOk(t)'
    <3>1. dst'[t] \in {None, dst[t]} /\ (pc'[t] = "freed" => dst'[t] = dst[t])
      BY <2>1, <1>6, <1>0 DEF Leaves, Touches, Construct, AssignUse, UseFreed
    <3>2. QED
      BY <2>2, <2>3, <3>1 DEF SourceOk, FromThis, FromOther, FromItself
  <2>5. QED
    BY <1>1, <2>1, <2>4
<1>7. ASSUME NEW t \in Threads, AssignUnuse(t) \/ DropUnuse(t) PROVE Sources'
  <2>1. dst[t] \in Pointers /\ Leaves(t, dst[t])
    BY <1>7, StepLeaves DEF PointerStep
  <2>2. /\ UNCHANGED <<val, status, dst, src>> /\ pc[t] \in {"drop", "unuse"}
        /\ \/ pc'[t] = "freed" /\ Gone(dst[t])
           \/ pc'[t] = "dropped" /\ pc[t] = "drop"
           \/ pc'[t] = "unused" /\ val[dst[t]] # None
    BY <1>0, <1>7, UnuseCases DEF AssignUnuse, DropUnuse, Inside
  <2>3. SourceOk(t)'
    BY <1>0, <1>b, <2>1, <2>2 DEF SourceOk, FromThis, FromOther, FromItself, Gone, Assigning
  <2>4. QED
    BY <1>1, <2>1, <2>3
<1>8. ASSUME NEW t \in Threads, AssignUnlock(t) \/ DropUnlock(t) PROVE Sources'
  <2>1. dst[t] \in Pointers /\ Leaves(t, dst[t])
    BY <1>8, StepLeaves DEF PointerStep
  <2>2. /\ UNCHANGED <<status, src>> /\ pc[t] \in {"dropped", "unused"}
        /\ \/ pc'[t] = "freed" /\ Gone(dst[t]) /\ UNCHANGED <<val, dst>>
           \/ pc'[t] \in {"run", "delete"} /\ pc[t] = "dropped"
           \/ pc'[t] = "copy" /\ pc[t] = "unused" /\ UNCHANGED <<val, dst>>
    BY <1>0, <1>8 DEF AssignUnlock, DropUnlock, Unlock
  <2>3. pc[t] = "dropped" => src[t] = None
    BY <1>0 DEF LocalsInv, Assigning
  <2>4. SourceOk(t)'
    BY <1>0, <1>b, <2>1, <2>2, <2>3
    DEF SourceOk, FromThis, FromOther, FromItself, Gone, Assigning
  <2>5. QED
    BY <1>1, <2>1, <2>4
<1>9. ASSUME NEW t \in Threads, AssignCopy(t) PROVE Sources'
  <2>1. dst[t] \in Pointers /\ Leaves(t, dst[t])
    BY <1>9, StepLeaves DEF PointerStep
  <2>2. /\ UNCHANGED <<status, users, dst, src>> /\ pc[t] = "copy" /\ pc'[t] = "use"
        /\ val' = [val EXCEPT ![dst[t]] = val[src[t]]] /\ src[t] \in Pointers
    BY <1>0, <1>9 DEF AssignCopy, LocalsInv, Assigning
  <2>3. src[t] # dst[t] => \A u \in Threads : dst[u] # src[t]
    BY <1>0, <2>1, <2>2 DEF Exclusive
  <2>4. src[t] # dst[t] /\ val[src[t]] # None => src[t] \in users[val[src[t]]]
    BY <1>0, <1>a, <2>2, <2>3 DEF UsersAgree
  <2>5. SourceOk(t)'
    BY <1>0, <1>b, <2>1, <2>2, <2>4 DEF SourceOk, FromThis, FromOther, FromItself, Assigning
  <2>6. QED
    BY <1>1, <2>1, <2>5
<1>10. ASSUME NEW l \in Loops, BeginDestroy(l) \/ CheckSize(l) \/ PopFront(l) \/ JoinThreads(l)
       PROVE  Sources'
  <2>1. /\ UNCHANGED <<val, users, status, revived, dst, src>>
        /\ pc' = [pc EXCEPT ![l] = pc'[l]] /\ pc[l] \in {"run", "size", "pop", "join"}
        /\ pc'[l] \in {"run", "size", "pop", "join", "delete", "crashed"}
        /\ \A m \in Threads : m # l => victim'[m] = victim[m]
        /\ \/ victim'[l] = victim[l]
              /\ (pc[l] = "join" => \A u \in Threads :
                      pc[u] = "construct" /\ src[u] = None => val[dst[u]] # victim[l])
           \/ pc'[l] = "join"
    BY <1>0, <1>10 DEF BeginDestroy, CheckSize, PopFront, JoinThreads
  <2>2. dst[l] = None /\ src[l] = None /\ (victim[l] # None => pc[l] = "join")
    BY <1>0, <2>1 DEF LocalsInv, Inside, Assigning, Deleting
  <2>3. ASSUME NEW w \in Threads PROVE SourceOk(w)'
    <3>1. FromThis(w)'
      BY <1>0, <1>b, <2>1, <2>2 DEF FromThis
    <3>2. FromOther(w)' /\ FromItself(w)'
      BY <1>0, <1>b, <2>1, <2>2 DEF FromOther, FromItself
    <3>3. QED
      BY <3>1, <3>2 DEF SourceOk
  <2>4. QED
    BY <2>3 DEF Sources
<1>11. ASSUME NEW l \in Loops, FinishDelete(l) PROVE Sources'
  <2>1. PICK v \in Objects : v = victim[l]
    BY <1>0, <1>11 DEF FinishDelete, LocalsInv
  <2>2. /\ pc[l] = "delete" /\ pc' = [pc EXCEPT ![l] = "size"] /\ UNCHANGED <<dst, src, revived>>
        /\ status' = [status EXCEPT ![v] = "dead"]
        /\ val' = [p \in Pointers |-> IF p \in users[v] THEN None ELSE val[p]]
        /\ users' = [users EXCEPT ![v] = {}] /\ victim' = [victim EXCEPT ![l] = None]
    BY <1>0, <1>11, <2>1 DEF FinishDelete
  <2>3. users[v] # {} => v \in revived
    BY <1>0, <2>1 DEF DeletedOnce, Story, LateUsersRevive
  <2>4. ASSUME NEW w \in Threads PROVE SourceOk(w)'
    <3>1. /\ dst[w] \in Pointers /\ pc[w] \in Loose => val'[dst[w]] = val[dst[w]]
          /\ dst[l] = None /\ src[l] = None
          /\ src[w] # None => dst[w] \in Pointers
          /\ pc[w] = "construct" => dst[w] \in Pointers
          /\ l \in Threads
      BY <1>0, <1>a, <2>2 DEF LooseUsesNone, UsesNone, LocalsInv, Inside, Assigning
    <3>2. FromThis(w)'
      BY <1>0, <1>b, <2>1, <2>2, <3>1 DEF FromThis, Loose
    <3>3. FromOther(w)'
      BY <1>0, <1>b, <2>1, <2>2, <2>3, <3>1 DEF FromOther, Loose
    <3>4. FromItself(w)'
      BY <1>0, <1>b, <2>2, <3>1 DEF FromItself
    <3>5. QED
      BY <3>2, <3>3, <3>4 DEF SourceOk
  <2>5. QED
    BY <2>4 DEF Sources
<1>12. CASE UNCHANGED vars
  BY <1>12, <1>b DEF vars, Sources, SourceOk, FromThis, FromOther, FromItself
<1>13. QED
  BY <1>0, <1>2, <1>3, <1>4, <1>5, <1>6, <1>7, <1>8, <1>9, <1>10, <1>11, <1>12
  DEF Next, PointerCall, PointerStep, Destroy

LEMMA SourcesInvariance == Spec => []Sources
<1>1. Init => Sources
  BY DEF Init, Sources, SourceOk, FromThis, FromOther, FromItself
<1>2. QED
  BY <1>1, TypeInvariance, NoDoubleDelete, AgreementInvariance, StoryInvariance, SourcesStep,
     PTL DEF Spec

(***************************************************************************)
(* The memory of the pointers that threads work on.                        *)
(***************************************************************************)

\* What keeps the memory of p while thread t works on p: the object p is a
\* member of is in use, or t is the one that would delete it.
Holds(t, p) == MemberOf[p] # None =>
    \/ MemberOf[p] \in objectList
    \/ Loops = {t} /\ status[MemberOf[p]] = "alive"
    \/ victim[t] = MemberOf[p]

WillHold(t, p) == MemberOf[p] # None =>
    \/ MemberOf[p] \in objectList'
    \/ Loops = {t} /\ status'[MemberOf[p]] = "alive"
    \/ victim'[t] = MemberOf[p]

HoldsBoth(t) == /\ dst[t] # None => Holds(t, dst[t])
                /\ src[t] # None => Holds(t, src[t])

HeldMemory == \A t \in Threads : HoldsBoth(t)

\* A step that takes nothing from the object list and deletes nothing.
LEMMA NothingGoes ==
    ASSUME HeldMemory, ObjectWatchAssumption,
           dst \in [Threads -> Pointers \cup {None}],
           src \in [Threads -> Pointers \cup {None}],
           objectList \subseteq objectList',
           \A o \in Objects : status[o] = "alive" => status'[o] = "alive",
           victim' = victim,
           NEW u \in Threads, dst'[u] \in {dst[u], None}, src'[u] \in {src[u], None}
    PROVE  HoldsBoth(u)'
<1>1. \A p \in Pointers : Holds(u, p) => WillHold(u, p)
  BY DEF Holds, WillHold, ObjectWatchAssumption
<1>2. HoldsBoth(u)
  BY DEF HeldMemory
<1>3. (dst[u] # None => dst[u] \in Pointers) /\ (src[u] # None => src[u] \in Pointers)
  OBVIOUS
<1>4. (dst'[u] # None => WillHold(u, dst'[u])) /\ (src'[u] # None => WillHold(u, src'[u]))
  BY <1>1, <1>2, <1>3 DEF HoldsBoth
<1>5. QED
  BY <1>4 DEF HoldsBoth, Holds, WillHold

LEMMA HeldStep ==
    ~LetsGoEarly /\ TypeInv /\ DeletedOnce /\ HeldMemory /\ [Next]_vars => HeldMemory'
<1> SUFFICES ASSUME ~LetsGoEarly, TypeInv, DeletedOnce, HeldMemory, [Next]_vars
             PROVE  HeldMemory'
  OBVIOUS
<1>0. /\ None \notin Objects /\ None \notin Pointers /\ Loops \subseteq Threads
      /\ MemberOf \in [Pointers -> Objects \cup {None}]
      /\ val \in [Pointers -> Objects \cup {None}]
      /\ status \in [Objects -> {"fresh", "alive", "dead"}]
      /\ objectList \subseteq Objects
      /\ pc \in [Threads -> PCs]
      /\ dst \in [Threads -> Pointers \cup {None}]
      /\ src \in [Threads -> Pointers \cup {None}]
      /\ victim \in [Threads -> Objects \cup {None}]
      /\ LocalsInv
  BY ObjectWatchAssumption DEF TypeInv, TypeOK
<1> USE DEF Goto, Set, watch, locals, usage
<1>1. ASSUME NEW t \in Threads, NEW p \in Pointers,
             objectList \subseteq objectList',
             \A o \in Objects : status[o] = "alive" => status'[o] = "alive",
             victim' = victim, dst' = [dst EXCEPT ![t] = p],
             Reaches(t, p) \/ victim[t] = MemberOf[p],
             \/ src' = src /\ src[t] = None
             \/ \E q \in Pointers : src' = [src EXCEPT ![t] = q] /\ Reaches(t, q)
      PROVE  HeldMemory'
  <2>1. \A q \in Pointers : Reaches(t, q) => WillHold(t, q)
    BY <1>0, <1>1 DEF Reaches, WillHold
  <2>2. WillHold(t, p)
    BY <1>0, <1>1, <2>1 DEF WillHold
  <2>3. src'[t] # None => WillHold(t, src'[t])
    BY <1>0, <1>1, <2>1
  <2>4. dst'[t] = p
    BY <1>0, <1>1
  <2>5. HoldsBoth(t)'
    BY <2>2, <2>3, <2>4 DEF HoldsBoth, Holds, WillHold
  <2>6. ASSUME NEW u \in Threads, u # t PROVE HoldsBoth(u)'
    <3>1. dst'[u] = dst[u] /\ src'[u] = src[u]
      BY <1>0, <1>1, <2>6
    <3>2. QED
      BY <1>0, <1>1, <3>1, NothingGoes, ObjectWatchAssumption
  <2>7. QED
    BY <2>5, <2>6 DEF HeldMemory
<1>2. ASSUME objectList' = objectList, status' = status, victim' = victim,
             \A u \in Threads : dst'[u] \in {dst[u], None} /\ src'[u] \in {src[u], None}
      PROVE  HeldMemory'
  BY <1>0, <1>2, NothingGoes, ObjectWatchAssumption DEF HeldMemory
<1>3. ASSUME NEW t \in Threads, pc[t] \in {"run", "delete"} PROVE src[t] = None
  BY <1>0, <1>3 DEF LocalsInv, Assigning
<1>4. ASSUME NEW t \in Threads, NEW p \in Pointers, NEW o \in Objects,
             Create(t, p, o) \/ CopyThis(t, p, o)
      PROVE  HeldMemory'
  BY <1>0, <1>1, <1>3, <1>4 DEF Create, CopyThis
<1>5. ASSUME NEW t \in Threads, NEW p \in Pointers, NEW q \in Pointers,
             Copy(t, p, q) \/ Assign(t, p, q)
      PROVE  HeldMemory'
  BY <1>0, <1>1, <1>5 DEF Copy, Assign
<1>6. ASSUME NEW t \in Threads, NEW p \in Pointers,
             Drop(t, p) \/ (t \in Loops /\ DropMember(t, p))
      PROVE  HeldMemory'
  BY <1>0, <1>1, <1>3, <1>6 DEF Drop, DropMember
<1>7. ASSUME NEW t \in Threads, Construct(t) \/ AssignUse(t) PROVE HeldMemory'
  BY <1>0, <1>2, <1>7 DEF Construct, AssignUse, UseFreed
<1>8. ASSUME NEW t \in Threads, AssignUnlock(t) \/ DropUnlock(t) \/ AssignCopy(t)
      PROVE  HeldMemory'
  BY <1>0, <1>2, <1>8 DEF AssignUnlock, DropUnlock, AssignCopy
<1>9. ASSUME NEW t \in Threads, AssignUnuse(t) \/ DropUnuse(t) PROVE HeldMemory'
  <2>1. UNCHANGED <<status, dst, src, victim>>
    BY <1>9 DEF AssignUnuse, DropUnuse, Unuse, UseFreed
  <2>2. CASE objectList' = objectList
    BY <1>2, <2>1, <2>2
  <2>3. CASE objectList' # objectList
    <3>1. PICK p : p = dst[t] /\ Spares(val[p], p) /\ RemoveUser(val[p], p)
      BY <1>9, <2>3 DEF AssignUnuse, DropUnuse, Unuse, UseFreed
    <3>2. PICK o : o = val[p]
      OBVIOUS
    <3>3. o \in objectList /\ users[o] \ {p} = {} /\ objectList' = objectList \ {o}
      BY <2>3, <3>1, <3>2 DEF RemoveUser
    <3>4. \A u \in Threads : Loops # {u} => ~WorksIn(u, o)
      BY <3>1, <3>2, <3>3 DEF Spares
    <3>5. status[o] = "alive"
      BY <3>3 DEF DeletedOnce
    <3>6. ASSUME NEW u \in Threads, NEW q \in Pointers, q = dst[u] \/ q = src[u], Holds(u, q)
          PROVE  WillHold(u, q)
      BY <1>0, <2>1, <3>3, <3>4, <3>5, <3>6 DEF Holds, WillHold, WorksIn
    <3>7. ASSUME NEW u \in Threads PROVE HoldsBoth(u)'
      <4>1. HoldsBoth(u)
        BY DEF HeldMemory
      <4>2. dst[u] # None => WillHold(u, dst[u])
        BY <1>0, <3>6, <4>1 DEF HoldsBoth
      <4>3. src[u] # None => WillHold(u, src[u])
        BY <1>0, <3>6, <4>1 DEF HoldsBoth
      <4>4. QED
        BY <2>1, <4>2, <4>3 DEF HoldsBoth, Holds, WillHold
    <3>8. QED
      BY <3>7 DEF HeldMemory
  <2>4. QED
    BY <2>2, <2>3
<1>10. ASSUME NEW l \in Loops, BeginDestroy(l) \/ CheckSize(l) \/ JoinThreads(l)
       PROVE  HeldMemory'
  BY <1>0, <1>2, <1>10 DEF BeginDestroy, CheckSize, JoinThreads
<1>11. ASSUME NEW l \in Loops, PopFront(l) \/ FinishDelete(l) PROVE HeldMemory'
  <2>1. /\ UNCHANGED <<dst, src, objectList>> /\ dst[l] = None /\ src[l] = None
        /\ \A u \in Threads : u # l => victim'[u] = victim[u]
        /\ Loops # {l} \/ \A u \in Threads : u # l => Loops # {u}
        /\ status' = status \/ status' = [status EXCEPT ![victim[l]] = "dead"]
    BY <1>0, <1>11 DEF PopFront, FinishDelete, LocalsInv, Inside, Assigning
  <2>2. ASSUME NEW u \in Threads PROVE HoldsBoth(u)'
    <3>1. CASE u = l
      BY <2>1, <3>1 DEF HoldsBoth
    <3>2. CASE u # l
      <4>1. Loops # {u}
        BY <3>2
      <4>2. HoldsBoth(u)
        BY DEF HeldMemory
      <4>3. \A q : Holds(u, q) => WillHold(u, q)
        BY <2>1, <3>2, <4>1 DEF Holds, WillHold
      <4>4. QED
        BY <2>1, <4>2, <4>3 DEF HoldsBoth, Holds, WillHold
    <3>3. QED
      BY <3>1, <3>2
  <2>3. QED
    BY <2>2 DEF HeldMemory
<1>12. CASE UNCHANGED vars
  BY <1>2, <1>12 DEF vars
<1>13. QED
  BY <1>0, <1>4, <1>5, <1>6, <1>7, <1>8, <1>9, <1>10, <1>11, <1>12
  DEF Next, PointerCall, PointerStep, Destroy

LEMMA HeldInvariance == ~LetsGoEarly => (Spec => []HeldMemory)
<1> SUFFICES ASSUME ~LetsGoEarly PROVE Spec => []HeldMemory
  OBVIOUS
<1>1. Init => HeldMemory
  BY DEF Init, HeldMemory, HoldsBoth
<1>2. TypeInv /\ DeletedOnce /\ HeldMemory /\ [Next]_vars => HeldMemory'
  BY HeldStep
<1>3. QED
  BY <1>1, <1>2, TypeInvariance, NoDoubleDelete, PTL DEF Spec

\* What a pointer points to that has been deleted: the thread that works on
\* the pointer has let go of it, or read it of an object that came back to use.
LEMMA GoneIsExcused ==
    ASSUME TypeInv, DeletedOnce, Agreement, Story, Sources,
           NEW p \in Pointers, val[p] # None, status[val[p]] # "alive"
    PROVE  \E t \in Threads : \/ LetGo(t, p)
                              \/ /\ dst[t] = p
                                 /\ pc[t] \in {"first", "construct", "use"}
                                 /\ val[p] \in revived
<1>0. /\ None \notin Objects /\ None \notin Pointers
      /\ val \in [Pointers -> Objects \cup {None}]
      /\ users \in [Objects -> SUBSET Pointers]
      /\ src \in [Threads -> Pointers \cup {None}] /\ LocalsInv
  BY ObjectWatchAssumption DEF TypeInv, TypeOK
<1>1. PICK o \in Objects : o = val[p]
  BY <1>0
<1>2. users[o] = {} /\ o \notin objectList
  BY <1>1 DEF Agreement, OnlyLivingAreUsed, DeletedOnce
<1>3. PICK t \in Threads : dst[t] = p /\ pc[t] \notin {"drop", "unuse"}
  BY <1>1, <1>2 DEF Agreement, UsersAgree
<1>4. pc[t] \in Inside /\ FromThis(t) /\ FromOther(t) /\ FromItself(t)
  BY <1>0, <1>3 DEF LocalsInv, Sources, SourceOk
<1>5. CASE pc[t] \in {"dropped", "unused", "copy", "freed"}
  BY <1>3, <1>5 DEF LetGo
<1>6. CASE pc[t] = "first"
  <2>1. PICK x \in Objects : Creates(t, x) /\ Waits(x)
    BY <1>6 DEF Story, CreatedWaits
  <2>2. x = o
    BY <1>1, <1>3, <2>1 DEF Creates
  <2>3. o \in revived
    BY <1>2, <2>1, <2>2 DEF Waits
  <2>4. QED
    BY <1>1, <1>3, <1>6, <2>3
<1>7. CASE pc[t] \in {"construct", "use"}
  <2>1. src[t] # None /\ src[t] # dst[t]
    BY <1>0, <1>3, <1>4, <1>7 DEF FromThis, FromItself, LocalsInv, Assigning
  <2>2. o \in revived
    BY <1>1, <1>2, <1>3, <1>4, <1>7, <2>1 DEF FromOther
  <2>3. QED
    BY <1>1, <1>3, <1>7, <2>2
<1>8. QED
  BY <1>3, <1>4, <1>5, <1>6, <1>7 DEF Inside

\* For any number of loops and of other threads that create, copy, assign and
\* drop pointers while the loops delete, no pointer dangles: as long as nobody
\* lets go of the last pointer to an object while another thread works on a
\* member of it.
THEOREM PointersDoNotDangle == ~LetsGoEarly => (Spec => []NoDanglingPointer)
<1> SUFFICES ASSUME ~LetsGoEarly PROVE Spec => []NoDanglingPointer
  OBVIOUS
<1>1. TypeInv /\ DeletedOnce /\ Agreement /\ Story /\ Sources /\ HeldMemory
      => NoDanglingPointer
  <2> SUFFICES ASSUME TypeInv, DeletedOnce, Agreement, Story, Sources, HeldMemory
               PROVE  NoDanglingPointer
    OBVIOUS
  <2>1. ASSUME NEW t \in Threads, NEW p \in Pointers, Holds(t, p) PROVE InMemory(p)
    BY <2>1, ObjectWatchAssumption
    DEF Holds, InMemory, DeletedOnce, TypeInv, TypeOK, LocalsInv
  <2>2. \A t \in Threads : /\ dst[t] # None => InMemory(dst[t])
                           /\ src[t] # None => InMemory(src[t])
    BY <2>1 DEF HeldMemory, HoldsBoth, TypeInv, TypeOK
  <2>3. QED
    BY <2>2, GoneIsExcused DEF NoDanglingPointer
<1>2. QED
  BY <1>1, TypeInvariance, NoDoubleDelete, AgreementInvariance, StoryInvariance,
     SourcesInvariance, HeldInvariance, PTL

(***************************************************************************)
(* One event loop, and any other threads.                                  *)
(***************************************************************************)

OneLoop == \A l, m \in Loops : l = m

\* One event loop never takes the front of an empty list, although it tests
\* the size without the lock and other threads queue objects: nobody else
\* takes anything from the list.
THEOREM OneLoopNeverPopsEmpty == OneLoop => (Spec => []NoPopFromEmpty)
<1> SUFFICES ASSUME OneLoop PROVE Spec => []NoPopFromEmpty
  OBVIOUS
<1> DEFINE Popping == /\ NoPopFromEmpty
                      /\ \A l \in Loops : pc[l] = "pop" => toBeDestroyed # <<>>
<1>1. Init => Popping
  BY ObjectWatchAssumption DEF Init, NoPopFromEmpty
<1>2. TypeInv /\ Popping /\ [Next]_vars => Popping'
  <2> SUFFICES ASSUME TypeInv, Popping, [Next]_vars PROVE Popping'
    OBVIOUS
  <2>0. /\ pc \in [Threads -> PCs] /\ Loops \subseteq Threads
        /\ \A l, m \in Loops : l = m
    BY ObjectWatchAssumption DEF TypeInv, TypeOK, OneLoop
  <2> USE DEF Goto, Set, watch, locals, usage, NoPopFromEmpty
  <2>1. ASSUME NEW t \in Threads, toBeDestroyed' = toBeDestroyed,
               \A u \in Threads : u # t => pc'[u] = pc[u], pc'[t] \notin {"pop", "crashed"}
        PROVE  Popping'
    BY <2>0, <2>1
  <2>2. ASSUME NEW t \in Threads, NEW p \in Pointers, NEW o \in Objects,
               Create(t, p, o) \/ CopyThis(t, p, o)
        PROVE  Popping'
    BY <2>0, <2>1, <2>2 DEF Create, CopyThis
  <2>3. ASSUME NEW t \in Threads, NEW p \in Pointers, NEW q \in Pointers,
               Copy(t, p, q) \/ Assign(t, p, q)
        PROVE  Popping'
    BY <2>0, <2>1, <2>3 DEF Copy, Assign
  <2>4. ASSUME NEW t \in Threads, NEW p \in Pointers,
               Drop(t, p) \/ (t \in Loops /\ DropMember(t, p))
        PROVE  Popping'
    BY <2>0, <2>1, <2>4 DEF Drop, DropMember
  <2>5. ASSUME NEW t \in Threads,
               \/ Construct(t) \/ AssignUse(t) \/ AssignCopy(t)
               \/ AssignUnlock(t) \/ DropUnlock(t)
        PROVE  Popping'
    <3>1. /\ toBeDestroyed' = toBeDestroyed
          /\ \A u \in Threads : u # t => pc'[u] = pc[u]
          /\ pc'[t] \in {"run", "freed", "use", "copy", "delete"}
      BY <2>0, <2>5 DEF Construct, AssignUse, AssignCopy, AssignUnlock, DropUnlock, Unlock,
                        UseFreed
    <3>2. QED
      BY <2>1, <3>1
  <2>6. ASSUME NEW t \in Threads, AssignUnuse(t) \/ DropUnuse(t) PROVE Popping'
    <3>1. /\ pc'[t] \notin {"pop", "crashed"} /\ \A u \in Threads : u # t => pc'[u] = pc[u]
          /\ \/ UNCHANGED toBeDestroyed
             \/ val[dst[t]] \in Objects /\ toBeDestroyed' = Append(toBeDestroyed, val[dst[t]])
      BY <2>0, <2>6, UnuseCases DEF AssignUnuse, DropUnuse, RemoveUser, Inside
    <3>2. toBeDestroyed # <<>> => toBeDestroyed' # <<>>
      BY <3>1, AppendProperties DEF TypeInv, TypeOK
    <3>3. QED
      BY <2>0, <3>1, <3>2
  <2>7. ASSUME NEW l \in Loops, BeginDestroy(l) \/ JoinThreads(l) \/ FinishDelete(l)
        PROVE  Popping'
    BY <2>0, <2>1, <2>7 DEF BeginDestroy, JoinThreads, FinishDelete
  <2>8. ASSUME NEW l \in Loops, CheckSize(l) PROVE Popping'
    BY <2>0, <2>8 DEF CheckSize
  <2>9. ASSUME NEW l \in Loops, PopFront(l) PROVE Popping'
    <3>1. pc[l] = "pop" /\ toBeDestroyed # <<>>
      BY <2>9 DEF PopFront
    <3>2. pc' = [pc EXCEPT ![l] = "join"]
      BY <2>9, <3>1 DEF PopFront
    <3>3. QED
      BY <2>0, <3>2
  <2>10. CASE UNCHANGED vars
    BY <2>10 DEF vars
  <2>11. QED
    BY <2>0, <2>2, <2>3, <2>4, <2>5, <2>6, <2>7, <2>8, <2>9, <2>10
    DEF Next, PointerCall, PointerStep, Destroy
<1>3. QED
  BY <1>1, <1>2, TypeInvariance, PTL DEF Spec

=============================================================================
