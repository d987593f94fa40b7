--------------------------- MODULE SemaphoreProofs ---------------------------
(***************************************************************************)
(* Proofs about Semaphore, for any set of threads, any start count and any *)
(* width of the counter.                                                   *)
(***************************************************************************)
EXTENDS Semaphore, FiniteSetTheorems, TLAPS

\* The counter stays in the range of uint32_t (the modulus), through every
\* acquire(), release() and clear().
THEOREM TypeCorrect == Spec => []TypeOK
<1>1. Init => TypeOK
  BY SemaphoreAssumption DEF Init, TypeOK, States
<1>2. TypeOK /\ [Next]_vars => TypeOK'
  <2> SUFFICES ASSUME TypeOK, [Next]_vars PROVE TypeOK'
    OBVIOUS
  <2> USE SemaphoreAssumption DEF TypeOK, States, Goto
  <2>1. ASSUME NEW t \in Threads, Take(t) PROVE TypeOK'
    BY <2>1 DEF Take
  <2>2. ASSUME NEW t \in Threads, Sleep(t) PROVE TypeOK'
    BY <2>2 DEF Sleep
  <2>3. ASSUME NEW t \in Threads, SpuriousWake(t) PROVE TypeOK'
    BY <2>3 DEF SpuriousWake
  <2>4. ASSUME NEW t \in Threads, Release(t) PROVE TypeOK'
    BY <2>4 DEF Release
  <2>5. ASSUME NEW t \in Threads, Notify(t) PROVE TypeOK'
    BY <2>5 DEF Notify, NotifyNobody, NotifyOne, Waiting
  <2>6. ASSUME NEW t \in Threads, Clear(t) PROVE TypeOK'
    BY <2>6 DEF Clear
  <2>7. CASE UNCHANGED vars
    BY <2>7 DEF vars
  <2>8. QED
    BY <2>1, <2>2, <2>3, <2>4, <2>5, <2>6, <2>7 DEF Next
<1>3. QED
  BY <1>1, <1>2, PTL DEF Spec

\* Pending is finite, and its size moves with one thread entering or leaving.
LEMMA PendingFinite ==
    IsFiniteSet(Pending) /\ Cardinality(Pending) \in Nat
<1>1. Pending \subseteq Threads
  BY DEF Pending
<1>2. QED
  BY <1>1, SemaphoreAssumption, FS_Subset, FS_CardinalityType

LEMMA PendingFinite2 ==
    IsFiniteSet(Pending') /\ Cardinality(Pending') \in Nat
<1>1. Pending' \subseteq Threads
  BY DEF Pending
<1>2. QED
  BY <1>1, SemaphoreAssumption, FS_Subset, FS_CardinalityType

LEMMA PendingOneLess ==
    ASSUME NEW t \in Threads, Pending \ {t} \subseteq Pending'
    PROVE  Cardinality(Pending) - 1 <= Cardinality(Pending')
<1>1. /\ IsFiniteSet(Pending \ {t})
      /\ Cardinality(Pending \ {t}) =
           IF t \in Pending THEN Cardinality(Pending) - 1 ELSE Cardinality(Pending)
  BY PendingFinite, FS_RemoveElement
<1>2. Cardinality(Pending \ {t}) <= Cardinality(Pending')
  BY <1>1, PendingFinite2, FS_Subset
<1>3. QED
  BY <1>1, <1>2, PendingFinite, PendingFinite2

LEMMA PendingOneMore ==
    ASSUME NEW t \in Threads, t \notin Pending, Pending \cup {t} \subseteq Pending'
    PROVE  Cardinality(Pending) + 1 <= Cardinality(Pending')
<1>1. /\ IsFiniteSet(Pending \cup {t})
      /\ Cardinality(Pending \cup {t}) = Cardinality(Pending) + 1
  BY PendingFinite, FS_AddElement
<1>2. QED
  BY <1>1, PendingFinite2, FS_Subset

LEMMA PendingNotLess ==
    ASSUME Pending \subseteq Pending'
    PROVE  Cardinality(Pending) <= Cardinality(Pending')
  BY PendingFinite2, FS_Subset

\* No step of one thread can leave a sleeping thread next to a token that
\* nobody is about to look at.
THEOREM NoTokenStranded == Spec => []NoStrandedToken
<1>1. Init => NoStrandedToken
  BY DEF Init, NoStrandedToken, Waiting
<1>2. TypeOK /\ NoStrandedToken /\ [Next]_vars => NoStrandedToken'
  <2> SUFFICES ASSUME TypeOK, NoStrandedToken, [Next]_vars, Waiting' # {}
               PROVE  tokens' <= Cardinality(Pending')
    BY DEF NoStrandedToken
  <2> USE PendingFinite, PendingFinite2 DEF NoStrandedToken, TypeOK, Goto
  <2>1. ASSUME NEW t \in Threads, Take(t) PROVE tokens' <= Cardinality(Pending')
    <3>1. Waiting # {}
      BY <2>1 DEF Take, Waiting
    <3>2. CASE pc[t] = "idle"
      <4>1. Pending \subseteq Pending'
        BY <2>1, <3>2 DEF Take, Pending
      <4>2. QED
        BY <2>1, <3>1, <4>1, PendingNotLess, SemaphoreAssumption DEF Take
    <3>3. CASE pc[t] = "woken"
      <4>1. Pending \ {t} \subseteq Pending'
        BY <2>1 DEF Take, Pending
      <4>2. QED
        BY <2>1, <3>1, <4>1, PendingOneLess, SemaphoreAssumption DEF Take
    <3>4. QED
      BY <2>1, <3>2, <3>3 DEF Take
  <2>2. ASSUME NEW t \in Threads, Sleep(t) PROVE tokens' <= Cardinality(Pending')
    BY <2>2 DEF Sleep
  <2>3. ASSUME NEW t \in Threads, SpuriousWake(t)
        PROVE  tokens' <= Cardinality(Pending')
    <3>1. Waiting # {} /\ Pending \subseteq Pending'
      BY <2>3 DEF SpuriousWake, Waiting, Pending
    <3>2. QED
      BY <2>3, <3>1, PendingNotLess, SemaphoreAssumption DEF SpuriousWake
  <2>4. ASSUME NEW t \in Threads, Release(t)
        PROVE  tokens' <= Cardinality(Pending')
    <3>1. t \notin Pending /\ Pending \cup {t} \subseteq Pending' /\ Waiting # {}
      BY <2>4 DEF Release, Pending, Waiting
    <3>2. tokens' <= tokens + 1
      BY <2>4, SemaphoreAssumption DEF Release
    <3>3. tokens' \in Int
      BY <2>4, SemaphoreAssumption DEF Release
    <3>4. QED
      BY <3>1, <3>2, <3>3, PendingOneMore, SemaphoreAssumption
  <2>5. ASSUME NEW t \in Threads, Notify(t)
        PROVE  tokens' <= Cardinality(Pending')
    <3>1. PICK w \in Waiting :
            /\ pc[t] = "notifying"
            /\ pc' = [pc EXCEPT ![t] = "idle", ![w] = "woken"]
            /\ tokens' = tokens
      <4>1. Waiting # {}
        BY <2>5 DEF Notify, NotifyNobody, NotifyOne, Waiting
      <4>2. QED
        BY <2>5, <4>1 DEF Notify, NotifyNobody, NotifyOne
    <3>2. w \in Threads /\ w # t /\ w \notin Pending /\ t \in Pending
      BY <3>1 DEF Waiting, Pending
    <3>3. (Pending \ {t}) \cup {w} \subseteq Pending'
      BY <3>1, <3>2 DEF Pending
    <3>4. Cardinality((Pending \ {t}) \cup {w}) = Cardinality(Pending)
      <4>1. /\ IsFiniteSet(Pending \ {t})
            /\ Cardinality(Pending \ {t}) = Cardinality(Pending) - 1
        BY <3>2, FS_RemoveElement
      <4>2. Cardinality((Pending \ {t}) \cup {w}) = Cardinality(Pending \ {t}) + 1
        BY <3>2, <4>1, FS_AddElement
      <4>3. QED
        BY <4>1, <4>2
    <3>5. Cardinality(Pending) <= Cardinality(Pending')
      BY <3>3, <3>4, FS_Subset
    <3>6. QED
      BY <3>1, <3>5, SemaphoreAssumption
  <2>6. ASSUME NEW t \in Threads, Clear(t) PROVE tokens' <= Cardinality(Pending')
    BY <2>6 DEF Clear
  <2>7. CASE UNCHANGED vars
    BY <2>7 DEF vars, Waiting, Pending
  <2>8. QED
    BY <2>1, <2>2, <2>3, <2>4, <2>5, <2>6, <2>7 DEF Next
<1>3. QED
  BY <1>1, <1>2, TypeCorrect, PTL DEF Spec

=============================================================================
