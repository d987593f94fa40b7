--------------------------- MODULE EventLoopProofs ---------------------------
(***************************************************************************)
(* Proofs about EventLoop, for any calls, any number of emitting threads   *)
(* and any queue length: no wakeup is lost, exit() cannot be slept         *)
(* through, slots are called in the order they were pushed, the loop       *)
(* implements the mailbox, and an exit() from a slot loses no call.        *)
(***************************************************************************)
EXTENDS EventLoop, SequenceTheorems, TLAPS

(***************************************************************************)
(* Facts about sequences.                                                  *)
(***************************************************************************)
LEMMA AppendToRight ==
    ASSUME NEW S, NEW s \in Seq(S), NEW t \in Seq(S), NEW e \in S,
           NEW p, p = s \o t, NEW u, u = Append(t, e)
    PROVE  Append(p, e) = s \o u
<1>1. p \in Seq(S) /\ <<e>> \in Seq(S)
  BY ConcatProperties
<1>2. Append(p, e) = p \o <<e>> /\ u = t \o <<e>>
  BY <1>1, AppendIsConcat
<1>3. QED
  BY <1>1, <1>2, ConcatAssociative

LEMMA HeadMovesOver ==
    ASSUME NEW S, NEW s \in Seq(S), NEW t \in Seq(S), t # <<>>
    PROVE  Append(s, Head(t)) \o Tail(t) = s \o t
<1>1. Head(t) \in S /\ Tail(t) \in Seq(S) /\ <<Head(t)>> \in Seq(S)
  BY HeadTailProperties
<1>2. Append(s, Head(t)) = s \o <<Head(t)>>
  BY <1>1, AppendIsConcat
<1>3. <<Head(t)>> \o Tail(t) = t
  <2>1. /\ Len(Tail(t)) = Len(t) - 1
        /\ \A i \in 1 .. Len(Tail(t)) : Tail(t)[i] = t[i + 1]
        /\ Len(t) \in Nat
        /\ Len(t) > 0
    BY HeadTailProperties, EmptySeq, LenProperties
  <2>2. /\ <<Head(t)>> \o Tail(t) \in Seq(S)
        /\ Len(<<Head(t)>> \o Tail(t)) = Len(t)
    BY <1>1, <2>1, ConcatProperties
  <2>3. ASSUME NEW i \in 1 .. Len(t) PROVE (<<Head(t)>> \o Tail(t))[i] = t[i]
    BY <2>1, <1>1, ConcatProperties
  <2>4. QED
    BY <2>2, <2>3, SeqEqual
<1>4. QED
  BY <1>1, <1>2, <1>3, ConcatAssociative

LEMMA ElementsOfAppend ==
    ASSUME NEW S, NEW s \in Seq(S), NEW e \in S
    PROVE  Elements(Append(s, e)) = Elements(s) \cup {e}
<1>1. /\ Len(Append(s, e)) = Len(s) + 1
      /\ Len(s) \in Nat
      /\ \A i \in 1 .. Len(s) : Append(s, e)[i] = s[i]
      /\ Append(s, e)[Len(s) + 1] = e
  BY AppendProperties, LenProperties
<1>2. QED
  BY <1>1 DEF Elements

(***************************************************************************)
(* Types.                                                                  *)
(***************************************************************************)

\* Every variable keeps its type through every step of every thread; this
\* rests on the head being popped only while there is one.
HeadInPlace == pc \in {"slot", "pop"} => events # <<>>

TypeInv == TypeOK /\ HeadInPlace

LEMMA PushType ==
    ASSUME TypeInv, NEW t \in Threads, NEW s \in Slots, Push(t, s),
           UNCHANGED <<tokens, closed, pc, exited, called, emittedBeforeExit>>
    PROVE  TypeInv'
<1>1. /\ events' \in Seq(Slots) /\ pushed' \in Seq(Slots) /\ events' # <<>>
  BY AppendProperties DEF TypeInv, TypeOK, Push
<1>2. QED
  BY <1>1 DEF TypeInv, TypeOK, HeadInPlace, Push, Steps

LEMMA TypeInvStep == TypeInv /\ [Next]_vars => TypeInv'
<1> SUFFICES ASSUME TypeInv, [Next]_vars PROVE TypeInv'
  OBVIOUS
<1> USE DEF TypeInv, TypeOK, HeadInPlace, Steps, PCs, LoopGoto
<1>1. CASE Exec
  BY <1>1 DEF Exec
<1>2. CASE CheckClosed
  BY <1>2 DEF CheckClosed
<1>3. CASE Acquire
  BY <1>3 DEF Acquire
<1>4. CASE TakeHead
  <2>1. called' \in Seq(Slots)
    BY <1>4, HeadTailProperties, AppendProperties DEF TakeHead
  <2>2. QED
    BY <1>4, <2>1 DEF TakeHead
<1>5. CASE EndSlot
  BY <1>5 DEF EndSlot
<1>6. CASE Pop
  <2>1. events' \in Seq(Slots)
    BY <1>6, HeadTailProperties DEF Pop
  <2>2. QED
    BY <1>6, <2>1 DEF Pop
<1>7. CASE Drained
  BY <1>7 DEF Drained
<1>8. CASE Destroyed
  BY <1>8 DEF Destroyed
<1>9. ASSUME NEW t \in Threads, NEW c \in Calls, Emit(t, c) PROVE TypeInv'
  BY <1>9, PushType DEF Emit, Slots
<1>10. ASSUME NEW t \in Threads, Close(t) PROVE TypeInv'
  <2>1. Elements(pushed) \subseteq Slots
    BY ElementOfSeq DEF Elements
  <2>2. emittedBeforeExit' \subseteq Calls
    BY <1>10, <2>1 DEF Close, Slots
  <2>3. QED
    BY <1>10, <2>2 DEF Close
<1>11. ASSUME NEW t \in Threads, Release(t) PROVE TypeInv'
  BY <1>11 DEF Release
<1>12. ASSUME NEW t \in Threads, EmitNull(t) PROVE TypeInv'
  BY <1>12, PushType DEF EmitNull, Slots
<1>13. CASE UNCHANGED vars
  BY <1>13 DEF vars
<1>14. QED
  BY <1>1, <1>2, <1>3, <1>4, <1>5, <1>6, <1>7, <1>8, <1>9, <1>10, <1>11,
     <1>12, <1>13 DEF Next, LoopStep, ThreadStep, Finish

\* The members keep their types and the slot that runs stays at the head.
THEOREM TypeInvariance == Spec => []TypeInv
<1>1. Init => TypeInv
  <2>1. <<>> \in Seq(Slots)
    BY EmptySeq
  <2>2. ASSUME Init PROVE step \in [Threads -> Steps]
    BY <2>2 DEF Init, Steps
  <2>3. ASSUME Init PROVE closed \in BOOLEAN /\ tokens \in Nat /\ pc \in PCs
    BY <2>3 DEF Init, PCs
  <2>4. ASSUME Init PROVE HeadInPlace /\ events = <<>> /\ pushed = <<>>
                          /\ called = <<>> /\ exited = {}
                          /\ emittedBeforeExit = {}
    BY <2>4 DEF Init, HeadInPlace
  <2>5. QED
    BY <2>1, <2>2, <2>3, <2>4 DEF TypeInv, TypeOK
<1>2. QED
  BY <1>1, TypeInvStep, PTL DEF Spec

\* Whatever threads push, exit and emit, the members of the loop keep their
\* types.
THEOREM TypeCorrect == Spec => []TypeOK
BY TypeInvariance, PTL DEF TypeInv

(***************************************************************************)
(* Wakeups.  NoLostWakeup is not inductive: a push in main() or in a       *)
(* destructor, and the end of a drain, have to be covered too.             *)
(***************************************************************************)
WakeupInv == /\ pc \in {"main", "destroy", "check", "acquire"} /\ events # <<>>
                  => tokens > 0 \/ Between # {}
             /\ ExitWakesLoop

LEMMA WakeupInvStep == TypeInv /\ WakeupInv /\ [Next]_vars => WakeupInv'
<1> SUFFICES ASSUME TypeInv, WakeupInv, [Next]_vars PROVE WakeupInv'
  OBVIOUS
<1> USE DEF TypeInv, TypeOK, WakeupInv, ExitWakesLoop, Between, LoopGoto
<1>1. CASE Exec
  BY <1>1 DEF Exec
<1>2. CASE CheckClosed
  BY <1>2 DEF CheckClosed
<1>3. CASE Acquire \/ TakeHead \/ EndSlot \/ Pop
  BY <1>3 DEF Acquire, TakeHead, EndSlot, Pop
<1>4. CASE Drained
  BY <1>4 DEF Drained
<1>5. CASE Destroyed
  BY <1>5 DEF Destroyed
<1>6. ASSUME NEW t \in Threads,
             (\E c \in Calls : Emit(t, c)) \/ EmitNull(t)
      PROVE  WakeupInv'
  <2>1. step'[t] = "pushed"
    BY <1>6 DEF Emit, EmitNull, Push
  <2>2. QED
    BY <2>1
<1>7. ASSUME NEW t \in Threads, Close(t) PROVE WakeupInv'
  <2>1. /\ step' = [step EXCEPT ![t] = "closed"] /\ step[t] = "idle"
        /\ UNCHANGED <<pc, events, tokens>>
    BY <1>7 DEF Close, Runs
  <2>2. Between \subseteq Between' /\ step'[t] = "closed"
    BY <2>1
  <2>3. QED
    BY <2>1, <2>2
<1>8. ASSUME NEW t \in Threads, Release(t) PROVE WakeupInv'
  BY <1>8 DEF Release
<1>9. CASE UNCHANGED vars
  BY <1>9 DEF vars
<1>10. QED
  BY <1>1, <1>2, <1>3, <1>4, <1>5, <1>6, <1>7, <1>8, <1>9
  DEF Next, LoopStep, ThreadStep, Finish

\* No thread schedule makes the loop block next to a queued event, and none
\* makes it sleep through an exit().
THEOREM WakeupsKept == Spec => [](NoLostWakeup /\ ExitWakesLoop)
<1>1. Init => WakeupInv
  BY DEF Init, WakeupInv, ExitWakesLoop
<1>2. WakeupInv => NoLostWakeup /\ ExitWakesLoop
  BY DEF WakeupInv, NoLostWakeup
<1>3. QED
  BY <1>1, <1>2, TypeInvariance, WakeupInvStep, PTL DEF Spec

(***************************************************************************)
(* Order of the calls.                                                     *)
(***************************************************************************)
LEMMA UndeliveredType == TypeInv => Undelivered \in Seq(Slots)
  BY HeadTailProperties DEF TypeInv, TypeOK, HeadInPlace, Undelivered

\* A push adds to the end of what is undelivered, also while a slot runs.
LEMMA PushUndelivered ==
    ASSUME TypeInv, NEW t \in Threads, NEW s \in Slots, Push(t, s),
           UNCHANGED pc
    PROVE  Undelivered' = Append(Undelivered, s)
  BY HeadTailAppend DEF TypeInv, TypeOK, HeadInPlace, Push, Undelivered

LEMMA TakeUndelivered ==
    ASSUME TypeInv, TakeHead
    PROVE  /\ Undelivered # <<>>
           /\ called' = Append(called, Head(Undelivered))
           /\ Undelivered' = Tail(Undelivered)
  BY DEF TakeHead, LoopGoto, Undelivered

\* Steps that neither push nor take leave the undelivered slots as they are.
LEMMA UndeliveredKept ==
    ASSUME \/ Exec \/ CheckClosed \/ Acquire \/ EndSlot \/ Pop \/ Drained
           \/ Destroyed \/ UNCHANGED vars
           \/ \E t \in Threads : Release(t) \/ Close(t)
    PROVE  UNCHANGED <<Undelivered, pushed, called>>
  BY DEF Exec, CheckClosed, Acquire, EndSlot, Pop, Drained, Destroyed, vars,
         Release, Close, LoopGoto, Undelivered

LEMMA FirstInFirstOutStep ==
    TypeInv /\ FirstInFirstOut /\ [Next]_vars => FirstInFirstOut'
<1> SUFFICES ASSUME TypeInv, FirstInFirstOut, [Next]_vars
             PROVE  pushed' = called' \o Undelivered'
  BY DEF FirstInFirstOut
<1>0. /\ Undelivered \in Seq(Slots) /\ called \in Seq(Slots)
      /\ pushed = called \o Undelivered
  BY UndeliveredType DEF TypeInv, TypeOK, FirstInFirstOut
<1>1. ASSUME NEW t \in Threads, NEW s \in Slots, Push(t, s),
             UNCHANGED <<pc, called>>
      PROVE  pushed' = called' \o Undelivered'
  <2>1. pushed' = Append(pushed, s) /\ called' = called
    BY <1>1 DEF Push
  <2>2. Undelivered' = Append(Undelivered, s)
    BY <1>1, PushUndelivered
  <2>3. Append(pushed, s) = called \o Undelivered'
    BY <1>0, <2>2, AppendToRight
  <2>4. QED
    BY <2>1, <2>3
<1>2. CASE TakeHead
  <2>1. pushed' = pushed
    BY <1>2 DEF TakeHead
  <2>2. QED
    BY <1>0, <1>2, <2>1, TakeUndelivered, HeadMovesOver
<1>3. ASSUME NEW t \in Threads, NEW c \in Calls, Emit(t, c)
      PROVE  pushed' = called' \o Undelivered'
  BY <1>1, <1>3 DEF Emit, Slots
<1>4. ASSUME NEW t \in Threads, EmitNull(t)
      PROVE  pushed' = called' \o Undelivered'
  BY <1>1, <1>4 DEF EmitNull, Slots
<1>5. QED
  BY <1>0, <1>2, <1>3, <1>4, UndeliveredKept
  DEF Next, LoopStep, ThreadStep, Finish

\* The calls are made in the order of the pushes and none is lost or made
\* twice, whatever the other threads do meanwhile.
THEOREM CalledInOrder == Spec => []FirstInFirstOut
<1>1. Init => FirstInFirstOut
  BY EmptySeq, ConcatEmptySeq DEF Init, FirstInFirstOut, Undelivered
<1>2. QED
  BY <1>1, TypeInvariance, FirstInFirstOutStep, PTL DEF Spec

(***************************************************************************)
(* The loop implements the mailbox.                                        *)
(***************************************************************************)
LEMMA MailboxStep ==
    TypeInv /\ [Next]_vars => [Abstract!Next]_(Abstract!vars)
<1> SUFFICES ASSUME TypeInv, [Next]_vars
             PROVE  Abstract!Next \/ UNCHANGED <<Undelivered, called, pc # "returned">>
  BY DEF Abstract!vars
<1>1. ASSUME NEW t \in Threads, NEW s \in Slots, Push(t, s),
             UNCHANGED <<pc, called>>
      PROVE  Abstract!Next
  BY <1>1, PushUndelivered DEF Abstract!Next, Abstract!Post
<1>2. CASE TakeHead
  <2>1. (pc # "returned") /\ (pc # "returned")' = (pc # "returned")
    BY <1>2 DEF TakeHead, LoopGoto
  <2>2. QED
    BY <1>2, <2>1, TakeUndelivered DEF Abstract!Next, Abstract!Take
<1>3. CASE CheckClosed
  <2>1. UNCHANGED <<Undelivered, called>>
    BY <1>3, UndeliveredKept
  <2>2. CASE closed
    <3>1. (pc # "returned") /\ (pc # "returned")' = FALSE
      BY <1>3, <2>2 DEF CheckClosed, LoopGoto
    <3>2. QED
      BY <2>1, <3>1 DEF Abstract!Next, Abstract!Shut
  <2>3. CASE ~closed
    <3>1. (pc # "returned")' = (pc # "returned")
      BY <1>3, <2>3 DEF CheckClosed, LoopGoto
    <3>2. QED
      BY <2>1, <3>1
  <2>4. QED
    BY <2>2, <2>3
<1>4. CASE \/ Exec \/ Acquire \/ EndSlot \/ Pop \/ Drained \/ Destroyed
           \/ UNCHANGED vars \/ \E t \in Threads : Release(t) \/ Close(t)
  <2>1. UNCHANGED <<Undelivered, called>>
    BY <1>4, UndeliveredKept
  <2>2. (pc # "returned")' = (pc # "returned")
    BY <1>4 DEF Exec, Acquire, EndSlot, Pop, Drained, Destroyed, vars,
                Release, Close, LoopGoto
  <2>3. QED
    BY <2>1, <2>2
<1>5. ASSUME NEW t \in Threads, NEW c \in Calls, Emit(t, c)
      PROVE  Abstract!Next
  BY <1>1, <1>5 DEF Emit, Slots
<1>6. ASSUME NEW t \in Threads, EmitNull(t)
      PROVE  Abstract!Next
  BY <1>1, <1>6 DEF EmitNull, Slots
<1>7. QED
  BY <1>2, <1>3, <1>4, <1>5, <1>6 DEF Next, LoopStep, ThreadStep, Finish

\* Every behaviour of the loop and its emitters is one of a mailbox with the
\* same messages: posted in one step, taken in order, shut for good.
THEOREM LoopImplementsMailbox == Spec => ImplementsMailbox
<1>1. Init => Abstract!Init
  BY DEF Init, Abstract!Init, Undelivered
<1>2. QED
  BY <1>1, TypeInvariance, MailboxStep, PTL
  DEF Spec, ImplementsMailbox, Abstract!Spec

(***************************************************************************)
(* exit() from a slot.                                                     *)
(***************************************************************************)
\* Once the loop is past its last look at the queue with closed set, all
\* that was pushed before has been called.
ExitInv ==
    /\ emittedBeforeExit \subseteq Elements(pushed)
    /\ pc = "main" => emittedBeforeExit = {}
    /\ ~closed => emittedBeforeExit = {}
    /\ closed /\ pc \in {"destroy", "check", "acquire", "returned"}
         => emittedBeforeExit \subseteq Elements(called)

LEMMA ExitInvStep ==
    TypeInv /\ FirstInFirstOut /\ ExitInv /\ [Next]_vars => ExitInv'
<1> SUFFICES ASSUME TypeInv, FirstInFirstOut, ExitInv, [Next]_vars
             PROVE  ExitInv'
  OBVIOUS
<1> USE DEF TypeInv, TypeOK, ExitInv, LoopGoto
<1>1. CASE Exec \/ CheckClosed \/ Acquire \/ EndSlot \/ Pop \/ Destroyed
  BY <1>1 DEF Exec, CheckClosed, Acquire, EndSlot, Pop, Destroyed
<1>2. CASE TakeHead
  BY <1>2 DEF TakeHead
<1>3. CASE Drained
  <2>1. Undelivered = <<>>
    BY <1>3 DEF Drained, Undelivered
  <2>2. pushed = called
    BY <2>1, ConcatEmptySeq DEF FirstInFirstOut
  <2>3. QED
    BY <1>3, <2>2 DEF Drained
<1>4. ASSUME NEW t \in Threads, NEW s \in Slots, Push(t, s),
             UNCHANGED <<closed, pc, called, emittedBeforeExit>>
      PROVE  ExitInv'
  <2>1. Elements(pushed) \subseteq Elements(pushed')
    BY <1>4, ElementsOfAppend DEF Push
  <2>2. QED
    BY <1>4, <2>1
<1>5. ASSUME NEW t \in Threads, Close(t) PROVE ExitInv'
  <2>1. closed' /\ UNCHANGED <<pc, pushed, called>>
    BY <1>5 DEF Close
  <2>2. CASE ~closed /\ Point(t) = "slot"
    <3>1. pc = "slot"
      BY <2>2 DEF Point
    <3>2. emittedBeforeExit' \subseteq Elements(pushed)
      BY <1>5, <2>2 DEF Close
    <3>3. QED
      BY <2>1, <3>1, <3>2
  <2>3. CASE ~(~closed /\ Point(t) = "slot")
    <3>1. emittedBeforeExit' = emittedBeforeExit
      BY <1>5, <2>3 DEF Close
    <3>2. QED
      BY <2>1, <3>1
  <2>4. QED
    BY <2>2, <2>3
<1>6. ASSUME NEW t \in Threads, Release(t) PROVE ExitInv'
  BY <1>6 DEF Release
<1>7. ASSUME NEW t \in Threads, NEW c \in Calls, Emit(t, c) PROVE ExitInv'
  BY <1>4, <1>7 DEF Emit, Slots
<1>8. ASSUME NEW t \in Threads, EmitNull(t) PROVE ExitInv'
  BY <1>4, <1>8 DEF EmitNull, Slots
<1>9. CASE UNCHANGED vars
  BY <1>9 DEF vars
<1>10. QED
  BY <1>1, <1>2, <1>3, <1>5, <1>6, <1>7, <1>8, <1>9
  DEF Next, LoopStep, ThreadStep, Finish

\* An exit() from a slot loses no call: when exec() has returned, all that
\* was emitted before the exit was called.
THEOREM ExitFromSlotsLosesNothing == Spec => []EmittedBeforeExitCalled
<1>1. Init => ExitInv
  BY DEF Init, ExitInv
<1>2. ExitInv /\ (pc = "returned" => closed) => EmittedBeforeExitCalled
  BY DEF ExitInv, EmittedBeforeExitCalled
<1>3. Init => (pc = "returned" => closed)
  BY DEF Init
<1>4. (pc = "returned" => closed) /\ [Next]_vars => (pc = "returned" => closed)'
  BY DEF Next, vars, LoopStep, ThreadStep, Finish, Exec, CheckClosed, Acquire,
         TakeHead, EndSlot, Pop, Drained, Destroyed, Emit, Close, Release,
         EmitNull, LoopGoto
<1>5. QED
  BY <1>1, <1>2, <1>3, <1>4, ExitInvStep, TypeInvariance, CalledInOrder, PTL
  DEF Spec

=============================================================================
