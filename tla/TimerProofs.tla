----------------------------- MODULE TimerProofs -----------------------------
(***************************************************************************)
(* Proofs about EBTimer, for any number of starts.                         *)
(***************************************************************************)
EXTENDS Timer, TLAPS

\* The calls, and what follows in each.
LEMMA Calls ==
    /\ DOMAIN Follows = {"stop", "destroy", "start", "startSingleShot"}
    /\ \A op \in DOMAIN Follows : Follows[op] \in {"idle", "gone", "launch"}
BY DEF Follows

\* A call that starts a thread was let in while starts were left.
RoomToLaunch == user \in {"lock", "join", "launch"} =>
                  /\ Follows[request] = "launch" => starts < MaxStarts
                  /\ user = "launch" => Follows[request] = "launch"
TypeInv == TypeOK /\ RoomToLaunch

\* The members of EBTimer keep their types, and a start in progress is one
\* that was let in.
THEOREM TypeInvariance == Spec => []TypeInv
<1> USE TimerAssumption, Calls
<1>1. Init => TypeInv
  <2> SUFFICES ASSUME Init
               PROVE  TypeInv
    OBVIOUS
  <2>2. pc \in [Threads -> {"none", "check", "lock", "sleep", "test",
                            "emit", "single", "done"}]
    BY DEF Init
  <2>3. fired \in [Threads -> 0 .. 2]
    BY DEF Init
  <2>4. RoomToLaunch /\ request \in DOMAIN Follows /\ starts \in 0 .. MaxStarts
    BY DEF Init, RoomToLaunch
  <2>5. thread \in Threads \cup {NoThread} /\ mWait \in Threads \cup {NoThread}
    BY DEF Init
  <2>6. user \in {"idle", "lock", "join", "launch", "gone"} /\ singles \subseteq Threads
    BY DEF Init
  <2>7. timerRunning \in BOOLEAN /\ singleShot \in BOOLEAN
    BY DEF Init
  <2> QED
    BY <2>2, <2>3, <2>4, <2>5, <2>6, <2>7 DEF TypeInv, TypeOK
<1>2. TypeInv /\ [Next]_vars => TypeInv'
  <2> SUFFICES ASSUME TypeInv, [Next]_vars
               PROVE  TypeInv'
    OBVIOUS
  <2> USE DEF TypeInv, TypeOK, RoomToLaunch, Threads, NoThread
  <2>1. ASSUME NEW op \in DOMAIN Follows, Call(op)
        PROVE  TypeInv'
    BY <2>1 DEF Call
  <2>2. CASE StopLock
    BY <2>2 DEF StopLock
  <2>3. CASE Join
    BY <2>3 DEF Join
  <2>4. CASE Launch
    <3>1. starts' \in 0 .. MaxStarts /\ thread' \in Threads
      BY <2>4 DEF Launch
    <3> QED
      BY <2>4, <3>1 DEF Launch
  <2>5. ASSUME NEW n \in Threads, Run(n)
        PROVE  TypeInv'
    <3>1. CASE Check(n)
      BY <3>1 DEF Check, program
    <3>2. CASE Sleep(n)
      BY <3>2 DEF Sleep, program
    <3>3. CASE Wake(n)
      BY <3>3 DEF Wake, program
    <3>4. CASE Test(n)
      BY <3>4 DEF Test, program
    <3>5. CASE Emit(n)
      BY <3>5 DEF Emit, program
    <3>6. CASE Single(n)
      BY <3>6 DEF Single, program
    <3> QED
      BY <2>5, <3>1, <3>2, <3>3, <3>4, <3>5, <3>6 DEF Run
  <2>6. CASE UNCHANGED vars
    BY <2>6 DEF vars
  <2> QED
    BY <2>1, <2>2, <2>3, <2>4, <2>5, <2>6 DEF Next
<1> QED
  BY <1>1, <1>2, PTL DEF Spec

-----------------------------------------------------------------------------
\* Where the program's thread stands tells whether the timer has a thread,
\* and after the block of stop() timerRunning is cleared until the join.
ProgramInPlace == /\ user \in {"lock", "join"} => thread # NoThread
                  /\ user \in {"launch", "gone"} => thread = NoThread
                  /\ user = "join" => ~timerRunning
                  /\ thread # NoThread => thread = starts

\* Starts to come have neither a thread nor a timeout yet.
Unstarted == \A n \in Threads : n > starts =>
                pc[n] = "none" /\ fired[n] = 0 /\ n \notin singles

\* The member singleShot is that of the start whose thread is alive, and a
\* single shot that has fired is about to stop itself or has done so.
ShotIsOver == /\ thread # NoThread => (singleShot <=> thread \in singles)
              /\ \A n \in singles :
                    /\ fired[n] <= 1
                    /\ fired[n] = 1 => pc[n] \in {"single", "check", "done"}
                    /\ fired[n] = 1 /\ n = thread /\ pc[n] # "single" =>
                          ~timerRunning

\* While nobody stops the timer its thread is stopped by nothing but the end
\* of a single shot, which comes after its timeout.
NotStopped == (user = "idle" /\ thread # NoThread) =>
                /\ ~timerRunning => thread \in singles /\ fired[thread] = 1
                /\ pc[thread] = "single" => fired[thread] > 0

IInv == ProgramInPlace /\ Unstarted /\ OnlyTheLatestRuns /\ ShotIsOver /\ NotStopped

\* Each invariant above, kept by every step.
LEMMA StepKeepsIInv == TypeInv /\ TypeInv' /\ IInv /\ [Next]_vars => IInv'
<1> SUFFICES ASSUME TypeInv, TypeInv', IInv, [Next]_vars
             PROVE  IInv'
  OBVIOUS
<1> USE TimerAssumption, Calls
<1> USE DEF IInv, TypeInv, TypeOK, RoomToLaunch, Threads, NoThread,
            ProgramInPlace, Unstarted, OnlyTheLatestRuns, ShotIsOver, NotStopped
<1>1. ASSUME NEW op \in DOMAIN Follows, Call(op)
      PROVE  IInv'
  BY <1>1 DEF Call
<1>2. CASE StopLock
  BY <1>2 DEF StopLock
<1>3. CASE Join
  BY <1>3 DEF Join
<1>4. CASE Launch
  <2>1. starts + 1 \in Threads /\ thread = NoThread /\ starts' = starts + 1
    BY <1>4 DEF Launch
  <2>2. ProgramInPlace' /\ Unstarted' /\ OnlyTheLatestRuns'
    BY <1>4, <2>1 DEF Launch
  <2>3. ShotIsOver'
    BY <1>4, <2>1 DEF Launch
  <2>4. NotStopped'
    BY <1>4, <2>1 DEF Launch
  <2> QED
    BY <2>2, <2>3, <2>4
<1>5. ASSUME NEW n \in Threads, Run(n)
      PROVE  IInv'
  <2>1. n = thread
    BY <1>5 DEF Run, Check, Sleep, Wake, Test, Emit, Single
  <2>2. CASE Check(n)
    BY <2>1, <2>2 DEF Check, program
  <2>3. CASE Sleep(n)
    BY <2>1, <2>3 DEF Sleep, program
  <2>4. CASE Wake(n)
    BY <2>1, <2>4 DEF Wake, program
  <2>5. CASE Test(n)
    BY <2>1, <2>5 DEF Test, program
  <2>6. CASE Emit(n)
    BY <2>1, <2>6 DEF Emit, program
  <2>7. CASE Single(n)
    <3>1. pc[n] = "single" /\ pc' = [pc EXCEPT ![n] = "check"] /\ UNCHANGED <<program, fired>>
      BY <2>7 DEF Single
    <3>2. CASE singleShot
      <4>1. ~timerRunning' /\ n \in singles
        <5>1. ~timerRunning'
          BY ONLY <2>7, <3>2, Zenon DEF Single
        <5>2. n \in singles
          BY <2>1, <3>2
        <5> QED
          BY <5>1, <5>2
      <4>2. user = "idle" => fired[n] = 1
        BY <2>1, <3>1, <4>1
      <4> QED
        BY <2>1, <3>1, <4>1, <4>2 DEF program
    <3>3. CASE ~singleShot
      <4>1. timerRunning' = timerRunning /\ n \notin singles
        BY <2>1, <2>7, <3>3 DEF Single
      <4> QED
        BY <2>1, <3>1, <4>1 DEF program
    <3> QED
      BY <3>2, <3>3
  <2> QED
    BY <1>5, <2>2, <2>3, <2>4, <2>5, <2>6, <2>7 DEF Run
<1>6. CASE UNCHANGED vars
  BY <1>6 DEF vars
<1> QED
  BY <1>1, <1>2, <1>3, <1>4, <1>5, <1>6 DEF Next

\* In every state the inductive invariant holds.
THEOREM Invariance == Spec => [](TypeInv /\ IInv)
<1>1. Init => IInv
  BY DEF Init, IInv, Threads, NoThread, ProgramInPlace, Unstarted,
         OnlyTheLatestRuns, ShotIsOver, NotStopped
<1> QED
  BY <1>1, StepKeepsIInv, TypeInvariance, PTL DEF Spec

\* Each member of EBTimer keeps its type.
THEOREM TypeCorrect == Spec => []TypeOK
BY Invariance, PTL DEF TypeInv

\* No thread of an earlier start, or of a stopped or destroyed timer, is left
\* to emit: stop() joins before a start makes the next thread.
THEOREM EarlierStartsAreOver == Spec => []OnlyTheLatestRuns
BY Invariance, PTL DEF IInv

\* One start of a single shot emits one timeout at most, although run() tests
\* timerRunning and resets it in two steps.
THEOREM SingleShotsFireOnce == Spec => []SingleShotFiresOnce
<1>1. TypeInv /\ IInv => SingleShotFiresOnce
  BY DEF IInv, ShotIsOver, SingleShotFiresOnce
<1> QED
  BY <1>1, Invariance, PTL

\* The end of one run does not stop the next: a start stands until its own
\* single shot is over or somebody stops it.
THEOREM StartsStand == Spec => []StartStands
<1>1. TypeInv /\ IInv => StartStands
  BY DEF IInv, NotStopped, StartStands
<1> QED
  BY <1>1, Invariance, PTL

=============================================================================
