-------------------------------- MODULE Timer --------------------------------
(***************************************************************************)
(* EBTimer: the thread of the program that starts, stops and destroys the  *)
(* timer, and the threads the timer makes, one for each start.             *)
(*                                                                         *)
(* A start waits for the thread of the start before it: stop() takes       *)
(* mWait, clears timerRunning and joins.  The thread of the timer sleeps   *)
(* with mWait held and gives it up only between its sleep and the next.    *)
(*                                                                         *)
(* timerRunning is a plain bool that the two threads read and write        *)
(* without a common lock: each access is a step.                           *)
(***************************************************************************)
EXTENDS Integers

CONSTANT MaxStarts   \* bound: calls of start() and startSingleShot()

ASSUME TimerAssumption == MaxStarts \in Nat

Threads == 1 .. MaxStarts        \* the n-th start makes thread n
NoThread == 0

VARIABLES user,          \* where the program's thread is in a call
          request,       \* the call it makes
          starts,        \* starts so far
          thread,        \* EBTimer::thread
          timerRunning,  \* EBTimer::timerRunning
          singleShot,    \* EBTimer::singleShot
          mWait,         \* the thread of the timer that holds it, or NoThread
          pc,            \* where each thread of the timer is in run()
          fired,         \* history: timeouts emitted by each start: 0, 1, 2..
          singles        \* history: the starts that were single shots

vars == <<user, request, starts, thread, timerRunning, singleShot, mWait, pc, fired, singles>>
program == <<user, request, starts, thread, singleShot, singles>>

\* What follows in each call when the timer has no thread (any more).
Follows == [stop |-> "idle", destroy |-> "gone",
            start |-> "launch", startSingleShot |-> "launch"]

Init == /\ user = "idle" /\ request = "stop"
        /\ starts = 0
        /\ thread = NoThread
        /\ timerRunning = TRUE /\ singleShot = FALSE
        /\ mWait = NoThread
        /\ pc = [n \in Threads |-> "none"]
        /\ fired = [n \in Threads |-> 0]
        /\ singles = {}

-----------------------------------------------------------------------------
\* stop(), start(), startSingleShot() or the destructor is called; all of
\* them stop a timer that has a thread.
Call(op) ==
    /\ user = "idle"
    /\ Follows[op] = "launch" => starts < MaxStarts
    /\ request' = op
    /\ user' = IF thread = NoThread THEN Follows[op] ELSE "lock"
    /\ UNCHANGED <<starts, thread, timerRunning, singleShot, mWait, pc, fired, singles>>

\* stop(): the block that holds mWait.  Nobody waits for cvWait.
StopLock ==
    /\ user = "lock" /\ mWait = NoThread
    /\ timerRunning' = FALSE
    /\ user' = "join"
    /\ UNCHANGED <<request, starts, thread, singleShot, mWait, pc, fired, singles>>

\* A stop() that detaches the thread.
Detach ==
    /\ user = "join"
    /\ thread' = NoThread
    /\ user' = Follows[request]
    /\ UNCHANGED <<request, starts, timerRunning, singleShot, mWait, pc, fired, singles>>

\* stop(): join and forget the thread.
Join ==
    /\ user = "join" /\ pc[thread] = "done"
    /\ thread' = NoThread
    /\ user' = Follows[request]
    /\ UNCHANGED <<request, starts, timerRunning, singleShot, mWait, pc, fired, singles>>

\* A start that leaves timerRunning as the last stop() left it.
LaunchStopped ==
    /\ user = "launch"
    /\ user' = "idle"
    /\ singleShot' = (request = "startSingleShot")
    /\ starts' = starts + 1
    /\ thread' = starts + 1
    /\ pc' = [pc EXCEPT ![starts + 1] = "check"]
    /\ singles' = IF singleShot' THEN singles \cup {starts + 1} ELSE singles
    /\ UNCHANGED <<request, mWait, fired, timerRunning>>

\* start() and startSingleShot(), once there is no thread.
Launch ==
    /\ user = "launch"
    /\ user' = "idle"
    /\ timerRunning' = TRUE
    /\ singleShot' = (request = "startSingleShot")
    /\ starts' = starts + 1
    /\ thread' = starts + 1
    /\ pc' = [pc EXCEPT ![starts + 1] = "check"]
    /\ singles' = IF singleShot' THEN singles \cup {starts + 1} ELSE singles
    /\ UNCHANGED <<request, mWait, fired>>

-----------------------------------------------------------------------------
\* A loop that does not look at timerRunning.
CheckForever(n) ==
    /\ pc[n] = "check"
    /\ pc' = [pc EXCEPT ![n] = "lock"]
    /\ UNCHANGED <<program, timerRunning, mWait, fired>>

\* run(): while (timerRunning).
Check(n) ==
    /\ pc[n] = "check"
    /\ pc' = [pc EXCEPT ![n] = IF timerRunning THEN "lock" ELSE "done"]
    /\ UNCHANGED <<program, timerRunning, mWait, fired>>

\* run(): take mWait and sleep.
Sleep(n) ==
    /\ pc[n] = "lock" /\ mWait = NoThread
    /\ mWait' = n
    /\ pc' = [pc EXCEPT ![n] = "sleep"]
    /\ UNCHANGED <<program, timerRunning, fired>>

\* run(): the sleep and the block that holds mWait end.
Wake(n) ==
    /\ pc[n] = "sleep"
    /\ mWait' = NoThread
    /\ pc' = [pc EXCEPT ![n] = "test"]
    /\ UNCHANGED <<program, timerRunning, fired>>

\* run(): emit only if the timer was not stopped during the sleep.
Test(n) ==
    /\ pc[n] = "test"
    /\ pc' = [pc EXCEPT ![n] = IF timerRunning THEN "emit" ELSE "single"]
    /\ UNCHANGED <<program, timerRunning, mWait, fired>>

\* An emission that is made twice.
EmitTwice(n) ==
    /\ pc[n] = "emit"
    /\ fired' = [fired EXCEPT ![n] = @ + 2]
    /\ pc' = [pc EXCEPT ![n] = "single"]
    /\ UNCHANGED <<program, timerRunning, mWait>>

\* run(): EB_EMIT(timeout).
Emit(n) ==
    /\ pc[n] = "emit"
    /\ fired' = [fired EXCEPT ![n] = IF @ = 2 THEN 2 ELSE @ + 1]
    /\ pc' = [pc EXCEPT ![n] = "single"]
    /\ UNCHANGED <<program, timerRunning, mWait>>

\* A single shot that stays on.
SingleStaysOn(n) ==
    /\ pc[n] = "single"
    /\ timerRunning' = timerRunning
    /\ pc' = [pc EXCEPT ![n] = "check"]
    /\ UNCHANGED <<program, mWait, fired>>

\* run(): a single shot stops itself.
Single(n) ==
    /\ pc[n] = "single"
    /\ timerRunning' = (timerRunning /\ ~singleShot)
    /\ pc' = [pc EXCEPT ![n] = "check"]
    /\ UNCHANGED <<program, mWait, fired>>

Run(n) == Check(n) \/ Sleep(n) \/ Wake(n) \/ Test(n) \/ Emit(n) \/ Single(n)

Next == \/ \E op \in DOMAIN Follows : Call(op)
        \/ StopLock \/ Join \/ Launch
        \/ \E n \in Threads : Run(n)

Spec == Init /\ [][Next]_vars

\* Threads are scheduled and sleeps end.  Of two threads that want mWait,
\* std::mutex promises neither that it gets it.
Scheduled == /\ WF_vars(StopLock) /\ WF_vars(Join) /\ WF_vars(Launch)
             /\ \A n \in Threads : WF_vars(Run(n))
ScheduledSpec == Spec /\ Scheduled

-----------------------------------------------------------------------------

TypeOK == /\ user \in {"idle", "lock", "join", "launch", "gone"}
          /\ request \in DOMAIN Follows
          /\ starts \in 0 .. MaxStarts
          /\ thread \in Threads \cup {NoThread}
          /\ timerRunning \in BOOLEAN
          /\ singleShot \in BOOLEAN
          /\ mWait \in Threads \cup {NoThread}
          /\ pc \in [Threads -> {"none", "check", "lock", "sleep", "test",
                                 "emit", "single", "done"}]
          /\ fired \in [Threads -> 0 .. 2]
          /\ singles \subseteq Threads

\* When stop(), a restart or the destructor has let go of a thread, that
\* thread emits no more: at most the thread of the latest start is alive.
OnlyTheLatestRuns == \A n \in Threads :
    n # thread => pc[n] \in {"none", "done"}

\* "Starts the timer for exactly one timeout", although the test of
\* timerRunning and its reset are not one step.
SingleShotFiresOnce == \A n \in singles : fired[n] <= 1

\* A start stands until its own single shot is over or somebody calls stop():
\* the end of the run before it does not clear timerRunning again.
StartStands ==
    (user = "idle" /\ thread # NoThread /\ ~timerRunning) =>
        thread \in singles /\ fired[thread] = 1

\* A start emits a timeout, unless the program makes another call first.
EveryStartFires == \A n \in Threads :
    pc[n] = "check" ~> (fired[n] > 0 \/ user # "idle")

\* The calls that stop a single shot return, whomever the mutex prefers: its
\* thread sleeps once and gives mWait up for good.  And a call that has cleared
\* timerRunning returns, whatever kind of start and step the thread was in.
SingleShotStops ==
    (user = "join" \/ (user = "lock" /\ thread \in singles))
        ~> (user \notin {"lock", "join"})

\* "Stopps the timer": stop() returns.
StopReturns == (user = "lock") ~> (user \notin {"lock", "join"})

=============================================================================
