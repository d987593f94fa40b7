------------------------------ MODULE Semaphore ------------------------------
(***************************************************************************)
(* EBSemaphore: a counter of tokens under a mutex and a condition          *)
(* variable.  acquire() sleeps on the condition while there is no token,   *)
(* release() adds a token under the mutex and calls notify_one() after     *)
(* the mutex was given back, so other threads run between the two.         *)
(*                                                                         *)
(* A critical section of the mutex is one action: every access to tokens   *)
(* is inside one.  notify_one() is an action of its own, and a sleeping    *)
(* thread may wake for no reason, as std::condition_variable allows.       *)
(***************************************************************************)
EXTENDS Integers, FiniteSets

CONSTANTS Threads,        \* the threads that use the semaphore
          StartCount,     \* constructor argument startCount
          TokenModulus,   \* 2^32 in the code: tokens is a uint32_t
          MaxReleases     \* bound: calls of release() in a behaviour

ASSUME SemaphoreAssumption ==
    /\ IsFiniteSet(Threads)
    /\ TokenModulus \in Nat \ {0}
    /\ StartCount \in 0 .. (TokenModulus - 1)
    /\ MaxReleases \in Nat

VARIABLES tokens,     \* EBSemaphore::tokens
          pc,         \* where each thread is
          releases    \* history: calls of release() so far, for the bound

vars == <<tokens, pc, releases>>

\* "waiting": asleep in condition.wait; "woken": awake again and about to
\* retest the loop condition; "notifying": between unlock and notify_one.
States == {"idle", "waiting", "woken", "notifying"}

Waiting == {t \in Threads : pc[t] = "waiting"}

\* Threads that will retest the counter, or wake one that will.
Pending == {t \in Threads : pc[t] \in {"woken", "notifying"}}

Init == /\ tokens = StartCount
        /\ pc = [t \in Threads |-> "idle"]
        /\ releases = 0

Goto(t, s) == pc' = [pc EXCEPT ![t] = s]

\* acquire(), the counter is positive: leave the loop and take a token.
Take(t) == /\ pc[t] \in {"idle", "woken"}
           /\ tokens > 0
           /\ tokens' = tokens - 1
           /\ Goto(t, "idle")
           /\ UNCHANGED releases

\* acquire(), no token: sleep; the wait gives the mutex back atomically.
Sleep(t) == /\ pc[t] \in {"idle", "woken"}
            /\ tokens = 0
            /\ Goto(t, "waiting")
            /\ UNCHANGED <<tokens, releases>>

\* A wakeup nobody asked for.
SpuriousWake(t) == /\ pc[t] = "waiting"
                   /\ Goto(t, "woken")
                   /\ UNCHANGED <<tokens, releases>>

\* A counter that is wider than a uint32_t.
ReleaseWide(t) == /\ pc[t] = "idle"
                  /\ releases < MaxReleases
                  /\ releases' = releases + 1
                  /\ tokens' = tokens + 1
                  /\ Goto(t, "notifying")

\* A release that notifies only if it found the counter at zero.
NotifyOnlyFromZero(t) ==
    /\ pc[t] = "idle"
    /\ releases < MaxReleases
    /\ releases' = releases + 1
    /\ tokens' = (tokens + 1) % TokenModulus
    /\ Goto(t, IF tokens = 0 THEN "notifying" ELSE "idle")

\* release(), the locked block.
Release(t) == /\ pc[t] = "idle"
              /\ releases < MaxReleases
              /\ releases' = releases + 1
              /\ tokens' = (tokens + 1) % TokenModulus
              /\ Goto(t, "notifying")

\* notify_one() after nobody slept.
NotifyNobody(t) == /\ pc[t] = "notifying"
                   /\ Waiting = {}
                   /\ Goto(t, "idle")
                   /\ UNCHANGED <<tokens, releases>>

\* A notification lost on a sleeping thread.
LostNotify(t) == /\ pc[t] = "notifying"
                 /\ Waiting # {}
                 /\ Goto(t, "idle")
                 /\ UNCHANGED <<tokens, releases>>

\* notify_one() wakes any one of the sleeping threads.
NotifyOne(t) == /\ pc[t] = "notifying"
                /\ \E w \in Waiting :
                     pc' = [pc EXCEPT ![t] = "idle", ![w] = "woken"]
                /\ UNCHANGED <<tokens, releases>>

Notify(t) == NotifyNobody(t) \/ NotifyOne(t)

\* Clear(): the tokens are gone, the sleeping threads stay asleep.
Clear(t) == /\ pc[t] = "idle"
            /\ tokens' = 0
            /\ UNCHANGED <<pc, releases>>

\* A woken thread goes round the loop of acquire() once more.
Retest(t) == pc[t] = "woken" /\ (Take(t) \/ Sleep(t))

Next == \E t \in Threads : \/ Take(t)
                           \/ Sleep(t)
                           \/ SpuriousWake(t)
                           \/ Release(t)
                           \/ Notify(t)
                           \/ Clear(t)

Spec == Init /\ [][Next]_vars

\* A running thread goes on: a woken thread gets the mutex, and a thread
\* inside release() reaches notify_one().  Nobody has to call anything.
Fairness == \A t \in Threads : WF_vars(Retest(t)) /\ WF_vars(Notify(t))

FairSpec == Spec /\ Fairness

-----------------------------------------------------------------------------

\* The counter stays in the range of its type and the threads in the code.
TypeOK == /\ tokens \in 0 .. (TokenModulus - 1)
          /\ pc \in [Threads -> States]
          /\ releases \in 0 .. MaxReleases

\* No token is stranded: while a thread sleeps in acquire(), each token in
\* the counter has a thread of its own that is going to look at it, one
\* that was woken or one that still has to call notify_one().  So giving
\* the mutex back before notify_one() loses no wakeup, whatever is acquired,
\* cleared or woken in between, and even if the counter wraps.
NoStrandedToken == Waiting # {} => tokens <= Cardinality(Pending)

\* A thread never sleeps on for ever next to a token: either the tokens are
\* used up or no thread is left asleep.
SleepersServed == (tokens > 0 /\ Waiting # {}) ~> (tokens = 0 \/ Waiting = {})

=============================================================================
