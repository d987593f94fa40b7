------------------------------ MODULE EventLoop ------------------------------
(***************************************************************************)
(* One EBEventLoop: the thread that runs exec(), and the threads that call *)
(* emit() and exit() on it (timers, sockets, other event loops).           *)
(*                                                                         *)
(* The steps are those other threads can run between: emit() appends to    *)
(* the queue under the mutex and releases the semaphore after unlocking;   *)
(* exit() sets the flag without any lock and then emits a null slot;       *)
(* processEvents() leaves a slot at the head of the queue while it runs    *)
(* and pops it afterwards.  The semaphore is a plain counter here: module  *)
(* Semaphore shows that acquire() returns when there is a token.           *)
(*                                                                         *)
(* events.size() is read without the mutex, a data race with push_back.    *)
(* libstdc++ raises the size in the same critical section that links the   *)
(* node and only this thread pops, so the read yields the size before or   *)
(* after the push; both orders of Emit and the drain are behaviours here.  *)
(***************************************************************************)
EXTENDS Integers, Sequences

CONSTANTS Calls,       \* the slot calls that can be emitted, each once
          Null,        \* the null slot exit() emits
          Loop,        \* the thread that runs exec()
          Emitters     \* the other threads

\* Where the program's own code runs: before exec(), in a slot, in a
\* destructor run by destroyObjects(), or in a thread that is not the loop's.
CodePoints == {"main", "slot", "destroy", "foreign"}

ASSUME EventLoopAssumption ==
    /\ Null \notin Calls
    /\ Loop \notin Emitters

Threads == Emitters \cup {Loop}
Slots == Calls \cup {Null}

VARIABLES events,    \* EBEventLoop::events
          tokens,    \* the tokens of EBEventLoop::semaphore
          closed,    \* EBEventLoop::closed
          pc,        \* where the loop thread is
          step,      \* where each thread is inside emit() or exit()
          exited,    \* the threads that called exit(): once each, a bound
          pushed,    \* history: every slot appended to events, in order
          called,    \* history: every slot taken from the head, in order
          emittedBeforeExit   \* history: the calls pushed when a slot set closed

vars == <<events, tokens, closed, pc, step, exited, pushed, called,
          emittedBeforeExit>>

PCs == {"main", "check", "acquire", "drain", "slot", "pop", "destroy",
        "returned"}
Steps == {"idle", "pushed", "closed"}

Elements(s) == {s[i] : i \in 1 .. Len(s)}

\* The point of the code thread t runs its own code at, if it does.
Point(t) == IF t = Loop THEN pc ELSE "foreign"
Runs(t) == step[t] = "idle" /\ Point(t) \in CodePoints

Init == /\ events = <<>>
        /\ tokens = 0
        /\ closed = FALSE
        /\ pc = "main"
        /\ step = [t \in Threads |-> "idle"]
        /\ exited = {}
        /\ pushed = <<>>
        /\ called = <<>>
        /\ emittedBeforeExit = {}

\* A push that is not at the end of the queue.
PushFront(t, s) == /\ events' = <<s>> \o events
                   /\ pushed' = Append(pushed, s)
                   /\ step' = [step EXCEPT ![t] = "pushed"]

Push(t, s) == /\ events' = Append(events, s)
              /\ pushed' = Append(pushed, s)
              /\ step' = [step EXCEPT ![t] = "pushed"]

\* emit(): the critical section.
Emit(t, c) == /\ Runs(t)
              /\ c \notin Elements(pushed)
              /\ Push(t, c)
              /\ UNCHANGED <<tokens, closed, pc, exited, called,
                             emittedBeforeExit>>

\* A semaphore that holds at most one token.
ReleaseBinary(t) == /\ step[t] = "pushed"
                    /\ tokens' = 1 - tokens
                    /\ step' = [step EXCEPT ![t] = "idle"]
                    /\ UNCHANGED <<events, closed, pc, exited, pushed, called,
                                   emittedBeforeExit>>

\* emit(): semaphore->release(), after the mutex was given back.  Tokens are
\* counted without a limit here; Semaphore has the wrap of the uint32.
Release(t) == /\ step[t] = "pushed"
              /\ tokens' = tokens + 1
              /\ step' = [step EXCEPT ![t] = "idle"]
              /\ UNCHANGED <<events, closed, pc, exited, pushed, called,
                             emittedBeforeExit>>

\* exit(): closed = true.
Close(t) == /\ Runs(t)
            /\ t \notin exited
            /\ closed' = TRUE
            /\ exited' = exited \cup {t}
            /\ step' = [step EXCEPT ![t] = "closed"]
            /\ emittedBeforeExit' =
                 IF ~closed /\ Point(t) = "slot" THEN Elements(pushed) \ {Null}
                                                ELSE emittedBeforeExit
            /\ UNCHANGED <<events, tokens, pc, pushed, called>>

\* An exit() that only sets the flag.
EmitNothing(t) == /\ step[t] = "closed"
                  /\ step' = [step EXCEPT ![t] = "idle"]
                  /\ UNCHANGED <<events, tokens, closed, pc, exited, pushed,
                                 called, emittedBeforeExit>>

\* exit(): emit(slot) with a null slot.
EmitNull(t) == /\ step[t] = "closed"
               /\ Push(t, Null)
               /\ UNCHANGED <<tokens, closed, pc, exited, called,
                              emittedBeforeExit>>

-----------------------------------------------------------------------------
\* The loop thread.  It stays inside an emit() or exit() it called itself
\* until that is done: in "main", "slot" and "destroy" step[Loop] counts.

LoopGoto(from, to) == pc = from /\ step[Loop] = "idle" /\ pc' = to

\* main() calls exec().
Exec == /\ LoopGoto("main", "check")
        /\ UNCHANGED <<events, tokens, closed, step, exited, pushed, called,
                       emittedBeforeExit>>

\* exec(): while (!closed).
CheckClosed == /\ LoopGoto("check", IF closed THEN "returned" ELSE "acquire")
               /\ UNCHANGED <<events, tokens, closed, step, exited, pushed,
                              called, emittedBeforeExit>>

\* An acquire() that does not wait.
AcquireAtOnce == /\ LoopGoto("acquire", "drain")
                 /\ tokens' = tokens - 1
                 /\ UNCHANGED <<events, closed, step, exited, pushed, called,
                                emittedBeforeExit>>

\* exec(): semaphore->acquire() returns.
Acquire == /\ tokens > 0
           /\ LoopGoto("acquire", "drain")
           /\ tokens' = tokens - 1
           /\ UNCHANGED <<events, closed, step, exited, pushed, called,
                          emittedBeforeExit>>

\* processEvents(): a slot is at the head; it runs unless it is null.
TakeHead == /\ events # <<>>
            /\ LoopGoto("drain", IF Head(events) = Null THEN "pop" ELSE "slot")
            /\ called' = Append(called, Head(events))
            /\ UNCHANGED <<events, tokens, closed, step, exited, pushed,
                           emittedBeforeExit>>

\* processEvents(): the slot returned.
EndSlot == /\ LoopGoto("slot", "pop")
           /\ UNCHANGED <<events, tokens, closed, step, exited, pushed, called,
                          emittedBeforeExit>>

\* One event per token instead of a drain.
PopAndReturn == /\ LoopGoto("pop", "destroy")
                /\ events' = Tail(events)
                /\ UNCHANGED <<tokens, closed, step, exited, pushed, called,
                               emittedBeforeExit>>

\* processEvents(): events.pop_front().
Pop == /\ LoopGoto("pop", "drain")
       /\ events' = Tail(events)
       /\ UNCHANGED <<tokens, closed, step, exited, pushed, called,
                      emittedBeforeExit>>

\* processEvents(): no event is left; destroyObjects() begins.
Drained == /\ events = <<>>
           /\ LoopGoto("drain", "destroy")
           /\ UNCHANGED <<events, tokens, closed, step, exited, pushed, called,
                          emittedBeforeExit>>

\* A processEvents() that clears the semaphore at its end.
DestroyedAndCleared == /\ LoopGoto("destroy", "check")
                       /\ tokens' = 0
                       /\ UNCHANGED <<events, closed, step, exited, pushed,
                                      called, emittedBeforeExit>>

\* processEvents() returns: destroyObjects() is done.
Destroyed == /\ LoopGoto("destroy", "check")
             /\ UNCHANGED <<events, tokens, closed, step, exited, pushed,
                            called, emittedBeforeExit>>

LoopStep == \/ Exec \/ CheckClosed \/ Acquire \/ TakeHead \/ EndSlot \/ Pop
            \/ Drained \/ Destroyed

\* The rest of an emit() or exit() a thread is inside of.
Finish(t) == Release(t) \/ EmitNull(t)

ThreadStep(t) == \/ \E c \in Calls : Emit(t, c)
                 \/ Close(t)
                 \/ Finish(t)

Next == LoopStep \/ \E t \in Threads : ThreadStep(t)

Spec == Init /\ [][Next]_vars

\* Threads are scheduled: the loop thread goes on while it can, and whoever
\* is inside emit() or exit() gets to its end.  Nobody has to call either.
\* A slot returns: the loop's other steps need it to.
Fairness == WF_vars(LoopStep) /\ \A t \in Threads : WF_vars(Finish(t))

FairSpec == Spec /\ Fairness

-----------------------------------------------------------------------------

TypeOK == /\ events \in Seq(Slots)
          /\ tokens \in Nat
          /\ closed \in BOOLEAN
          /\ pc \in PCs
          /\ step \in [Threads -> Steps]
          /\ exited \subseteq Threads
          /\ pushed \in Seq(Slots)
          /\ called \in Seq(Slots)
          /\ emittedBeforeExit \subseteq Calls

\* The slots that are in the queue and not yet started: the one that runs,
\* or has just run, is still at the head.
Undelivered == IF pc \in {"slot", "pop"} THEN Tail(events) ELSE events

Between == {t \in Threads : step[t] = "pushed"}

\* No wakeup is lost: whenever the loop thread is outside the drain with
\* events queued, acquire() will not block for good, because a token is
\* there or a thread is between the push and the release of its emit().
NoLostWakeup ==
    pc \in {"check", "acquire"} /\ events # <<>> => tokens > 0 \/ Between # {}

\* exit() cannot be slept through: if the loop is about to block although
\* closed is set, a token is there or an exit() or emit() is still under way
\* that will bring one.  The flag is not under a lock; the null slot is what
\* makes this true.
ExitWakesLoop ==
    pc = "acquire" /\ closed =>
        tokens > 0 \/ \E t \in Threads : step[t] \in {"pushed", "closed"}

\* Nothing is lost, repeated or reordered: at every moment what was called
\* followed by what waits is exactly what was pushed, although any number of
\* threads push while the loop reads the size and the head without holding
\* the mutex over both.
FirstInFirstOut == pushed = called \o Undelivered

\* exec() "processes all signals and ends only if exit is called": when a
\* slot called exit(), every call emitted before that was made when exec()
\* returns, whoever calls exit() again and wherever the loop is then.  An
\* exit() of another thread makes no such promise: it can come between the
\* last look at the queue and the look at closed.
EmittedBeforeExitCalled ==
    pc = "returned" => emittedBeforeExit \subseteq Elements(called)

\* exit() does end exec(), wherever it is called from.
ExecReturns == closed /\ pc # "main" ~> pc = "returned"

\* A call that is in the queue is made, unless the loop is told to exit.
EveryCallMade ==
    \A c \in Calls :
        c \in Elements(events) /\ pc # "main" ~> c \in Elements(called) \/ closed

\* The loop implements the mailbox.
Abstract == INSTANCE Mailbox WITH Messages <- Slots,
                                  inbox <- Undelivered,
                                  taken <- called,
                                  open <- pc # "returned"

ImplementsMailbox == Abstract!Spec

=============================================================================
