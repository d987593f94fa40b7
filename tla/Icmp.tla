-------------------------------- MODULE Icmp --------------------------------
(***************************************************************************)
(* EBICMP: each ping() starts a thread that sends one echo request, waits  *)
(* for the answer or five seconds, and emits finished or error.  running   *)
(* is a plain member: the thread resets it before it emits, so that the    *)
(* program may call ping() again while the thread still ends.              *)
(***************************************************************************)
EXTENDS Integers, FiniteSets, Sequences

CONSTANTS MaxPings,   \* bound: calls of ping() that return TRUE
          Hosts       \* destinations

Pings == 1 .. MaxPings

VARIABLES pings,        \* pings so far; the latest is the number of the thread
          destination,  \* EBICMP::destination
          running,      \* EBICMP::running
          user,         \* where the program is in ping()
          pc,           \* where the thread of each ping is
          pinged,       \* the host each ping went to
          host,         \* ICMP_RESULT::host of each ping that was answered
          moved,        \* history: pings during which the destination was set
          outcomes      \* history: the signals, with their ping

vars == <<pings, destination, running, user, pc, pinged, host, moved, outcomes>>

None == "none"

Init == /\ pings = 0 /\ destination \in Hosts /\ running = FALSE
        /\ user = "idle"
        /\ pc = [n \in Pings |-> "none"]
        /\ pinged = [n \in Pings |-> None] /\ host = [n \in Pings |-> None]
        /\ moved = {} /\ outcomes = <<>>

SetDestination == \E h \in Hosts :
    /\ user = "idle"
    /\ destination' = h
    /\ moved' = moved \cup {n \in Pings : pc[n] \notin {"none", "done"}}
    /\ UNCHANGED <<pings, running, user, pc, pinged, host, outcomes>>

\* ping() returns FALSE while one is running...
Ping ==
    /\ user = "idle" /\ ~running /\ pings < MaxPings
    /\ running' = TRUE
    /\ user' = "join"
    /\ UNCHANGED <<pings, destination, pc, pinged, host, moved, outcomes>>

\* ... joins the thread before it and starts the next.
Start ==
    /\ user = "join"
    /\ pings > 0 => pc[pings] = "done"
    /\ pings' = pings + 1
    /\ pc' = [pc EXCEPT ![pings + 1] = "begin"]
    /\ user' = "idle"
    /\ UNCHANGED <<destination, running, pinged, host, moved, outcomes>>

Goto(n, label) == pc' = [pc EXCEPT ![n] = label]

\* run(): the address is taken from the destination...
Address(n) ==
    /\ pc[n] = "begin"
    /\ pinged' = [pinged EXCEPT ![n] = destination]
    /\ Goto(n, "send")
    /\ UNCHANGED <<pings, destination, running, user, host, moved, outcomes>>

\* ... and the request sent: no handle, no buffer or no answer in time end it
\* with an error; the result names the destination of now.
SendEcho(n) ==
    /\ pc[n] = "send"
    /\ \/ Goto(n, "failed") /\ host' = host
       \/ Goto(n, "answered") /\ host' = [host EXCEPT ![n] = destination]
    /\ UNCHANGED <<pings, destination, running, user, pinged, moved, outcomes>>

\* run(): running = false...
NotRunning(n) ==
    /\ pc[n] \in {"failed", "answered"}
    /\ running' = FALSE
    /\ Goto(n, IF pc[n] = "failed" THEN "error" ELSE "finished")
    /\ UNCHANGED <<pings, destination, user, pinged, host, moved, outcomes>>

\* ... and the outcome.
Emit(n) ==
    /\ pc[n] \in {"error", "finished"}
    /\ outcomes' = Append(outcomes, <<pc[n], n>>)
    /\ Goto(n, "done")
    /\ UNCHANGED <<pings, destination, running, user, pinged, host, moved>>

Next == \/ SetDestination \/ Ping \/ Start
        \/ \E n \in Pings : Address(n) \/ SendEcho(n) \/ NotRunning(n) \/ Emit(n)

Spec == Init /\ [][Next]_vars

TypeOK == /\ pings \in 0 .. MaxPings /\ destination \in Hosts
          /\ running \in BOOLEAN /\ user \in {"idle", "join"}
          /\ pc \in [Pings -> {"none", "begin", "send", "failed", "answered", "error",
                               "finished", "done"}]
          /\ pinged \in [Pings -> Hosts \cup {None}]
          /\ host \in [Pings -> Hosts \cup {None}]
          /\ moved \subseteq Pings
          /\ outcomes \in Seq({"error", "finished"} \X Pings)

\* Every ping has its one outcome, and the outcomes come in the order of the
\* pings, also when ping() is called while the thread before still ends.
OneOutcome == /\ \A i \in 1 .. Len(outcomes) : outcomes[i][2] = i
              /\ pings > 0 /\ ~running /\ user = "idle" =>
                    Len(outcomes) = pings \/ pc[pings] \in {"error", "finished"}

\* A result names the host that was pinged, unless the destination was set in
\* between.
ResultNamesHost == \A n \in Pings \ moved : host[n] \in {None, pinged[n]}

=============================================================================
