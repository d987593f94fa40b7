------------------------------- MODULE Mailbox -------------------------------
(***************************************************************************)
(* What an event loop promises: a mailbox.  Messages posted by any thread  *)
(* are taken one at a time, in the order they were posted, each at most    *)
(* once, and none after the owner has closed the box.                      *)
(***************************************************************************)
EXTENDS Sequences

CONSTANT Messages

VARIABLES inbox,    \* posted and not yet taken
          taken,    \* history: the messages taken, in order
          open      \* the owner still takes messages

vars == <<inbox, taken, open>>

Init == inbox = <<>> /\ taken = <<>> /\ open = TRUE

Post(m) == inbox' = Append(inbox, m) /\ UNCHANGED <<taken, open>>

Take == /\ open
        /\ inbox # <<>>
        /\ taken' = Append(taken, Head(inbox))
        /\ inbox' = Tail(inbox)
        /\ UNCHANGED open

Shut == open /\ open' = FALSE /\ UNCHANGED <<inbox, taken>>

Next == (\E m \in Messages : Post(m)) \/ Take \/ Shut

Spec == Init /\ [][Next]_vars
=============================================================================
