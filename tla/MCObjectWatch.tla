---------------------------- MODULE MCObjectWatch ----------------------------
(***************************************************************************)
(* Instances of ObjectWatch: two pointers on the stack and two nodes that  *)
(* hold one pointer each, so that lists and cycles of nodes occur; one     *)
(* event loop beside another thread (a timer, a socket) that works on the  *)
(* same pointers, or two event loops for the race between them.            *)
(***************************************************************************)
EXTENDS ObjectWatch

CONSTANTS a, b, n1, n2, o1, o2

\* a and b are on the stack, n1 and n2 are members of o1 and o2.
TwoNodes == [p \in Pointers |-> CASE p = n1 -> o1 [] p = n2 -> o2 [] OTHER -> None]
=============================================================================
