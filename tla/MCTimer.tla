------------------------------- MODULE MCTimer -------------------------------
(***************************************************************************)
(* Instances of Timer: a few starts of either kind, stopped, restarted and *)
(* destroyed at any moment of the thread's loop.                           *)
(***************************************************************************)
EXTENDS Timer
=============================================================================
