----------------------------- MODULE MCSemaphore -----------------------------
(***************************************************************************)
(* Instance of Semaphore: four threads, a counter of two bits that starts  *)
(* with one token and wraps.                                               *)
(***************************************************************************)
EXTENDS Semaphore
=============================================================================
