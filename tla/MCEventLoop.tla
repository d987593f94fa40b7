----------------------------- MODULE MCEventLoop -----------------------------
(***************************************************************************)
(* Instance of EventLoop: the loop's thread and two others emit two calls, *)
(* and each of the three calls exit() once, anywhere.                      *)
(***************************************************************************)
EXTENDS EventLoop
=============================================================================
