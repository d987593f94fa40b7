----------------------------- MODULE MCTcpSocket -----------------------------
(***************************************************************************)
(* Instances of TcpSocket: a socket that is opened twice, or accepted and  *)
(* opened, over connections of a few bytes that end in every way.          *)
(***************************************************************************)
EXTENDS TcpSocket
=============================================================================
