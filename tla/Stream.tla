------------------------------- MODULE Stream -------------------------------
(* What is sent over a network or a serial line, in order (external: the peer  *)
(* and the operating system).                                                  *)
EXTENDS Integers, Sequences

\* The first k pieces, one behind the other.
Joined(pieces) ==
    LET joined[k \in 0 .. Len(pieces)] ==
            IF k = 0 THEN <<>> ELSE joined[k - 1] \o pieces[k]
    IN  joined
=============================================================================
