------------------------------ MODULE MCSignals ------------------------------
(***************************************************************************)
(* Instances of Signals: a managed and a scoped receiver, the loop's       *)
(* thread and others that connect, emit and disconnect.                    *)
(***************************************************************************)
EXTENDS Signals, TLC

\* All properties are invariants, so the emitters may be interchanged.
EmitterSymmetry == Permutations(Emitters)
=============================================================================
