------------------------------ MODULE MC_Pipe -------------------------------
(* Pipes: two processes, the values of a byte are interchangeable. *)
EXTENDS Pipe, TLC

Symmetry == Permutations(Bytes)
=============================================================================
