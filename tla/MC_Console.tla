---------------------------- MODULE MC_Console ------------------------------
(* The console: two processes that are alike. *)
EXTENDS Console, TLC

Symmetry == Permutations(Procs)
=============================================================================
