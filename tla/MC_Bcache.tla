----------------------------- MODULE MC_Bcache ------------------------------
EXTENDS Bcache, TLC

Symmetry == Permutations(Procs) \cup Permutations(Blocks)
=============================================================================
