------------------------------- MODULE MC_Shm -------------------------------
(* A few processes, two segments and a small memory. *)
EXTENDS Shm, TLC

MCSymmetry == Permutations(ProcSlots \ {FirstSlot}) \cup Permutations(SegKeys)
=============================================================================
