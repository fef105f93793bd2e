----------------------------- MODULE MC_Inode -------------------------------
(* Inodes: a file or directory /a, a file /b, and a name b in /a. *)
EXTENDS Inode, TLC

CONSTANTS NameA, NameB

MCNames == {NameA, NameB}
On(op, path) == [op |-> op, path |-> path, new |-> <<>>]
MCCalls ==
  {On("mkdir", <<NameA>>), On("create", <<NameA>>), On("create", <<NameB>>),
   On("create", <<NameA, NameB>>),
   On("unlink", <<NameA>>), On("unlink", <<NameB>>), On("unlink", <<NameA, NameB>>),
   On("open", <<NameB>>), On("chdir", <<NameA>>),
   [op |-> "link", path |-> <<NameB>>, new |-> <<NameA, NameB>>]}
Symmetry == Permutations(Procs)
=============================================================================
