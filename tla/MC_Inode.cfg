\* Inodes: two processes, three inodes, with crashes.
CONSTANTS
  Procs = {p1, p2}
  NameA = NameA
  NameB = NameB
  NInodes = 3
  Names <- MCNames
  Calls <- MCCalls
  Blocks = {1}
  MaxCalls = 4
SYMMETRY Symmetry
SPECIFICATION Spec
CHECK_DEADLOCK FALSE
INVARIANTS RefIsUsers NlinkIsLinks CopyIsDisk AllocatedIsOwned NeverStuck
