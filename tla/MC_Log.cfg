SPECIFICATION Spec
CONSTANTS
  Procs = {p1, p2, p3}
  Blocks = {b1, b2}
  Vals = {v0, v1}
  None = None
  LOGBLOCKS = 6
  MAXOPBLOCKS = 3
  MaxWrites = 2
INVARIANTS NeverPanics NoMissedSpace IdleIsDurable
PROPERTY ImplementsAtomicDisk
