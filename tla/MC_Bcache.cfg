SPECIFICATION Spec
CONSTANTS
  Procs = {p1, p2, p3}
  Bufs = {u1, u2}
  Blocks = {k1, k2, k3}
  Vals = {v0, v1}
  None = None
  NUM = 4
  MaxPinned = 1
SYMMETRY Symmetry
CHECK_DEADLOCK FALSE
INVARIANTS OneBufferPerBlock RefcntIsUsers NoMissedCompletion
PROPERTY ImplementsBlockStore
