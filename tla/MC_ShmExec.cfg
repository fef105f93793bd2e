SPECIFICATION ShmSpec
CONSTANTS
  ProcSlots = {p1, p2, p3}
  FirstSlot = p1
  MAX_SHM = 2
  MAX_SHM_PG = 2
  TRAPFRAME = 5
  NPages = 4
  SegKeys = {k1, k2}
  NoSegKey = NoSegKey
  MaxSz = 1
  MaxImage = 1
INVARIANT NoLeafLeft
SYMMETRY MCSymmetry
CHECK_DEADLOCK FALSE
