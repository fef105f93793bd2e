SPECIFICATION ShmSpec
CONSTANTS
  ProcSlots = {p1, p2}
  FirstSlot = p1
  MAX_SHM = 2
  MAX_SHM_PG = 2
  TRAPFRAME = 5
  NPages = 5
  SegKeys = {k1, k2}
  NoSegKey = NoSegKey
  MaxSz = 2
  MaxImage = 1
INVARIANT PagesAreAccounted
SYMMETRY MCSymmetry
CHECK_DEADLOCK FALSE
