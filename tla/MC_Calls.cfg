SPECIFICATION MCSpec
CONSTANTS
  \* processes and kernel mutexes
  NPROC = 3
  NCPU = 2
  MaxForkn = 2
  MaxPid = 3
  TargetPids = {0, 2, 3}
  Sigs = {1, 2, 3}
  NKMUTEX = 1
  \* message queues
  MAX_Q = 2
  MAX_MSG = 2
  MAX_MSG_LEN = 1
  Keys = {q1, q2, q3}
  NoKey = NoKey
  Types = {1, 2}
  Lens <- MCLens
  MaxSent = 3
  \* user memory and shared segments
  ProcSlots = {p1, p2}
  FirstSlot = p1
  MAX_SHM = 2
  MAX_SHM_PG = 2
  TRAPFRAME = 5
  NPages = 4
  SegKeys = {k1, k2}
  NoSegKey = NoSegKey
  MaxSz = 2
  MaxImage = 1
INVARIANTS ParentIsAlive NoMissedExit NoMissedUnlock TableIsConsistent AttachmentsHold PagesHold
PROPERTIES OnlyOwnerUnlocks ImplementsMailbox LastDetachFrees
CONSTRAINT NotOverrun
SYMMETRY MCSymmetry
CHECK_DEADLOCK FALSE
