\* Pipes and the open file table.
CONSTANTS
  Procs = {p1, p2}
  First = p1
  NFILE = 2
  NOFILE = 2
  PIPESIZE = 2
  WRAP = 4
  Bytes = {b0, b1}
  MaxN = 2
  None = None
SYMMETRY Symmetry
SPECIFICATION Spec
CHECK_DEADLOCK FALSE
INVARIANTS EndsAreHeld NoMissedPipeWakeup
PROPERTY ImplementsByteStream
