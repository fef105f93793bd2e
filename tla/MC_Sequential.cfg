SPECIFICATION Spec
CONSTANTS
  MaxRun = 3
  Magic <- RleMagic
  MAX_FILE_SIZE = 8
  MaxIn = 8
  LINE = 4
  MAXITEMS = 2
  INT_MAX = 99
  DIRSIZ = 2
  TAILCAP = 4
  MAXARGS = 3
  NOFILE = 7
  PGSIZE = 2
  NPAGES = 3
  CORE = 3
  TOP = 11
  HALF = 8
INVARIANTS
  RoundTrip
  ReadsWholeRequests
  PathElements
  LogTailIsLastLines
  HeapIsTiled
  CopiesExact
  ShellParses
  ShellWiring
CHECK_DEADLOCK FALSE
