CONSTANTS
  NPROC = 3
  NCPU = 3
  MaxForkn = 1
  MaxPid = 4
  TargetPids = {0, 2}
  Sigs = {1, 2, 3}
SPECIFICATION MCSpec
PROPERTIES
  OrphansAreReaped
  KilledExits
CHECK_DEADLOCK FALSE
