CONSTANTS
  NPROC = 3
  NPSL = 1
  NSTACK = 2
  NCPU = 1
  MaxPid = 4
  KillPids = {2}
  ExecPids = {4}
  MayFail = FALSE
SPECIFICATION FairSpec
INVARIANT PageTablesSafe
PROPERTIES OrphansReaped KilledExits
CHECK_DEADLOCK FALSE
