CONSTANTS
  NPROC = 4
  NPSL = 1
  NSTACK = 3
  NCPU = 1
  MaxPid = 3
  KillPids = {2}
  ExecPids = {}
  MayFail = TRUE
SPECIFICATION Spec
INVARIANTS NoMissedChild NoMissedThread StacksExclusive
CHECK_DEADLOCK FALSE
