CONSTANTS
  None = None
  Threads = {t1, t2, t3, t4}
  NSEM = 1
  MAXQ = 2
  InitCounts = {1}
  MaxInit = 1
  Killable = {}
  Nester = t1
  Wants <- MCWants
SPECIFICATION SemSpec
INVARIANT SleepersQueued
CHECK_DEADLOCK FALSE
