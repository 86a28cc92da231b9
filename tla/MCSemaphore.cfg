CONSTANTS
  None = None
  Threads = {t1, t2, t3}
  NSEM = 2
  MAXQ = 2
  InitCounts = {1}
  MaxInit = 3
  Killable = {t1}
  Nester = t1
  Wants <- MCWants
SPECIFICATION SemFairSpec
INVARIANTS CapacityRespected SleepersQueued WokenAfterSleep
PROPERTY WaiterEnters
CHECK_DEADLOCK FALSE
