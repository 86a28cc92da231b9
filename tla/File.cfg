CONSTANTS
  Procs = {1, 2}
  NFILE = 2
  NOFILE = 2
  NPIPE = 1
  PIPESIZE = 2
  WRAP = 4
  Bytes = {0, 1}
  Sizes = {1, 3}
  MaxKills = 1
SPECIFICATION Spec
INVARIANTS RefsExact PipesInUse SleepersHaveReason
PROPERTIES PipeIsChannel
CHECK_DEADLOCK FALSE
