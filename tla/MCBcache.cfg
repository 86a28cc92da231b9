CONSTANTS
  Uses = {1, 2, 3, 4}
  Owner <- MCOwner
  Pid <- MCPid
  Blocks = {1, 2, 3}
  NBUF = 2
  Data = {0, 1}
  Wants <- MCWants
  Written = {1}
  MaxPinned = 1
  MaxErrors = 1
SPECIFICATION Spec
INVARIANTS ReadsLatest SleepersWoken NoPanic
PROPERTY IoCompletes
CHECK_DEADLOCK FALSE
