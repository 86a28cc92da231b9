CONSTANTS
  UT_COUNT = 5
  MaxTid = 9
SPECIFICATION YieldSpec
INVARIANTS ReadyToSwitch
PROPERTIES FreedByLastThread NoStarvation
CHECK_DEADLOCK FALSE
