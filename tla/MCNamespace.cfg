CONSTANTS
  p1 = p1
  p2 = p2
  Procs = {p1, p2}
  NINODE = 3
  NInodes = 3
  Names = {"a", "b"}
  MaxLinks = 3
  Calls <- TreeCalls
SPECIFICATION Spec
INVARIANTS LinksCover InUseKept PanicsOnlyAboveRemoved CyclesOnlyThroughIput
CONSTRAINT NotStrayed
CHECK_DEADLOCK FALSE
