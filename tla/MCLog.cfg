CONSTANTS
  Procs = {p1, p2, p3}
  Blocks = {b1, b2, b3}
  Data = {0, 1}
  MAXOPBLOCKS = 3
  LOGSIZE = 6
  NLOG = 6
  OpBlocks = 2
SYMMETRY Symmetry
SPECIFICATION Spec
INVARIANTS SpaceReserved SleepersWoken
PROPERTY AtomicSpec
