CONSTANTS
  NPROC = 3
  NPSL = 1
  NSTACK = 2
  NPAGES = 25
  PGSIZE = 2
  PTENTRIES = 2
  Images = {1}
  Grows = {1, 2}
  Shrinks = {1}
  MaxSz = 6
SPECIFICATION Spec
INVARIANTS PagesAccounted ImageIntact BreaksOnlyWithThreads
CHECK_DEADLOCK FALSE
