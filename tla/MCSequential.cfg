CONSTANTS
  BSIZE = 2
  NDIRECT = 2
  NBLOCKS = 7
  NINODES = 3
  Trees <- MCTrees
  MAXOPBLOCKS = 6
  Procs = {1, 2}
  Files = {1}
  Amounts = {7}
  HDR = 2
  MORE = 4
  HEAP = 9
  Requests = {1, 7}
  Patterns <- MCPatterns
  Texts <- MCTexts
  Lines <- MCLines
  BUF = 4
  NLines = 2
  MAXARGS = 3
  Tokens = {"a", "<", ">>", "|", "&", ";", "(", ")"}
  NTokens = 5
SPECIFICATION Spec
INVARIANTS DiskConsistent FitsTransaction HeapTiled GrepCorrect ParsesGrammar
PROPERTY FilesAreSequences
CHECK_DEADLOCK FALSE
