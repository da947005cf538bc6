CONSTANTS
  HeapSize = 160
  PageSize = 32
  Threshold = 56
  Counts = {1, 28, 104}
  Alignments = {8, 16}
  UserWords = {0, 64}
  ArenaBase = 32
  ArenaCounts = {1}
  ArenaWords = {}
  MaxNodes = 1
  MaxLive = 3
  MaxAllocated = 96
  MaxOwed = 48
  Threads = {t1}
  StackSize = 2
  StackPage = 2
  StackThreshold = 3
  Default = 1
  Sizes = {1}
  StackAlignments = {1}
  Quiet = TRUE
  MapsAfresh = FALSE
SPECIFICATION MCSpec
INVARIANTS Ascending
CHECK_DEADLOCK FALSE
