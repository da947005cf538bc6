CONSTANTS
  HeapSize = 32
  PageSize = 32
  Threshold = 56
  Counts = {1}
  Alignments = {8}
  UserWords = {}
  ArenaBase = 32
  ArenaCounts = {1, 48}
  ArenaWords = {64}
  MaxNodes = 1
  MaxLive = 3
  MaxAllocated = 96
  MaxOwed = 0
  Threads = {t1}
  StackSize = 2
  StackPage = 2
  StackThreshold = 3
  Default = 1
  Sizes = {1}
  StackAlignments = {1}
  Quiet = TRUE
  MapsAfresh = FALSE
SPECIFICATION MCSpec
INVARIANTS ArenaFreedWhenEmpty
CHECK_DEADLOCK FALSE
