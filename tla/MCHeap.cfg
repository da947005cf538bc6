CONSTANTS
  HeapSize = 160
  PageSize = 32
  Threshold = 56
  Counts = {1, 28, 104}
  Alignments = {8, 16}
  UserWords = {0, 64}
  ArenaBase = 32
  ArenaCounts = {1, 48}
  ArenaWords = {0, 48}
  MaxNodes = 2
  MaxLive = 3
  MaxAllocated = 96
  MaxOwed = 48
  Threads = {t1, t2, t3}
  StackSize = 6
  StackPage = 2
  StackThreshold = 3
  Default = 1
  Sizes = {1, 3}
  StackAlignments = {1, 2}
  Quiet = TRUE
  MapsAfresh = FALSE
SPECIFICATION MCSpec
INVARIANTS Ordered HeapTiled UserFits NoFalseRefusal Backed ArenaIntact ArenaServes StackApart StackCommitted
CHECK_DEADLOCK FALSE
