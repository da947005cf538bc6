CONSTANTS
  Threads = {t1}
  StackSize = 6
  PageSize = 2
  Threshold = 3
  Default = 1
  Sizes = {1, 3}
  Alignments = {1, 2}
  Quiet = TRUE
  MapsAfresh = TRUE
SPECIFICATION Spec
INVARIANT DataKept
