CONSTANTS
  v1 = v1
  v2 = v2
  k1 = k1
  k2 = k2
  k3 = k3
  Items = {v1, v2}
  NoItem = none
  Capacity = 4
  Word = 8
  Keys = {k1, k2, k3}
  Vals = {v1, v2}
  Hash <- MCHash
  MapCapacity = 4
  Growths = {0, 2}
  Slice = 2
  NoKey = noKey
  NoVal = noVal
  PageCapacity = 2
  MaxParrayPages = 3
  MayAppendEarly = FALSE
  ItemsPerPage = 2
  MaxIndex = 5
  Null = none
  BlockSize = 4
  MaxBlocks = 2
  NodesPerPage = 3
  MaxPages = 2
  ClusterBits = 4
  MaskBits = 2
  MaxClusters = 2
  Grain = 2
  MaxCapacity = 6
SPECIFICATION MCSpec
INVARIANTS MapAgrees PagedSequential SparseStable HeldOnce PoolShared BitsAgree AutoKept
PROPERTY RefinesFIFO
CHECK_DEADLOCK FALSE
