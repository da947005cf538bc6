CONSTANTS
  MaxFiles = 3
  Threads = {t1, t2, t3}
  Openers = {t1}
  MaxSize = 3
  MaxCount = 2
  Word = 2
SPECIFICATION MCSpec
INVARIANTS Exclusive NoLeak Continues
PROPERTY OpenReturns
