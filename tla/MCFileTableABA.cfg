CONSTANTS
  MaxFiles = 3
  Threads = {t1, t2}
  Openers = {t1, t2}
  MaxSize = 1
  MaxCount = 1
  Word = 2
SPECIFICATION MCSpec
INVARIANT Exclusive
