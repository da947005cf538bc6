CONSTANTS
  p1 = p1
  c1 = c1
  c2 = c2
  s1 = s1
  s2 = s2
  s3 = s3
  NoTask = NoTask
  Tasks = {p1, c1, c2, s1, s2, s3}
  ParentOf <- Family
  Workers = {w1}
  Dispatchers = {d1, d2}
  Capacity = 2
  Word = 4
  MaxInFlight = 2
  ParentsFirst = TRUE
SPECIFICATION Spec
INVARIANTS AtMostOnce ChildrenFirst CountExact
PROPERTIES EveryTaskRuns ShutdownEnds
