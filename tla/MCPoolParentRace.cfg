CONSTANTS
  p1 = p1
  c1 = c1
  c2 = c2
  s1 = s1
  s2 = s2
  s3 = s3
  NoTask = NoTask
  Tasks = {p1, c1}
  ParentOf <- Couple
  Workers = {w1}
  Dispatchers = {d1}
  Capacity = 2
  Word = 4
  MaxInFlight = 2
  ParentsFirst = FALSE
SPECIFICATION Spec
INVARIANT AtMostOnce
