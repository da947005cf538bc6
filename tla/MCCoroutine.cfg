CONSTANTS
  Coroutines = {c1, c2, c3, c4}
  NoCoroutine = NoCoroutine
  MaxCoroutines = 3
SPECIFICATION Spec
INVARIANT StatusKept
PROPERTIES RefinesRounds NoStarvation LoopEnds
