CONSTANTS
  Readers = {r1, r2}
  Writers = {w1, w2}
  NoThread = NoThread
  MaxFailed = 1
SPECIFICATION Spec
INVARIANTS NoOvertaking CountExact
PROPERTIES WritersProgress ReadersResume
