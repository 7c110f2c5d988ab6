SPECIFICATION Spec
CONSTANTS
  Track = {a, b, c}
  Fill = {f1, f2, f3}
  Speaker = {s1}
  Batch = 2
  Clears = {TRUE}
  RefillAt = 1
  MaxStarts = 2
  MaxGen = 3
  MaxQueue = 3
SYMMETRY Symmetry
INVARIANTS
  NeverRepeats
CHECK_DEADLOCK FALSE
