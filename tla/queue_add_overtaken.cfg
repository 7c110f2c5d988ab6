SPECIFICATION Spec
CONSTANTS
  i1 = i1
  i2 = i2
  i3 = i3
  Item = {i1, i2, i3}
  Output = {o1}
  None = None
  Route = {r1, r2}
  Free = Free
  Kinds = {"play", "add"}
  TrackOf <- Tracks
  Batch = 2
  Tries = 1
  MaxGen = 2
SYMMETRY RouteSymmetry
INVARIANTS
  SlotsMeantForThisQueue
