SPECIFICATION FairSpec
CONSTANTS
  i1 = i1
  i2 = i2
  i3 = i3
  Item = {i1, i2, i3}
  Output = {o1, o2}
  None = None
  Route = {r1, r2}
  Free = Free
  Kinds = {"playlist", "add", "stream"}
  TrackOf <- Tracks
  Batch = 2
  Tries = 2
  MaxGen = 1
PROPERTIES
  RunGoesForward
  KeepsThePromise
  FillersEnd
