SPECIFICATION UnattendedSpec
CONSTANTS
  None = None
  n1 = n1
  Msg = {1, 2}
  Node = {n1, n2}
  Accepting = {n1, n2}
  Forward = {1, 2, 3}
  Seal = {1, 2, 3, 4}
  QueueMax = 1
  MaxFaults = 2
  Media = {a, b}
  Tab = {t1}
  Channel = {c1}
  LateEnds = FALSE
  MaxEpoch = 1
  MaxInbox = 1
  MaxPosts = 2
  MaxAnswers = 1
  MaxEdits = 1
  MaxBlips = 1
  Track = {a, b, c}
  Fill = {f1, f2}
  Speaker = {s1}
  Batch = 2
  Clears = {TRUE, FALSE}
  RefillAt = 1
  MaxStarts = 1
  MaxGen = 3
  MaxQueue = 3
INVARIANTS
  UnattendedTypeOK
  DeliveredIsStored
  NothingOverlooked
  OneFillAtATime
  NeverRepeats
PROPERTIES
  EventuallyDelivered
  SlotHeals
  GuardIsReleased
CHECK_DEADLOCK FALSE
