SPECIFICATION Spec
CONSTANTS
  a = a
  b = b
  alb = alb
  evening = evening
  None = None
  Play <- NamedPlay
  AlbumTracks <- Listed
  Route = {r1}
  Status = Status
  Free = Free
  Mix = Mix
  AiName = AiName
  Faults = {}
  MaxSessions = 3
INVARIANTS
  MixKeepsItsName
