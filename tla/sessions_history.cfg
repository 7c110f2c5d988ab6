SPECIFICATION Spec
CONSTANTS
  a = a
  b = b
  alb = alb
  evening = evening
  None = None
  Play <- ManyPlays
  AlbumTracks <- Listed
  Route = {r1}
  Status = Status
  Free = Free
  Mix = Mix
  AiName = AiName
  Faults = {"rollback", "cut", "crash"}
  MaxSessions = 2
INVARIANTS
  TypeOK
  ArchivedOnce
  CardsFitTheirOrigin
  OpenSessionIsTheQueues
