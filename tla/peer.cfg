SPECIFICATION Spec
CONSTANTS
  None = None
  a = a
  Client = {a, b, c}
  Honest = {c}
  Nonce = {n1, n2}
  Check = {c1, c2}
  Entry = {1, 2}
  FirstRows <- Starts
  Quorum = 1
  old = old
  new = new
  box = box
  Key = {old, new}
  Cert <- Certs
  Call = {n1, n2}
  MaxRows = 2
  k1 = k1
  k2 = k2
  Node <- Nodes
  Friend = {k2}
  Stream = {c1, c2, s3}
  MaxPerIp = 2
  MaxPerKey = 2
  MaxStreams = 3
  CapBase = 1
  CapMax = 2
  Media = {a}
  Tab = {n1, n2}
  Channel = {c1, c2}
  LateEnds = FALSE
  MaxEpoch = 1
  MaxInbox = 1
  MaxPosts = 1
  MaxAnswers = 1
  MaxEdits = 0
  MaxFaults = 1
  hqp = hqp
  dap = dap
  Output = {hqp, dap, web}
  Lendable = hqp
  Rendered = {dap}
  Request = {n1, n2}
  Slots = 2
  MaxAttach = 3
SYMMETRY Symmetry
INVARIANTS
  PeerTypeOK
  PaidOnce
  HonestIsNeverBlamed
  GoldIsSpentOnce
  VotesAreOfOthers
  BansStick
  RebirthKeepsTheBan
  RebirthKeepsTheAge
  AnnounceLivesWithItsStreams
  RegistryIsExact
  OffEndsTheSlots
  OneRenderer
PROPERTIES
  MailboxIsKept
  LentIsLeftAlone
  SwitchGoesOn
CHECK_DEADLOCK FALSE
