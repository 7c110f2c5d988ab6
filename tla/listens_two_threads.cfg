SPECIFICATION Spec
CONSTANTS
  None = None
  Track = {whole, short, excerpt}
  Excerpt = {excerpt}
  Short = {short, excerpt}
  Speaker = {s1, s2}
  MaxPlays = 2
  MaxListens = 2
INVARIANTS
  NoListenTwice
CHECK_DEADLOCK FALSE
