SPECIFICATION Spec
CONSTANTS
  None = None
  Track = {whole, short, excerpt}
  Excerpt = {excerpt}
  Short = {short, excerpt}
  Speaker = {s1}
  MaxPlays = 2
  MaxListens = 2
INVARIANTS
  TypeOK
  OneRowPerListen
  OneListenPerPlay
  ScrobbledOnce
CHECK_DEADLOCK FALSE
