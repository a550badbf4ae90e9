CONSTANTS
  c1 = c1  c2 = c2
  NONE = NONE
  Conn = {c1}
  Breakable = {}
  ClientFrames <- BadFrames
  MaxFrames <- OneEach
SPECIFICATION Spec
CHECK_DEADLOCK FALSE
INVARIANTS
  SelectorLives
