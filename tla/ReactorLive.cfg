CONSTANTS
  c1 = c1  c2 = c2
  NONE = NONE
  Conn = {c1}
  Breakable = {c1}
  ClientFrames <- AnyFrames
  MaxFrames <- TwoEach
SPECIFICATION FairSpec
CHECK_DEADLOCK FALSE
PROPERTIES
  QueuesDrain RequestsRead HangUpCloses TerminationCloses
