CONSTANTS
  c1 = c1  c2 = c2
  NONE = NONE
  Conn = {c1, c2}
  Breakable = {}
  ClientFrames <- TwoClients
  MaxFrames <- TwoAndOne
SPECIFICATION Spec
CHECK_DEADLOCK FALSE
INVARIANTS
  TypeOK StartedFirst WholeInOrder QueuedIsPending TasksAreSeen ReactorInv
