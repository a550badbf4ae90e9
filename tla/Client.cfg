CONSTANTS
  h1 = h1  h2 = h2  u1 = u1  p1 = p1  t1 = t1
  NONE = NONE
  Conn = {h1, h2}
  User = {u1}
  Pass = {p1}
  Topic = {t1}
  SubId = {1, 2, 3, 4}
  Breakable = {h1}
  Input <- FourLines
  MaxEvents = 1
  MaxMessages = 1
SPECIFICATION FairSpec
CHECK_DEADLOCK FALSE
INVARIANTS
  TypeOK EventsOfThisSession ExitMatchesJoin LoggedInIsAnswered ClientInv
PROPERTIES
  FramesRead CommandReturns
