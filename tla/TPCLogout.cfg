CONSTANTS
  c1 = c1  c2 = c2  c3 = c3
  u1 = u1  u2 = u2  p1 = p1  p2 = p2
  t1 = t1  t2 = t2  s1 = s1  s2 = s2  s3 = s3
  NONE = NONE
  Conn = {c1, c2}
  User = {u1}
  Pass = {p1}
  Topic = {t1}
  SubId = {s1}
  Breakable = {}
  ClientFrames <- SessionFrames
  MaxFrames <- TwoEach
SPECIFICATION Spec
CHECK_DEADLOCK FALSE
INVARIANTS
  LogoutFreesUser
