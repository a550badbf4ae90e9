CONSTANTS
  a1 = a1  a2 = a2  sub1 = sub1  sub2 = sub2  w1 = w1  w2 = w2
  k1 = k1  k2 = k2  k3 = k3  k4 = k4
  NONE = NONE
  Actor = {a1, a2}
  Submitter = {sub1, sub2}
  Worker = {w1, w2}
  Task = {k1, k2, k3, k4}
SPECIFICATION FairSpec
CHECK_DEADLOCK FALSE
INVARIANTS
  OneTaskPerActor NothingStranded PoolInv
PROPERTIES
  SerialSpec SubmittedRuns
