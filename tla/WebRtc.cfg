CONSTANTS
  x1 = x1
  x2 = x2
  x3 = x3
  x4 = x4
  s1 = s1
  s2 = s2
  NoCall = NoCall
  Calls <- Calls4
  Ids <- Ids2
  IdOf <- ThreeOfOne
SPECIFICATION FairSpec
CHECK_DEADLOCK FALSE
INVARIANTS WorksOnOpen OpenIsReachable
PROPERTY LockIsGranted
