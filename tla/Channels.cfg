CONSTANTS
  p1 = p1
  p2 = p2
  k1 = k1
  Broadcaster = Broadcaster
  Peers <- Peers2
  Callers <- Callers1
  ChanCap = 1
  FeatureCap = 1
SPECIFICATION MCSpec
CHECK_DEADLOCK FALSE
INVARIANT TypeOK
PROPERTIES LockWaitsEnd SendsReturn ShutdownCompletes
