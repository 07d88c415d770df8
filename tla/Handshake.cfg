CONSTANTS
  c1 = c1
  c2 = c2
  d1 = d1
  f1 = f1
  EmptyFp = EmptyFp
  NoConn = NoConn
  NoFp = NoFp
  NoDevice = NoDevice
  Conns <- Conns2
  Devices <- Devices1
  Fingerprints <- Fps2
SPECIFICATION FairSpec
INVARIANTS ClickReachesWaiter OnlyTimeoutLeavesEntry
INVARIANTS TrustNeedsConsent ReportedIsDurable
PROPERTIES HandshakeEnds
