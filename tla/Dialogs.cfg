CONSTANTS
  c1 = c1
  c2 = c2
  d1 = d1
  w1 = w1
  w2 = w2
  NoConn = NoConn
  Conns <- Conns2
  Devices <- Devices1
  Windows <- Windows2
  DevOf <- TwoOfOne
SPECIFICATION FairDialogs
CHECK_DEADLOCK FALSE
INVARIANTS DialogTypeOK DecidedByClick
PROPERTY ClickEndsWait
