CONSTANTS
  c1 = c1
  c2 = c2
  c3 = c3
  d1 = d1
  d2 = d2
  NoConn = NoConn
  NoDevice = NoDevice
  Conns <- Conns3
  Devices <- Devices2
SPECIFICATION Spec
CHECK_DEADLOCK FALSE
INVARIANTS AloneIsExact GoneIsForgotten
PROPERTY ImplementsPresence
