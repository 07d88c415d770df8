CONSTANTS
  c1 = c1
  c2 = c2
  c3 = c3
  d1 = d1
  d2 = d2
  NoConn = NoConn
  NoDevice = NoDevice
  Conns <- Conns2
  Devices <- Devices1
SPECIFICATION Spec
CHECK_DEADLOCK FALSE
INVARIANT ConnectedIsRegistered
