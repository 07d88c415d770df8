\* When both sessions are over nothing has to happen.
CHECK_DEADLOCK FALSE
SPECIFICATION MCSpec
CONSTANTS
  c1 = c1
  c2 = c2
  d1 = d1
  d2 = d2
  f1 = f1
  f2 = f2
  Devices <- TwoDevices
  Conns <- TwoConns
  Fps <- TwoFps
  NoConn = NoConn
  NoFp = NoFp
  NoDevice = NoDevice
INVARIANTS ConnectedIsLive EntryIsWaitedFor
PROPERTIES SessionSettles SilentIsDropped
