CONSTANTS
  PingAfter <- Ping30s
  PongWait <- Pong10s
  MaxSilence <- Max80s
SPECIFICATION PunctualKeepalive
CHECK_DEADLOCK FALSE
INVARIANT ProbedWhenSilent
