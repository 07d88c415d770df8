CONSTANTS
  PingAfter <- Ping30s
  PongWait <- Pong10s
  MaxSilence <- Max80s
SPECIFICATION FairKeepalive
CHECK_DEADLOCK FALSE
INVARIANT TimeoutNeedsSilence
PROPERTY UnansweredPingEnds
