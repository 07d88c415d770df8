\* When all calls are made the system may stop.
CHECK_DEADLOCK FALSE
SPECIFICATION Spec
CONSTANTS
  Contents <- SomeFiles
  ChunkSize = 2
  MaxLen = 3
  MaxEdits = 1
  MaxSends = 2
INVARIANTS ArrivedIsAccepted UneditedIsExact
PROPERTIES DeliversWhole
