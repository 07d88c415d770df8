\* A daemon that serves does nothing more here: it may stop.
CHECK_DEADLOCK FALSE
SPECIFICATION FairSpec
CONSTANTS MaxCrashes = 3
INVARIANTS PairsUsable SameDaemon
PROPERTIES ServesInTheEnd
