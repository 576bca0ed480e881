SPECIFICATION ClientFairSpec
CONSTANT MaxTransports = 3
INVARIANTS ClientTypeOK OneConnection
PROPERTY GoesOnOrEnds
CHECK_DEADLOCK FALSE
