SPECIFICATION Spec
CONSTANTS
  Mtus = {14, 16}
  MetadataSizes = {0, 1, 6}
  DataSizes = {0, 2, 5, 7}
  MaxPayloads = 2
  MaxDemands = 1
INVARIANTS Splits Joined
PROPERTY CutIsLost
CHECK_DEADLOCK FALSE
