SPECIFICATION FairSpec
CONSTANTS
  a = a
  b = b
  Calls = {a, b}
  HalfSeed = 3
  IsServer = TRUE
  Starts <- MCStarts
  MaxLeases = 2
  Tickets = 1
INVARIANTS Admitted Memory
PROPERTY GivenBack
CHECK_DEADLOCK FALSE
