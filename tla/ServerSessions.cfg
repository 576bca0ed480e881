SPECIFICATION FairSpec
CONSTANTS
  Conns = {c1, c2, c3}
  Tokens = {k1, k2}
  None = None
  Duration = 1
INVARIANTS TypeOK InStep AttachedIsCurrent
PROPERTY PausedEnds
CHECK_DEADLOCK FALSE
