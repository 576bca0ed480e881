SPECIFICATION FairSpec
CONSTANTS
  MaxItems = 2
  MaxAsks = 2
  MaxN = 2
INVARIANT Delivered
PROPERTIES Answered Forgotten
CHECK_DEADLOCK FALSE
