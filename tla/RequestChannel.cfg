SPECIFICATION FairSpec
CONSTANTS
  MaxItems <- ItemBounds
  Asks <- AskBounds
INVARIANT Delivered
PROPERTY Answered
CHECK_DEADLOCK FALSE
