SPECIFICATION BalancerFairSpec
CONSTANTS
  Puts <- ThreePuts
  c1 = c1
  c2 = c2
  c3 = c3
  Callers = {w1}
  SeqValues = 4
  Nobody = Nobody
INVARIANT Balanced
PROPERTIES ClosesAll GoesOn
CHECK_DEADLOCK FALSE
