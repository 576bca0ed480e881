SPECIFICATION FairSpec
CONSTANTS
  r1 = r1
  r2 = r2
  v1 = v1
  v2 = v2
  v3 = v3
  Readers = {r1, r2}
  Finisher = fin
  Procs = {r1, r2, fin}
  Values = {v1, v2, v3}
  Dummy = dummy
  Nil = Nil
  Payloads <- TwoReaders
INVARIANT Releases
PROPERTIES IsFifo DrainReturns
CHECK_DEADLOCK FALSE
