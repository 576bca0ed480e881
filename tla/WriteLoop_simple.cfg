SPECIFICATION FairSpec
CONSTANTS
  Senders = {s1, s2}
  PerSender <- BusyAndSingle
  s1 = s1
  s2 = s2
  Lessor = lessor
  NumLeases = 1
  Ticker = ticker
  MaxTicks = 0
  HasKeepalive = FALSE
  Transports = {t1}
  NoTp = NoTp
  Attached = t1
  Resumable = FALSE
  QueueCap = 2
INVARIANTS TypeOK DestroyExclusive PeerSees
PROPERTIES CloseReturns EveryFrameDone
CHECK_DEADLOCK FALSE
