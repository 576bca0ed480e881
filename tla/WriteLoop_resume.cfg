SPECIFICATION FairSpec
CONSTANTS
  Senders = {s1}
  PerSender <- BusyOnly
  s1 = s1
  s2 = s2
  Lessor = lessor
  NumLeases = 0
  Ticker = ticker
  MaxTicks = 1
  HasKeepalive = TRUE
  Transports = {t1, t2}
  NoTp = NoTp
  Attached = NoTp
  Resumable = TRUE
  QueueCap = 1
INVARIANTS EachOnce FlushedWhenWaiting
PROPERTIES CloseReturnsUnlessMissed
CHECK_DEADLOCK FALSE
