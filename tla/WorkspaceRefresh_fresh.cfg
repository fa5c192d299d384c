SPECIFICATION FairSpec
CONSTANTS
  None = None
  MaxVersion = 1
  MaxFaults = 1
  QueueCap = 1
  WireCap = 1
  QuietEvents = TRUE
  Tickers = {"run"}
  MayHang = FALSE
  MayStop = FALSE
INVARIANTS TypeOK WakeupNotLost
PROPERTIES NoStaleView EventuallyFresh
CHECK_DEADLOCK FALSE
