SPECIFICATION FairSpec
CONSTANTS
  None = None
  MaxVersion = 0
  MaxFaults = 0
  QueueCap = 1
  WireCap = 1
  QuietEvents = FALSE
  Tickers = {"run", "heartbeat"}
  MayHang = TRUE
  MayStop = TRUE
INVARIANTS NoSendOnClosed
PROPERTIES SnapshotPreempts Terminates
CHECK_DEADLOCK FALSE
