SPECIFICATION FairSpec
CONSTANTS
  a = a
  b = b
  r = r
  LocalTokens = {a, b}
  RemoteTokens = {}
  MaxDeletes = 0
  MaxCrashes = 0
  MaxDisconnects = 0
  MaxSendFailures = 1
  MaxWriteErrors = 0
  SendCap = 4
  RacyEdits = FALSE
  MayUndo = FALSE
  FoldBeatsRedial = TRUE
PROPERTIES
  EventuallyConverged
CHECK_DEADLOCK FALSE
