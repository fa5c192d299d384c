SPECIFICATION FairSpec
CONSTANTS
  a = a
  b = b
  r = r
  LocalTokens = {a}
  RemoteTokens = {r}
  MaxDeletes = 1
  MaxCrashes = 0
  MaxDisconnects = 1
  MaxSendFailures = 0
  MaxWriteErrors = 0
  SendCap = 4
  RacyEdits = FALSE
  MayUndo = FALSE
  FoldBeatsRedial = TRUE
INVARIANTS
  BaseMatchesState
PROPERTIES
  EventuallyConverged
CHECK_DEADLOCK FALSE
