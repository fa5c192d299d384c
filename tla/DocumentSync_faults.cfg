SPECIFICATION Spec
CONSTANTS
  a = a
  b = b
  r = r
  LocalTokens = {a}
  RemoteTokens = {r}
  MaxDeletes = 0
  MaxCrashes = 1
  MaxDisconnects = 0
  MaxSendFailures = 1
  MaxWriteErrors = 1
  SendCap = 2
  RacyEdits = FALSE
  MayUndo = TRUE
  FoldBeatsRedial = FALSE
INVARIANTS
  TypeOK
  SentIsPersisted
  NoLostEdit
  BaseBehindCache
  RetriesInsertOnce
PROPERTIES
  BaseAdvances
CHECK_DEADLOCK FALSE
