SPECIFICATION FairSpec
CONSTANTS
  Procs = {p1, p2}
  Paths = {1, 2}
  Slots = {3}
  Marks = {m1}
  m1 = m1
  NoFile = NoFile
  Unknown = Unknown
  NoOp = NoOp
  NoLease = NoLease
  Nobody = Nobody
  Requests <- ConflictingRequests
  SlowOps = FALSE
  MaxFaults = 1
INVARIANTS TypeOK MutualExclusion
PROPERTIES IsAtomic SomebodyWorks
