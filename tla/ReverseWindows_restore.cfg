SPECIFICATION FairSpec
CONSTANTS
    Origins = {o1}
    NoOne = NoOne
    MaxWrites = 2
    MaxDeletes = 2
    MaxOthers = 2
    MaxFaults = 2
INVARIANTS
    TypeOK
    WindowAgrees
    ReplayRecognised
    RestoreProven
PROPERTIES
    UndoneOnce
    NoStrayTombstone
    EventuallyResolved
