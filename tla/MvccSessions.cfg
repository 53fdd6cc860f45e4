\* Two sessions change one row; every isolation level.
CONSTANTS
    Sessions = {d, s}
    DEFAULT_SESSION = d
    Levels <- BothLevels
    ByAddress = FALSE
    InitialRows = 1
    MaxXid = 4
    MaxVersions = 3
SPECIFICATION Spec
INVARIANTS
    NoLostUpdate
    OnlyDeadLeave
PROPERTIES
    SnapshotIsExact
    StableSnapshots
