\* One session, two frames for three pages, room for one undo image.
CONSTANTS
    Pages = {p, q, r}
    Capacity = 2
    UndoCap = 1
    MaxSessions = 1
    MaxXid = 2
    MaxWrites = 3
    MaxLsn = 5
    CrashPlan <- NoCrash
SYMMETRY PageSymmetry
SPECIFICATION Spec
INVARIANTS
    WriteAheadButOne
PROPERTIES
    AtomicAndDurable
