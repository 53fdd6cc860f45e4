\* One session, no eviction; any crash and, if a restart repairs it, any such
\* crash again, or one at the end of the recovery from it.
\* Checkpoints up to LSN 5 include one completed over dirty pages. It passes too
\* with UndoCap = 1 and CrashPlan <- RepairedTwice.
CONSTANTS
    Pages = {p, q}
    Capacity = 2
    UndoCap = 2
    MaxSessions = 1
    MaxXid = 2
    MaxWrites = 3
    MaxLsn = 5
    CrashPlan <- AnyCrashes
SYMMETRY PageSymmetry
SPECIFICATION Spec
INVARIANTS
    ExactlyCommittedSurvives
PROPERTIES
    AtomicAndDurable
