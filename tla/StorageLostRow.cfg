\* Two sessions write the same page. AbortedRowsGone is violated too.
CONSTANTS
    Pages = {p, q}
    Capacity = 2
    UndoCap = 1
    MaxSessions = 2
    MaxXid = 2
    MaxWrites = 2
    MaxLsn = 3
    CrashPlan <- NoCrash
SYMMETRY PageSymmetry
SPECIFICATION Spec
INVARIANTS
    CommittedRowsStay
