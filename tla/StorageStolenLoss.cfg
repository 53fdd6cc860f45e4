\* Two frames for three pages, and a crash. With no crash at all (CrashPlan <-
\* NoCrash) WriteAhead is violated.
CONSTANTS
    Pages = {p, q, r}
    Capacity = 2
    UndoCap = 1
    MaxSessions = 1
    MaxXid = 2
    MaxWrites = 3
    MaxLsn = 3
    CrashPlan <- CrashOnce
SYMMETRY PageSymmetry
SPECIFICATION Spec
INVARIANTS
    CommittedRowsStay
