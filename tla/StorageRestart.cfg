\* Crashes a restart does not repair, and one more. Also violated:
\*   CommittedRowsStay with CrashPlan <- TruncatedThenCrash, and with
\*   CrashInResetThenCrash; RowsHaveKnownXids with CrashTwice.
CONSTANTS
    Pages = {p, q}
    Capacity = 2
    UndoCap = 1
    MaxSessions = 1
    MaxXid = 2
    MaxWrites = 2
    MaxLsn = 5
    CrashPlan <- TornHeadThenCrash
SYMMETRY PageSymmetry
SPECIFICATION Spec
INVARIANTS
    CommittedRowsStay
