\* Three transactions, shared and exclusive locks on two rows, lock limit 2.
\* NoSleepingCycle is violated here: a waiter has several blockers, and the search
\* ends at its first cycle.
CONSTANTS
    Txns = {1, 2, 3}
    Resources = {a, b}
    Modes = {"shared", "exclusive"}
    MaxLocks = 2
    MaxRequests = 6
SYMMETRY RowSymmetry
SPECIFICATION Spec
INVARIANTS
    TypeOK
    MutualExclusion
    IndexesAgree
    VictimsAreBlocked
    OldestNeverVictim
PROPERTIES
    StrictTwoPhase
