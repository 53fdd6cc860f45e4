\* Row locks as the engine takes them (exclusive), cycles of two and three.
CONSTANTS
    Txns = {1, 2, 3}
    Resources = {a, b, c}
    Modes = {"exclusive"}
    MaxLocks = 3
    MaxRequests = 6
SPECIFICATION FairSpec
INVARIANTS
    NoSleepingCycle
PROPERTIES
    EveryTransactionEnds
