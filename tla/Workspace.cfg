\* Three requests on two databases, of which one can be open.
CONSTANTS
    d1 = d1
    d2 = d2
    s1 = s1
    s2 = s2
    NReqs = 3
    Calls <- ServerCalls
    Dbs = {d1, d2}
    Standing = {d2}
    Sessions = {s1, s2}
    MaxOpen = 1
SPECIFICATION FairSpec
\* The server stops.
CHECK_DEADLOCK FALSE
INVARIANTS
    TwoHandlesOnlyWhileClosing
    TableHoldsLiveHandles
    NothingLeftOpen
PROPERTIES
    EveryRequestAnswered
