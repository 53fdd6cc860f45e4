\* Two executions, a registry with room for one, and a plain query; every
\* client goes away in the end. The plan of e meets two operators, and clients
\* may ask it to run to one of them. With MaxExecutions = 2 the invariants hold
\* too; the rest does with Operators = {o}, Modes = {"step"} and no operator_next.
CONSTANTS
    Executions = {e, f}
    Queries = {q}
    Clients = {c}
    Operators = {o, n}
    Targets = {o}
    Kinds = {"operator_open", "operator_next", "page_read"}
    Modes = {"step", "until_operator"}
    MaxExecutions = 1
    MaxSteps = 2
    Brief = {f, q}
SPECIFICATION FairSpec
INVARIANTS
    PauseIsAsked
    EvictedIsCancelled
PROPERTIES
    CancelFreesLock
    AbandonedDrains
CHECK_DEADLOCK FALSE
