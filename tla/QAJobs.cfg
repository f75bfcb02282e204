SPECIFICATION FairSpec
CONSTANTS
    j1 = j1
    j2 = j2
    p1 = p1
    p2 = p2
    none = none
    Jobs = {j1, j2}
    Processes = {p1, p2}
    NoProcess = none
    Faults = {"crash", "busy"}
    MaxRestarts = 2
INVARIANTS
    TypeOK
PROPERTIES
    ImplementsLifecycle
    PollsMoveForward
    EveryPollEnds
CHECK_DEADLOCK FALSE
