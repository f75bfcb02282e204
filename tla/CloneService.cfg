SPECIFICATION FairSpec
CONSTANTS
    u1 = u1
    u2 = u2
    name = name
    w1 = w1
    w2 = w2
    none = none
    Urls = {u1, u2}
    Names = {name}
    NameOf <- SameName
    Workers = {w1, w2}
    MainThread = {w1}
    NoUrl = none
    Faults = {"network", "disk", "crash"}
    MaxPushes = 1
    MaxRequests = 3
INVARIANTS
    TypeOK
    ReturnsWhatWasAsked
    ReturnsCompleteTree
PROPERTIES
    EveryRequestAnswered
    UpdatesAtOnce
CHECK_DEADLOCK FALSE
