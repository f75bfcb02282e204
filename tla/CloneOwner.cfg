SPECIFICATION Spec
CONSTANTS
    u1 = u1
    u2 = u2
    name = name
    w1 = w1
    w2 = w2
    none = none
    Urls = {u1, u2}
    Names = {name}
    NameOf <- SameName
    Workers = {w1, w2}
    MainThread = {}
    NoUrl = none
    Faults = {}
    MaxPushes = 0
    MaxRequests = 2
INVARIANTS
    ParsesWhatWasAsked
CHECK_DEADLOCK FALSE
