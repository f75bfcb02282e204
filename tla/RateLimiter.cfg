SPECIFICATION Spec
CONSTANTS
    c1 = c1
    c2 = c2
    loop = loop
    thread = thread
    Clients = {c1, c2}
    Callers = {loop}
    MaxRequests = 2
    Window = 3
    Second = 2
    MaxTime = 7
SYMMETRY ClientSymmetry
INVARIANTS
    TypeOK
    WindowBound
    RejectedOnlyAtLimit
    RetryAfterSuffices
CHECK_DEADLOCK FALSE
