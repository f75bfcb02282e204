SPECIFICATION Spec
CONSTANTS
    a = a
    b = b
    x = x
    y = y
    w1 = w1
    w2 = w2
    PyFiles = {a, b}
    TsFiles = {}
    Workers = {w1}
    Deletable = {a, b}
    Reclones = TRUE
    Faults = TRUE
    Quiet = FALSE
    MaxCommits = 3
    MaxWrites = 3
INVARIANTS
    TypeOK
    ValidCacheIsCurrent
CHECK_DEADLOCK FALSE
