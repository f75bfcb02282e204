SPECIFICATION Spec
CONSTANTS
    a = a
    b = b
    x = x
    y = y
    w1 = w1
    w2 = w2
    PyFiles = {a}
    TsFiles = {x, y}
    Workers = {w1, w2}
    Deletable = {}
    Reclones = TRUE
    Faults = FALSE
    Quiet = TRUE
    MaxCommits = 2
    MaxWrites = 4
SYMMETRY Symmetries
INVARIANTS
    StaleOnlyWhenUnresolvable
CHECK_DEADLOCK FALSE
