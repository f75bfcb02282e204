SPECIFICATION Spec
CONSTANTS
    Streams = {s1}
    Plain = {q1}
    Timed = {s1}
    Graphs <- MCGraphs
    Ranked = {"a", "b"}
    MaxLength = 20
    MaxTokens = 4
    MaxChunks = 1
    MaxCrashes = 1
INVARIANTS
    CachedIndexAnswers
CHECK_DEADLOCK FALSE
