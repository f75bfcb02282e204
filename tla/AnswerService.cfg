SPECIFICATION Spec
CONSTANTS
    Streams = {s1}
    Plain = {q1}
    Timed = {s1}
    Graphs <- MCGraphs
    Ranked = {"a", "b", "c", "d"}
    MaxLength = 80
    MaxTokens = 16
    MaxChunks = 2
    MaxCrashes = 1
INVARIANTS
    TypeOK
    StreamInOrder
    AnswersAreWhole
    SearchesWhatIsAsked
    FusionRespectsAgreement
    TrimmingIsTight
PROPERTIES
    EveryPageSettles
CHECK_DEADLOCK FALSE
