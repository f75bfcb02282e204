SPECIFICATION Spec
CONSTANTS
    Names <- MCNames
    Builtins = {"len"}
    Repositories <- MCRepositories
    Excluded = {"BaseModel"}
    Stdlib = {"json"}
    Internal = {"app"}
    Lower <- MCLower
    Camel <- MCCamel
    Snake <- MCSnake
    Stem <- MCStem
    InText <- MCInText
    Private = {"_load"}
    Dunder = {"__init__"}
    Questions <- MCQuestions
    MaxTopK = 4
    IdBefore <- MCIdBefore
    PathPriority <- PathPriorities
INVARIANTS
    TypeOK
    GraphAndViewsAreClosed
    HierarchyIsTheSource
    OwnedSymbolsOnly
    ContextTellsTheSource
    ImplementationBeatsData
    NamedIsFound
    OverviewKeepsMatches
CHECK_DEADLOCK FALSE
