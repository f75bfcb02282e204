SPECIFICATION FairSpec
CONSTANTS
    Ids = {1, 2, 3, 4}
    External = {3}
    EdgeTypes <- CallsAndContains
    EdgeSets <- AtMostThreeEdges
    TopK = 2
    Questions <- SomeQuestions
INVARIANTS
    TypeOK
    UniformIsExact
    AdmittedInBudget
PROPERTIES
    ExpansionEnds
CHECK_DEADLOCK FALSE
