SPECIFICATION FairSpec
CONSTANTS
    b1 = b1
    r1 = r1
    r2 = r2
    none = none
    Browsers = {b1}
    Clients = {"app", "page"}
    Repos = {r1, r2}
    NoRepo = none
    Turns = 2
    MaxQuestions = 4
    MaxSessions = 2
    MaxRestarts = 1
INVARIANTS
    TypeOK
    OnlyTornSessionsMislead
    FollowUpSeesTheChat
    NoAnswerTwice
PROPERTIES
    EveryQuestionEnds
CHECK_DEADLOCK FALSE
