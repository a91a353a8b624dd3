SPECIFICATION FairSpec
CONSTANTS
    w1 = w1
    q1 = q1
    Loop = Loop
    NoQuestion = NoQuestion
    Workers <- OneWorker
    Connectors <- ContinuedConnectors
    Questions <- ContinuedQuestions
    Versions = {0, 1}
    Ids = {1, 2, 3, 4}
    MaxCache = 1
    MaxDepth = 1
INVARIANTS
    CopiesBounded
    AnswersAreOfConnector
PROPERTIES
    AloneReplacesAll
    OnlyEmptySourcesEmpty
    EveryCallEnds
