SPECIFICATION Spec
CONSTANTS
    w1 = w1
    q1 = q1
    Loop = Loop
    NoQuestion = NoQuestion
    Workers <- OneWorker
    Connectors <- OneConnector
    Questions <- OneQuestion
    Versions = {0, 1}
    Ids = {1, 2, 3}
    MaxCache = 1
    MaxDepth = 1
PROPERTIES
    FreshAfterIngest
