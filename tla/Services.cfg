SPECIFICATION FairSpec
CONSTANTS
    r1 = r1
    r2 = r2
    a = a
    b = b
    Runs <- TwoRuns
    Texts <- TwoTexts
    Batches <- Tables
    MaxVectors = 1
    TimeToLive = 3
    ExecTime = 1
    MaxConnections = 1
    Timeout = 13
    PoolThreads = 1
    Pauses <- Doubling
    Patience = 12
    Slow = 1
    Longest = 2
INVARIANTS
    VectorsAreOfTheirTexts
    AnswersAreRecent
    ModelWorksOnce
    BackoffFitsTheWait
PROPERTIES
    EveryQuestionEnds
