SPECIFICATION FairSpec
CONSTANTS
    r1 = r1
    r2 = r2
    s1 = s1
    s2 = s2
    Runs <- TwoRuns
    Sessions <- TwoSessions
    MaxWorkers = 2
    RecallLimit = 3
CHECK_DEADLOCK FALSE
INVARIANTS
    RecallsOnlyPresented
PROPERTIES
    EveryWaitEnds
    ImplementsSequentialNodes
