SPECIFICATION FairSpec
CONSTANTS
    draft = draft
    rewrite = rewrite
    NoCode = NoCode
    NoId = NoId
    Codes <- MCCodes
    Accepted <- MCAccepted
    HistoryIds = {h1, h2}
    MaxCorrections = 3
    RecursionLimit = 19
CHECK_DEADLOCK FALSE
INVARIANTS
    OnlyAcceptedRuns
    AnswerIsOfShownCode
    NeverOutOfSteps
    OnlyAnswersAreRecorded
    GivesUpOnlyForAReason
PROPERTIES
    ImplementsCorrectionLoop
    
