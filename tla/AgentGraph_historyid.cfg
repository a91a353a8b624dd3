SPECIFICATION Spec
CONSTANTS
    draft = draft
    rewrite = rewrite
    NoCode = NoCode
    NoId = NoId
    Codes <- MCCodes
    Accepted <- MCAccepted
    HistoryIds = {h1, h2}
    MaxCorrections = 1
    RecursionLimit = 25
CHECK_DEADLOCK FALSE
INVARIANTS
    HistoryIdNamesTheRow
