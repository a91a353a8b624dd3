SPECIFICATION FairSpec
CONSTANTS
    u1 = u1
    Uploads <- OneUpload
    Demo = Demo
    MaxQuestions = 2
    MaxSessions = 2
    Words = 2
CHECK_DEADLOCK FALSE
INVARIANTS
    TypeOK
    MessagesAreWhole
    LiveTextIsOwn
    FiledWhereAsked
    IndexedUnlessChosen
PROPERTIES
    NoQuestionDropped
    WaitsAreForTheServer
