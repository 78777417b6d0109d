SPECIFICATION FairSpec
CONSTANTS
    nas = nas
    Blank = Blank
    All = All
    NoToken = NoToken
    AdminToken = AdminToken
    DeviceToken = DeviceToken
    NoReport = NoReport
    Free = Free
    Nothing = Nothing
    RawTargets <- MCTargets
    Trim <- MCTrim
    Tokens <- MCTokens
    ReportBodies <- MCReports
    MaxRequests = 3
    MaxCommands = 2
    MaxCrashes = 1
INVARIANTS
    TypeOK
    AcksUnique
    PollAnswerIsOneWake
    AckedIsSeen
    IndexIsOneMoment
PROPERTIES
    ImplementsServer
    RequestIsAnswered
