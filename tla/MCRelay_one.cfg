SPECIFICATION FairSpec
CONSTANTS
    nas = nas
    padded = padded
    Blank = Blank
    All = All
    NoToken = NoToken
    AdminToken = AdminToken
    DeviceToken = DeviceToken
    NoReport = NoReport
    NoReply = NoReply
    c1 = c1
    c2 = c2
    RawTargets <- MCTargets
    Trim <- MCTrim
    Tokens <- MCTokens
    ClientToken <- MCClientToken
    Clients = {c1}
    MaxCommands = 2
    MaxServerRestarts = 1
    MaxClientRestarts = 1
INVARIANTS
    CursorBehindServer
PROPERTIES
    ImplementsChannel
    AcceptedIsReached
    NewCommandIsReached
