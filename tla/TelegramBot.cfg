SPECIFICATION FairSpec
CONSTANTS
    Limit = 2
    NoReply = NoReply
    MaxUpdates = 3
    MaxRestarts = 1
INVARIANTS
    TypeOK
    HandledOncePerLife
    DeletedWasHandled
    DroppedIsNotHandled
PROPERTY
    CommandIsHandled
