SPECIFICATION FairSpec
CONSTANTS
    NumClients = 3
    USER_LIMIT = 2
    MaxMessages = 3
INVARIANTS
    TypeOK
PROPERTIES
    HeardIsOwn
    LeaverIsRemoved
CHECK_DEADLOCK FALSE
