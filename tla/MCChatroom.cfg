SPECIFICATION FairSpec
CONSTANTS
    c1 = c1
    c2 = c2
    c3 = c3
    None = None
    Clients <- ThreeClients
    USER_LIMIT = 2
    BUFFER_SIZE = 3
    MaxMessages = 0
    MaxTerms = 1
    CallsMayFail = TRUE
INVARIANTS
    TypeOK
    TablesAgree
PROPERTIES
    ZombieIsReaped
CHECK_DEADLOCK FALSE
