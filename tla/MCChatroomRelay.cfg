SPECIFICATION Spec
CONSTANTS
    c1 = c1
    c2 = c2
    c3 = c3
    None = None
    Clients <- TwoClients
    USER_LIMIT = 2
    BUFFER_SIZE = 3
    MaxMessages = 2
    MaxTerms = 0
    CallsMayFail = FALSE
SYMMETRY Symmetry
INVARIANTS
    RelayInOrder
CHECK_DEADLOCK FALSE
