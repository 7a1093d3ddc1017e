SPECIFICATION SerialSpec
CONSTANTS
    c1 = c1
    c2 = c2
    c3 = c3
    w1 = w1
    w2 = w2
    Main = Main
    None = None
    Fds <- ThreeFds
    Conns <- ThreeConns
    Workers <- TwoWorkers
    MaxFd = 3
    MaxRequests = 1
    AcceptErrors = FALSE
    EmptyFiles = "always"
SYMMETRY ClientsAndWorkers
INVARIANTS
    SlotMatches
    UserCountExact
PROPERTIES
    LostOnlyWhenRefused
CHECK_DEADLOCK FALSE
