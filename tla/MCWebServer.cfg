SPECIFICATION FairSpec
CONSTANTS
    c1 = c1
    c2 = c2
    c3 = c3
    w1 = w1
    w2 = w2
    Main = Main
    None = None
    Fds <- ThreeFds
    Conns <- ThreeConns
    Workers <- OneWorker
    MaxFd = 2
    MaxRequests = 1
    AcceptErrors = TRUE
    EmptyFiles = "late"
INVARIANTS
    TypeOK
    OneOwner
    ResponseMatchesEvent
PROPERTIES
    WorkerKeepsConnection
    HangUpReleased
CHECK_DEADLOCK FALSE
