SPECIFICATION Spec
CONSTANTS
    c1 = c1
    c2 = c2
    c3 = c3
    w1 = w1
    w2 = w2
    Main = Main
    None = None
    Fds <- TwoFds
    Conns <- TwoConns
    Workers <- TwoWorkers
    MaxFd = 2
    MaxRequests = 1
    AcceptErrors = FALSE
    EmptyFiles = "always"
PROPERTIES
    CloseConnCloses
CHECK_DEADLOCK FALSE
