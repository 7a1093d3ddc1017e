SPECIFICATION FairSpec
CONSTANTS
    p1 = p1
    p2 = p2
    w1 = w1
    w2 = w2
    r1 = r1
    r2 = r2
    r3 = r3
    None = None
    Producers <- MCProducers
    Workers <- MCWorkers
    Requests <- MCRequests
    NullRequests <- MCNullRequests
    MaxRequests = 1
    MaxInterrupts = 1
INVARIANTS
    TypeOK
    LockDiscipline
    NoLostWakeup
    TokenMeansRequest
    OnePlace
PROPERTIES
    ImplementsQueue
    AcceptedIsHandled
CHECK_DEADLOCK FALSE
