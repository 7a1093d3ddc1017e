SPECIFICATION FairSpec
CONSTANTS
    c1 = c1
    c2 = c2
    None = None
    Clients <- TwoClients
    TIMESLOT = 1
    MaxLate = 1
INVARIANTS
    TypeOK
    TimersMatch
PROPERTIES
    NotTooEarly
    IdleIsClosed
CHECK_DEADLOCK FALSE
