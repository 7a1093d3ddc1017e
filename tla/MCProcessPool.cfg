SPECIFICATION FairSpec
CONSTANTS
    NumClients = 2
    m_process_number = 2
    MaxDeaths = 1
INVARIANTS
    TypeOK
    StopMeansReaped
PROPERTIES
    TermEnds
    RequestAnswered
CHECK_DEADLOCK FALSE
