SPECIFICATION FairSpec
CONSTANTS
    Requests <- PlainRequests
    Files <- MCFiles
    Size <- MCSize
    READ_BUFFER_SIZE = 8
    HeaderLen = 2
    FormLen = 1
    Pipelining = FALSE
    MaxAsked = 2
    MaxConns = 2
    MaxShorts = 1
INVARIANTS
    TypeOK
    AnswersInOrder
    BufferIsStream
    WholeUnlessShort
PROPERTIES
    AnsweredOrClosed
CHECK_DEADLOCK FALSE
