SPECIFICATION Spec
CONSTANTS
    t1 = t1
    t2 = t2
    t3 = t3
    t4 = t4
    Null = Null
    Object <- FourTimers
    WTimer <- ThreeTimers
    MaxDelay = 2
    Overdue = 1
    Cap = 1
    N = 6
    SI = 2
    MaxTimeout = 15
INVARIANTS
    ListLinked
    HeapOrdered
PROPERTIES
    ListImplements
    HeapImplements
    WheelOnTime
CHECK_DEADLOCK FALSE
