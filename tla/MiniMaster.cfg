SPECIFICATION FairSpec
CONSTANTS
    Fd = {1, 2, 3}
    None = None
    Node = {n1, n2, n3}
    timeOutMs = 1
    KeepAlive = 2
    MaxLate = 0
    MaxTasks = 1
INVARIANTS TypeOK RefMatches HeapOrdered
PROPERTIES IdleOnly IdleCloses
CHECK_DEADLOCK FALSE
