CONSTANTS
    m_minNum = 1
    m_maxNum = 3
    MaxQueue = 3
    MaxGarbage = 1
SPECIFICATION BusySpec
INVARIANTS TypeOK TaskIsThere AliveWithinBounds BusyCounted
PROPERTY PoolServes
CHECK_DEADLOCK FALSE
