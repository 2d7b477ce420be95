SPECIFICATION FairSpec
CONSTANTS
    a = a
    b = b
    c = c
    Server = {a, b, c}
    Initial = {a, b, c}
    Key = {k, l}
    None = None
    GiveUp = 3
    Layouts <- Spread
    Budgets <- OneChange
INVARIANT TypeOK
PROPERTIES  ReadEnds
CHECK_DEADLOCK FALSE
