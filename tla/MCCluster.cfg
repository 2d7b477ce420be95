SPECIFICATION Spec
CONSTANTS
    a = a
    b = b
    c = c
    Server = {a, b, c}
    Initial = {a, b}
    Key = {k}
    None = None
    GiveUp = 3
    Layouts <- MCLayouts
    Budgets <- MCBudgets
INVARIANTS NotLost 
CHECK_DEADLOCK FALSE
