CONSTANTS
    Server = {a, b}
    None = None
    Ghosts = 2
    MaxStarts = 3
    MaxCrashes = 1
    MaxRequests = 1
    MaxLate = 1
SPECIFICATION Spec
SYMMETRY Symmetry
INVARIANTS TypeOK 
