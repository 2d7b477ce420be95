CONSTANTS
    Server = {a, b}
    None = None
    Ghosts = 1
    MaxStarts = 3
    MaxCrashes = 1
    MaxRequests = 0
    MaxLate = 0
SPECIFICATION FairSpec
PROPERTIES DeadIsDropped HeardIsRegistered
