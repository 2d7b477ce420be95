CONSTANTS
    Client = {k1, k2}
    Fd = {f1, f2}
    Worker = {w1, w2}
    None = None
    MaxMessages = 1
    MaxCommands = 0
SPECIFICATION FairSpec
CHECK_DEADLOCK FALSE
PROPERTY RequestIsServed
