CONSTANTS
    Client = {k1}
    Fd = {f1}
    Worker = {w1, w2}
    None = None
    MaxMessages = 3
    MaxCommands = 2
SPECIFICATION FairSpec
CHECK_DEADLOCK FALSE
INVARIANTS TypeOK 
PROPERTIES  TransferHappens
