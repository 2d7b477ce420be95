CONSTANTS
    Server = {a, b}
    Main = Main
    Standby = Standby
    None = None
    MaxUnread = 2
    MaxStarts = 3
    MaxCrashes = 1
    MaxFailures = 1
    MaxRestarts = 1
    MaxLate = 1
SPECIFICATION FairSpec
INVARIANTS TypeOK NoSplit RedirectCovers
PROPERTIES TakesOver FollowersRegister
CHECK_DEADLOCK FALSE
