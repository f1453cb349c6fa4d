CONSTANTS
    Accounts = {x, y}
    Videos <- MCVideos
    Author <- MCAuthor
    Time <- MCTime
    Ticks = 2
    SocialWorkers = {"w1", "w2"}
    Prefetch = 2
    Reads = {r1, r2}
    Limit = 1
    None = None
    MaxRequests = 3
    MaxFaults = 1
SPECIFICATION MCSpec
INVARIANTS OnlyFollowed ScanExact LastRequestWins
CHECK_DEADLOCK FALSE
SYMMETRY Symmetry
