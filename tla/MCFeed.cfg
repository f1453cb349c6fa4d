CONSTANTS
    Videos <- MCVideos
    Time <- MCTime
    Scans = {s1}
    Limit = 2
    Hot = 2
    Workers = {w1}
    None = None
    MaxFaults = 1
SPECIFICATION FairSpec
INVARIANTS NewestListed PageComplete ShownOnce
PROPERTY Answered
CHECK_DEADLOCK FALSE
