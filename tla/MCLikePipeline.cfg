SPECIFICATION Spec
CONSTANTS
    Users = {u1, u2}
    Requests = {r1, r2, r3}
    LikeWorkers = {w1, w2}
    MaxRetryCount = 1
    Prefetch = 2
    MaxFallbacks = 1
    MaxFailures = 1
    MaxNotifyFailures = 1
    MaxCrashes = 1
SYMMETRY Symmetry
INVARIANTS DriftBounded SoleWriterNeverClamps LastRequestWins
CHECK_DEADLOCK FALSE
