\* One subject; a window of 3, clocks that are 1 apart, and enough time for
\* the keys to expire and to be used again.
CONSTANTS
    Keys = {k1}
    MaxRequests = 2
    Window = 3
    Margin = 1
    Skew = 1
    MaxTime = 8
SPECIFICATION Spec
INVARIANTS AtMostLimit
PROPERTY KeepsContract
CHECK_DEADLOCK FALSE
