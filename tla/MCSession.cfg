SPECIFICATION SessionSpec
CONSTANTS
    Requests = {r1, r2, r3, r4}
    MaxConcurrent = 3
    MaxFaults = 1
    MaxExpiries = 1
SYMMETRY Symmetry
INVARIANTS AcceptedWasSaved LateRefreshRefused SequentialCoherence
CHECK_DEADLOCK FALSE
