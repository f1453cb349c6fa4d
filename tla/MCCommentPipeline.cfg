CONSTANTS
    Comments = {c1, c2}
    MaxDeletes = 2
    MaxFaults = 2
SPECIFICATION FairSpec
INVARIANTS CountedOnce OneRow CountersAgree
PROPERTY DeletionsHappen
CHECK_DEADLOCK FALSE
