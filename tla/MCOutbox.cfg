\* Two workers, two videos; a worker may be crashed, cut off or stalled at any
\* statement.
CONSTANTS
    Workers = {w1, w2}
    Videos = {1, 2}
    MaxOutboxRetry = 1
    BatchSize = 2
    MaxFaults = 2
    MaxSlowClaims = 1
SPECIFICATION FairSpec
INVARIANTS
    RetryBudget
    GivenUpAfterAllFailures
    PublishedWasWritten
    ClaimTokens
PROPERTIES
    SettledIsFinal
    EventuallySettled
