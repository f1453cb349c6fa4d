SPECIFICATION FairSpec
CONSTANTS
    Queues <- MCQueues
    Events <- MCEvents
    Bound <- MCBound
    Consumers <- MCConsumers
    Source <- MCSource
    Supervised <- MCSupervised
    MaxRetryCount = 1
    MaxFaults = 2
INVARIANTS NoLoss DeadLetterEarned BoundedAmplification
PROPERTY WorkerQueuesDrain
CHECK_DEADLOCK FALSE
