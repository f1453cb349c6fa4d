SPECIFICATION FairSpec
CONSTANTS
    Nodes <- MCNodes
    Readers <- MCReaders
    Home <- MCHome
    NoReader = NoReader
    MaxPolls = 1
    MaxChanges = 1
    MaxFaults = 1
    MaxExpiries = 1
INVARIANTS LockIsOwned FollowersHaveLeader ErrorsFromLeavers StaleOnlyByRace
PROPERTY EveryRequestAnswered
CHECK_DEADLOCK FALSE
