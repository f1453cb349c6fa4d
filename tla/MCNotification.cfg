SPECIFICATION Spec
CONSTANTS
    Nodes = {n1, n2}
    Events <- MCEvents
    Sender <- MCSender
    Recipient <- MCRecipient
    Conns = {c1, c2}
    Owner <- MCOwner
    MaxRetryCount = 1
    MaxFaults = 2
    None = None
SYMMETRY Symmetry
CONSTRAINT OneEvent
INVARIANTS NotificationKept SentOnce OnlineReached
PROPERTY ReadStaysRead
CHECK_DEADLOCK FALSE
