SPECIFICATION HubSpec
CONSTANTS
    Channels = {c1, c2, c3}
    Pushers = {p1, p2}
    Notifs = {n1, n2}
    Buffer = 1
    NoConn = NoConn
    NoNotif = NoNotif
SYMMETRY Symmetry
INVARIANTS TableMatchesConnections QuietPushReachesAll
CHECK_DEADLOCK FALSE
