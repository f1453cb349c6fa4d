SPECIFICATION HubSpec
CONSTANTS
    Channels = {c1, c2}
    Pushers = {p1}
    Notifs = {n1}
    Buffer = 1
    NoConn = NoConn
    NoNotif = NoNotif
SYMMETRY Symmetry
INVARIANT DisconnectIsHarmless
CHECK_DEADLOCK FALSE
