CONSTANTS
    c1 = c1
    c2 = c2
    c3 = c3
    Conn = {c1, c2}
    NoConn = NoConn
    Fd = {1, 2}
    Uuid = {0, 1, 2}
    UuidOf <- MCUuidOf
    Forwards = TRUE
    Obedient = {c1, c2}
SPECIFICATION FairSpec
INVARIANTS JoinedBeforeFreed MapsAgree OwnSocket
PROPERTY RemovalEnds
CHECK_DEADLOCK FALSE
