CONSTANTS
    c1 = c1
    c2 = c2
    c3 = c3
    Conn = {c1, c2, c3}
    NoConn = NoConn
    Fd = {1, 2, 3}
    Uuid = {0, 1, 2}
    UuidOf <- MCUuidOf
    Forwards = FALSE
    Obedient = {c2, c3}
SPECIFICATION FairSpec
INVARIANTS NoFaultWhileServing
PROPERTY CloseReturns
CHECK_DEADLOCK FALSE
