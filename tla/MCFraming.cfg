CONSTANTS
    N <- MCN
    Size <- MCSize
    Start <- MCStart
    H = 3
    D = 2
    F = 2
    Capacity = 7
    Reserve = 0
    Handshake = TRUE
    Eager = FALSE
    AscendingMemcpy = TRUE
SPECIFICATION FairSpec
INVARIANTS LeftoverMoved
PROPERTIES SentIsDispatched ImplementsChannel
CHECK_DEADLOCK FALSE
