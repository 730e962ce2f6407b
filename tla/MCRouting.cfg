CONSTANTS
    Client = {c1, c2, c3}
    Nobody = Nobody
    Types = 2
    SlowPeers = TRUE
SPECIFICATION FairSpec
INVARIANTS RegistryWhole LoopsReachAll OneRecipient WhereFaultsAre
PROPERTY OperationsReturn
CHECK_DEADLOCK FALSE
