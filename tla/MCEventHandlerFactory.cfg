SPECIFICATION Spec
CHECK_DEADLOCK FALSE
CONSTANTS
    Peers = {p1, p2}
    Txs = {t1, t2}
    Factory = Factory
INVARIANTS
    TypeOK
    InitializedHasHubs
    ListenersAreConnected
    OnlyReplacedHubsEscape
PROPERTIES
    NothingOpensAfterDispose
    EstablishmentEnds
