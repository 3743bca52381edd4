SPECIFICATION Spec
CHECK_DEADLOCK FALSE
CONSTANTS
    c1 = c1
    c2 = c2
    None = None
    Ledgers = {l1, l2}
    Channels = {c1, c2}
    LedgerPeers <- MCLedgerPeers
    Chaincodes = {cc1}
    Orgs = {o1, o2}
    IdentityCalls = {s1, s2}
INVARIANTS
    TypeOK
    HandedOutIsInitialized
    OpenHubsAreReachable
    OneOrgPerLedger
PROPERTIES
    IdentityStaysAlone
    GetLedgerEnds
    ImplementsCache
