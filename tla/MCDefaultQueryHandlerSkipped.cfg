SPECIFICATION Spec
CONSTANTS
    Queries = {q1, q2}
    MaxPeers = 3
SYMMETRY QuerySymmetry
INVARIANT EveryPeerTried
