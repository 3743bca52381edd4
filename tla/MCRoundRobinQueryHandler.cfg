SPECIFICATION Spec
CONSTANTS
    Peers = {p1, p2, p3}
    Queries = {q1, q2}
    MaxUses = 4
INVARIANTS
    SpreadBounded
    EveryPeerTriedOnce
SYMMETRY Symmetry
