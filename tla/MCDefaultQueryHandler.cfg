SPECIFICATION Spec
CONSTANTS
    Queries = {q1, q2}
    MaxPeers = 4
INVARIANTS
    TypeOK
    AtMostOneSkipped
PROPERTIES
    QueryEnds
    ImplementsFailover
