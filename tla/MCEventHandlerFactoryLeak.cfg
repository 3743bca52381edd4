SPECIFICATION Spec
CHECK_DEADLOCK FALSE
CONSTANTS
    Peers = {p1, p2}
    Txs = {t1, t2}
    Factory = Factory
SYMMETRY PeersAndTxs
INVARIANT DisposedMeansClosed
