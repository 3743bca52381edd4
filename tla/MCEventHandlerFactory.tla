----------------------- MODULE MCEventHandlerFactory ------------------------
(* EventHandlerFactory with interchangeable peers and transactions.        *)
EXTENDS EventHandlerFactory, TLC

PeersAndTxs == Permutations(Peers) \cup Permutations(Txs)
=============================================================================
