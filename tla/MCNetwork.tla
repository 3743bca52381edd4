----------------------------- MODULE MCNetwork ------------------------------
(* Network with a channel of two peers that answer ledger queries, and one *)
(* of none.                                                                *)
EXTENDS Network, TLC

CONSTANTS c1, c2

MCLedgerPeers == c1 :> 2 @@ c2 :> 0

Symmetric == Permutations(Ledgers) \cup Permutations(IdentityCalls) \cup Permutations(Orgs)
=============================================================================
