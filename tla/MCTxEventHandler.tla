-------------------------- MODULE MCTxEventHandler --------------------------
(* TxEventHandler on a channel of two organisations: two peers of the      *)
(* client's own organisation and one peer of the other.                    *)
EXTENDS TxEventHandler

MCMspOf == [h \in Hubs |-> IF h = "b1" THEN "OrgB" ELSE "OrgA"]
=============================================================================
