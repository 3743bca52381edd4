----------------------------- MODULE MCContract -----------------------------
(* Contract on a channel with a peer of the client's organisation and one  *)
(* or two others.                                                          *)
EXTENDS Contract

MCMspOf == [h \in Hubs |-> IF h = "b1" THEN "OrgB" ELSE "OrgA"]
=============================================================================
