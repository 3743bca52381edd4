--------------------- MODULE MCRoundRobinQueryHandler -----------------------
(* RoundRobinQueryHandler with peers and queries as model values; nothing  *)
(* tells one peer, or one query, from another.                             *)
EXTENDS RoundRobinQueryHandler

Symmetry == Permutations(Peers) \cup Permutations(Queries)
=============================================================================
