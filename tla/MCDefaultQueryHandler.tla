----------------------- MODULE MCDefaultQueryHandler ------------------------
(* DefaultQueryHandler with queries as interchangeable model values.       *)
EXTENDS DefaultQueryHandler, TLC

QuerySymmetry == Permutations(Queries)
=============================================================================
