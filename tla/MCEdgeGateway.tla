--------------------------- MODULE MCEdgeGateway ---------------------------
(* EdgeGateway with a few samples and two overlapping requests. *)
EXTENDS EdgeGateway, TLC

Symmetry == Permutations(Calls)
=============================================================================
