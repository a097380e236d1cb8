--------------------------- MODULE MCActionEngine ---------------------------
(* ActionEngine with a few actions and two overlapping requests. *)
EXTENDS ActionEngine, TLC

Symmetry == Permutations(Actions) \cup Permutations(Callers)
=============================================================================
