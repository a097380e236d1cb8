------------------------ MODULE MCConnectionManager ------------------------
(* ConnectionManager on small sets of threads, hosts and session ids. *)
EXTENDS ConnectionManager, TLC

Symmetry == Permutations(Callers) \cup Permutations(Sids)
=============================================================================
