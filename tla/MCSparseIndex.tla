--------------------------- MODULE MCSparseIndex ---------------------------
(* Model values and symmetry for the runs of SparseIndex. *)
EXTENDS SparseIndex, TLC

Symmetry == Permutations(Docs) \cup Permutations(Routes) \cup Permutations(Connectors)
=============================================================================
