--------------------------- MODULE MCLocalCatalog ---------------------------
(* LocalCatalog for TLC: processes and served bundles are interchangeable. *)
EXTENDS LocalCatalog, TLC
Symmetry == Permutations(Procs) \cup Permutations(Contents)
=============================================================================
