--------------------------- MODULE MCStoreRestart ---------------------------
(* Instances of StoreRestart for TLC. *)
EXTENDS StoreRestart, TLC

Symmetry == Permutations(Ids) \cup Permutations(Codes)
=============================================================================
