------------------------------ MODULE MCStore ------------------------------
(* Instances of Store for TLC. *)
EXTENDS Store, TLC

Symmetry == Permutations(Ids) \cup Permutations(Codes) \cup Permutations(Ips)
=============================================================================
