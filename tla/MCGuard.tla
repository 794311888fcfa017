------------------------------ MODULE MCGuard ------------------------------
(* Instances of Guard for TLC. *)
EXTENDS Guard, TLC

Symmetry == Permutations(Codes) \cup Permutations(Ips)
=============================================================================
