---------------------------- MODULE MCLiveRooms ----------------------------
(* Instances of LiveRooms for TLC. *)
EXTENDS LiveRooms, TLC

Symmetry == Permutations(Sockets) \cup Permutations(Codes) \cup Permutations(Ips)
=============================================================================
