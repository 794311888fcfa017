--------------------------- MODULE MCStoredClient ---------------------------
(* Instances of StoredClient for TLC. *)
EXTENDS StoredClient
=============================================================================
