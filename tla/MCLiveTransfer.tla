-------------------------- MODULE MCLiveTransfer --------------------------
(* Instances of LiveTransfer for TLC. *)
EXTENDS LiveTransfer
=============================================================================
