-------------------------- MODULE MCStreamAddresses --------------------------
(* Instances of StreamAddresses for TLC; the .cfg files choose the streams. *)
EXTENDS StreamAddresses
=============================================================================
