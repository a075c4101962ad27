-------------------------- MODULE MCSignalingRoom ---------------------------
(* SignalingRoom on small instances. *)
EXTENDS SignalingRoom
=============================================================================
