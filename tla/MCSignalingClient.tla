-------------------------- MODULE MCSignalingClient --------------------------
(* SignalingClient for TLC: the bounds are in the cfgs. *)
EXTENDS SignalingClient
=============================================================================
