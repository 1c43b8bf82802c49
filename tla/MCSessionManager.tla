-------------------------- MODULE MCSessionManager --------------------------
(***************************************************************************)
(* Instances of the signaling server for TLC.                              *)
(***************************************************************************)
EXTENDS SessionManager

\* Connections are interchangeable, and so are ids: nothing names one.
Symmetry == Permutations(Ws) \cup Permutations(Id)
=============================================================================
