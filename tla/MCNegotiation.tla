---------------------------- MODULE MCNegotiation ----------------------------
(***************************************************************************)
(* Model checking of Negotiation: the page sends three messages, among     *)
(* them candidates on both sides of an offer, and the vehicle has the room *)
(* to ask for an offer of its own and for an answer.                       *)
(***************************************************************************)
EXTENDS Negotiation
=============================================================================
