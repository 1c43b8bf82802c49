----------------------------- MODULE MCDisplay -----------------------------
(***************************************************************************)
(* An instance of the display's page for TLC.                              *)
(***************************************************************************)
EXTENDS Display
=============================================================================
