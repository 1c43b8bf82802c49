--------------------------- MODULE MCWebrtcManager ---------------------------
\* WebrtcManager with constants for TLC.
EXTENDS WebrtcManager, TLC

Symmetry == Permutations(Peers)
=============================================================================
