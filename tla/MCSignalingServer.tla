------------------------- MODULE MCSignalingServer -------------------------
(* A small instance of SignalingServer for TLC.                            *)
EXTENDS SignalingServer, TLC

Symmetry ==
    Permutations(Session) \cup Permutations(Code) \cup Permutations(Room)
=============================================================================
