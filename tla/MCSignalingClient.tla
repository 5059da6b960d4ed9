------------------------- MODULE MCSignalingClient -------------------------
(* TLC instance of SignalingClient.                                        *)
EXTENDS SignalingClient
=============================================================================
