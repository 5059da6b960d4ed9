------------------------- MODULE MCPeerConnections -------------------------
(* TLC instance of PeerConnections.                                        *)
EXTENDS PeerConnections
=============================================================================
