----------------------------- MODULE MCPeerTable ----------------------------
(* PeerTable on small sets of peers.                                       *)
EXTENDS PeerTable, TLC
=============================================================================
