---------------------------- MODULE MCPeerManager ----------------------------
(* PeerManager over small sets of peers, callers and task ids.             *)
EXTENDS PeerManager, TLC

CONSTANTS a, b, x, t1, t2, t3
=============================================================================
