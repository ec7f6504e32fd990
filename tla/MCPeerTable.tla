----------------------------- MODULE MCPeerTable -----------------------------
(* Two daemons for TLC: an edge that moves and a server that does not. *)
EXTENDS PeerTable

CONSTANTS edge, server, a1, a2, a3

Homes == [n \in {edge, server} |-> IF n = edge THEN a1 ELSE a3]
=============================================================================
