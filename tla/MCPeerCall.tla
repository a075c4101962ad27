----------------------------- MODULE MCPeerCall -----------------------------
(* PeerCall on small instances. *)
EXTENDS PeerCall
=============================================================================
