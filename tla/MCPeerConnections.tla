------------------------- MODULE MCPeerConnections --------------------------
(***************************************************************************)
(* PeerConnections for TLC: peers are model values, connection ids small   *)
(* numbers as in the program.                                              *)
(***************************************************************************)
EXTENDS PeerConnections
=============================================================================
