-------------------------- MODULE MCPairingStorage --------------------------
(***************************************************************************)
(* PairingStorage for TLC: peers and threads are model values, and the     *)
(* peers are interchangeable.  Symmetry is used by the runs that check     *)
(* invariants only; with a liveness property TLC could miss a cycle.       *)
(***************************************************************************)
EXTENDS PairingStorageInv, TLC

PeerSymmetry == Permutations(Peer)
=============================================================================
