--------------------------- MODULE MCConsoles ---------------------------
(***************************************************************************)
(* Consoles for TLC: its constants are numbers and flags, given by the     *)
(* configuration, and Seq(S) is only tested for membership.                *)
(***************************************************************************)
EXTENDS ConsolesInv
=============================================================================
