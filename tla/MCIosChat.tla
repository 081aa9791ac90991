------------------------------ MODULE MCIosChat -----------------------------
(***************************************************************************)
(* IosChat for TLC: peers are model values, connections small numbers.     *)
(***************************************************************************)
EXTENDS IosChatInv
=============================================================================
