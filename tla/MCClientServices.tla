-------------------------- MODULE MCClientServices --------------------------
(***************************************************************************)
(* ClientServices for TLC: all its constants are bounds, given by the      *)
(* configuration.                                                          *)
(***************************************************************************)
EXTENDS ClientServices
=============================================================================
