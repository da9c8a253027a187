------------------------------- MODULE MCWake -------------------------------
(***************************************************************************)
(* Instances of Wake for TLC.                                              *)
(***************************************************************************)
EXTENDS Wake
=============================================================================
