------------------------------ MODULE MCStatus ------------------------------
(***************************************************************************)
(* Instances of StatusWriter for TLC.                                      *)
(***************************************************************************)
EXTENDS StatusWriter

AllOutcomes == {"done", "failed", "lost"}
=============================================================================
