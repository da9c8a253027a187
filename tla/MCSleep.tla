------------------------------ MODULE MCSleep ------------------------------
(***************************************************************************)
(* Instances of Sleep for TLC.                                             *)
(***************************************************************************)
EXTENDS Sleep

AllOutcomes == {"done", "failed", "lost"}
=============================================================================
