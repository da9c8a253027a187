------------------------------ MODULE MCVisit ------------------------------
(***************************************************************************)
(* Instances of Visit for TLC.                                             *)
(***************************************************************************)
EXTENDS Visit

AllOutcomes == {"done", "failed", "lost"}
=============================================================================
