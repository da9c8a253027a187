--------------------------- MODULE MCMaintenance ---------------------------
(***************************************************************************)
(* Instances of Maintenance for TLC.                                       *)
(***************************************************************************)
EXTENDS Maintenance

AllOutcomes == {"done", "failed", "lost"}
=============================================================================
