------------------------------ MODULE MCNotify ------------------------------
(***************************************************************************)
(* An instance of Notify for TLC: two configurations, one of which drops a *)
(* label that the other one silences by.                                   *)
(***************************************************************************)
EXTENDS Notify

CONSTANTS byInstance, byNode

TwoConfigs == {{byInstance, byNode}, {byNode}}
=============================================================================
