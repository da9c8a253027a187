------------------------------- MODULE MCPool -------------------------------
(***************************************************************************)
(* Instances of Pool for TLC.  A job asks for most of a node's memory and  *)
(* half of its CPU, and for something no node reports: one job to a node.  *)
(* Node 2 is larger than node 1, so that it matters which one is idle.     *)
(***************************************************************************)
EXTENDS Pool

Job   == [memory |-> 2, cpu |-> 1, disk |-> 1]
Size  == [n \in 1 .. N |-> [memory |-> 2 + n, cpu |-> 2, disk |-> 0]]
Unset == [memory |-> 3, cpu |-> 0, disk |-> 0]
=============================================================================
