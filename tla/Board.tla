-------------------------------- MODULE Board --------------------------------
(***************************************************************************)
(* What a reader of the status object may rely on, whoever writes it and   *)
(* however badly the writing goes: the object changes as if each report    *)
(* that is ever shown had been put there at once, no older than the one it *)
(* replaced, and with the keys of other writers left as they are.          *)
(***************************************************************************)
EXTENDS Naturals

CONSTANTS Reports, None, Refresh, Others

VARIABLES shown, age, other

vars == <<shown, age, other>>

\* The chart creates the object empty.
Init == shown = None /\ age = Refresh /\ other \in Others

Show ==
  /\ shown' \in Reports /\ age' \in 0 .. age
  /\ UNCHANGED other

OthersWrite ==
  /\ other' \in Others
  /\ UNCHANGED <<shown, age>>

GrowOld ==
  /\ age' \in age .. Refresh
  /\ UNCHANGED <<shown, other>>

Next == Show \/ OthersWrite \/ GrowOld

Spec == Init /\ [][Next]_vars
=============================================================================
