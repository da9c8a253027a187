------------------------- MODULE MaintenanceProofs -------------------------
(***************************************************************************)
(* Proofs about Maintenance, for any bounds, any outcomes of the calls and *)
(* a process that may be restarted at any time.  MaintInv is inductive     *)
(* together with TypeOK, if no second person acts between the two steps of *)
(* a command: ServedIsOnRecord gives the screwdriver rule, and             *)
(* ShutdownIsFollowed that no request is taken up on a dying Ready.        *)
(***************************************************************************)
EXTENDS Maintenance, TLAPS

LEMMA AgesFacts ==
  ASSUME NEW b \in Nat
  PROVE  /\ 0 \in Ages(b) /\ Never \in Ages(b)
         /\ \A t \in Ages(b) : Aged(t, b) \in Ages(b)
  BY NeverAssumption DEF Ages, Aged

(***************************************************************************)
(* Types.                                                                  *)
(***************************************************************************)

LEMMA EndTickTyped == EndTick => TickTyped'
  BY DEF EndTick, TickTyped, Step, Phase, NoObs

LEMMA BoundsTyped ==
  /\ 0 \in Ages(ShutdownTimeout) /\ Never \in Ages(ShutdownTimeout)
  /\ 0 \in Ages(PowerOnBound) /\ Never \in Ages(PowerOnBound)
  /\ 0 \in 0 .. ShutdownTimeout + 1
<1>1. 0 \in 0 .. ShutdownTimeout + 1
  BY BoundsAssumption
<1> QED BY <1>1, AgesFacts, BoundsAssumption

LEMMA InitTyped == Init => TypeOK
<1> SUFFICES ASSUME Init PROVE TypeOK
  OBVIOUS
<1>1. ready \in BOOLEAN
  BY Zenon DEF Init
<1>2. NodeTyped
  BY <1>1, BoundsTyped DEF Init, NodeTyped, Machine
<1>3. MemoryTyped /\ TickTyped /\ HistTyped
  BY BoundsTyped DEF Init, MemoryTyped, TickTyped, HistTyped, Phase, Step, NoObs
<1> QED BY <1>2, <1>3 DEF TypeOK

LEMMA StepTyped == TypeOK /\ [Next]_vars => TypeOK'
<1> SUFFICES ASSUME TypeOK, [Next]_vars PROVE TypeOK'
  OBVIOUS
<1> USE BoundsTyped, BoundsAssumption, NeverAssumption
<1> USE DEF TypeOK, NodeTyped, MemoryTyped, TickTyped, HistTyped
<1>a. CASE Observe
  BY <1>a DEF Observe, nodeVars, memVars, histVars, Step
<1>b. CASE TidyUp
  <2>1. started' \in BOOLEAN /\ failedAt' \in Ages(PowerOnBound)
    BY <1>b DEF TidyUp, Noted
  <2>2. /\ shutdown' \in Ages(ShutdownTimeout) /\ phase' \in Phase
        /\ phaseSince' \in 0 .. ShutdownTimeout + 1
        /\ phase' # "powering_off" => phaseSince' = 0
    BY <1>b DEF TidyUp, Noted, Phase, Ages
  <2> QED BY <1>b, <2>1, <2>2 DEF TidyUp, histVars, Step
<1>c. CASE YieldToRequest \/ StepPhase \/ NothingDecided
  <2>1. CASE YieldToRequest \/ StepPhase
    BY <2>1 DEF YieldToRequest, StepPhase, ToTakeUp, LeavePhase, histVars, Step, Phase
  <2>2. CASE NothingDecided
    BY <2>2, EndTickTyped DEF NothingDecided, ToTakeUp, histVars, Step
  <2> QED BY <1>c, <2>1, <2>2
<1>d. CASE ShutDown
  BY <1>d DEF ShutDown, ToTakeUp, Noted, Step, Phase, Machine
<1>e. CASE ConfirmOff
  BY <1>e DEF ConfirmOff, ToTakeUp, LeavePhase, Noted, histVars, Step, Phase
<1>f. CASE PassOver
  BY <1>f, EndTickTyped DEF PassOver, nodeVars, memVars, histVars
<1>g. CASE ReadPower
  BY <1>g DEF ReadPower, nodeVars, memVars, histVars, Step
<1>h. CASE Record
  BY <1>h, EndTickTyped DEF Record, Noted, memVars, Step
<1>i. CASE PowerOn
  <2>1. FirstFailure \in Ages(PowerOnBound)
    BY DEF FirstFailure
  <2> QED BY <1>i, <2>1, EndTickTyped DEF PowerOn, nodeVars, Step, Machine
<1>j. CASE Withdraw
  BY <1>j, EndTickTyped DEF Withdraw, Noted, memVars, histVars
<1>k. CASE BeginOperation
  BY <1>k, EndTickTyped DEF BeginOperation, Noted, Phase, Machine
<1>l. CASE Person
  <2> USE DEF memVars, tickVars
  <2>1. CASE StartReads
    BY <2>1 DEF StartReads, nodeVars, histVars
  <2>2. CASE StartPatches
    BY <2>2 DEF StartPatches, NewRequest
  <2>3. CASE KubectlAsks \/ GiveBack \/ AskAgain
    BY <2>3 DEF KubectlAsks, GiveBack, AskAgain, NewRequest
  <2>4. CASE SwitchOff \/ SwitchOn
    BY <2>4 DEF SwitchOff, SwitchOn, nodeVars, Machine
  <2> QED BY <1>l, <2>1, <2>2, <2>3, <2>4 DEF Person
<1>m. CASE PowersOff \/ KubeletReports
  <2>1. CASE PowersOff
    BY <2>1 DEF PowersOff, nodeVars, memVars, tickVars, histVars, Machine
  <2>2. CASE KubeletReports
    <3>1. ready' \in BOOLEAN
      BY <2>2, Zenon DEF KubeletReports
    <3> QED BY <2>2, <3>1 DEF KubeletReports, memVars, tickVars, histVars
  <2> QED BY <1>m, <2>1, <2>2
<1>n. CASE Restart
  BY <1>n, EndTickTyped DEF Restart, LeavePhase, nodeVars, histVars, Phase
<1>o. CASE TimePasses
  <2>1. /\ shutdown' \in Ages(ShutdownTimeout) /\ asked' \in Ages(ShutdownTimeout)
        /\ failedAt' \in Ages(PowerOnBound)
    BY <1>o, AgesFacts DEF TimePasses
  <2>2. phaseSince' \in 0 .. ShutdownTimeout + 1 /\ (phase # "powering_off" => phaseSince' = 0)
    BY <1>o DEF TimePasses, Aged
  <2> QED BY <1>o, <2>1, <2>2 DEF TimePasses, tickVars
<1>p. CASE UNCHANGED vars
  BY <1>p DEF vars, nodeVars, memVars, tickVars, histVars
<1> QED BY <1>a, <1>b, <1>c, <1>d, <1>e, <1>f, <1>g, <1>h, <1>i, <1>j, <1>k, <1>l, <1>m, <1>n,
           <1>o, <1>p DEF Next, Controller, Advance

\* The state keeps its type, through every call that fails and every restart.
THEOREM TypeCorrect == Spec => []TypeOK
<1> QED BY InitTyped, StepTyped, PTL DEF Spec

(***************************************************************************)
(* A request that was served is on record.                                 *)
(***************************************************************************)

\* Only a person makes a new request, and a tick that began before it has not seen
\* it: what the tick may still write or power on is of a request not served.
LEMMA ServedStep ==
  ASSUME TypeOK, ServedIsOnRecord, [Next]_vars, "second" \notin Actors
  PROVE  ServedIsOnRecord'
<1> USE DEF ServedIsOnRecord, Served, TypeOK, NodeTyped, TickTyped, HistTyped
<1>a. CASE Observe
  BY <1>a DEF Observe, nodeVars, histVars
<1>b. CASE TidyUp
  BY <1>b DEF TidyUp, Noted, histVars
<1>c. CASE YieldToRequest \/ StepPhase \/ ShutDown \/ NothingDecided \/ ConfirmOff
  BY <1>c DEF YieldToRequest, StepPhase, ShutDown, NothingDecided, ConfirmOff, ToTakeUp,
              EndTick, histVars
<1>d. CASE PassOver \/ BeginOperation
  BY <1>d DEF PassOver, BeginOperation, EndTick, nodeVars, histVars
<1>e. CASE ReadPower
  BY <1>e DEF ReadPower, Due, nodeVars, histVars
<1>f. CASE Record
  BY <1>f DEF Record, Noted, EndTick
<1>g. CASE PowerOn
  BY <1>g DEF PowerOn, EndTick, nodeVars
<1>h. CASE Withdraw
  BY <1>h DEF Withdraw, Noted, EndTick, histVars
<1>i. CASE Person
  <2>1. CASE StartReads
    BY <2>1 DEF StartReads, nodeVars, tickVars, histVars
  <2>2. CASE StartPatches
    BY <2>2 DEF StartPatches, ClearsRecord, NewRequest, tickVars
  <2>3. CASE KubectlAsks \/ GiveBack \/ AskAgain
    BY <2>3 DEF KubectlAsks, GiveBack, AskAgain, AtTerminal, NewRequest, tickVars
  <2>4. CASE SwitchOff \/ SwitchOn
    BY <2>4 DEF SwitchOff, SwitchOn, nodeVars, tickVars
  <2> QED BY <1>i, <2>1, <2>2, <2>3, <2>4 DEF Person
<1>j. CASE PowersOff \/ KubeletReports \/ TimePasses
  BY <1>j DEF PowersOff, KubeletReports, TimePasses, nodeVars, tickVars, histVars
<1>k. CASE Restart
  BY <1>k DEF Restart, EndTick, nodeVars, histVars
<1>l. CASE UNCHANGED vars
  BY <1>l DEF vars, nodeVars, tickVars, histVars
<1> QED BY <1>a, <1>b, <1>c, <1>d, <1>e, <1>f, <1>g, <1>h, <1>i, <1>j, <1>k, <1>l
        DEF Next, Controller, Advance

(***************************************************************************)
(* A shutdown of ours is the node's phase until it is over.                *)
(***************************************************************************)

LEMMA ShutdownStep ==
  ASSUME TypeOK, ShutdownIsFollowed, [Next]_vars
  PROVE  ShutdownIsFollowed'
<1> USE BoundsAssumption, NeverAssumption
<1> USE DEF ShutdownIsFollowed, TypeOK, NodeTyped, MemoryTyped, TickTyped, HistTyped
<1>a. CASE Observe
  BY <1>a DEF Observe, nodeVars, memVars, histVars
<1>b. CASE TidyUp
  BY <1>b DEF TidyUp, Noted, histVars
<1>c. CASE YieldToRequest \/ StepPhase \/ NothingDecided
  BY <1>c DEF YieldToRequest, StepPhase, NothingDecided, ToTakeUp, EndTick, NoObs, LeavePhase, histVars
<1>d. CASE ShutDown
  BY <1>d DEF ShutDown, ToTakeUp, Noted
<1>e. CASE ConfirmOff
  BY <1>e DEF ConfirmOff, ToTakeUp, LeavePhase, Noted, histVars
<1>f. CASE PassOver \/ Record \/ Withdraw
  <2> USE DEF EndTick, memVars, histVars
  <2>1. CASE PassOver
    BY <2>1 DEF PassOver, nodeVars
  <2>2. CASE Record
    BY <2>2 DEF Record
  <2>3. CASE Withdraw
    BY <2>3 DEF Withdraw
  <2> QED BY <1>f, <2>1, <2>2, <2>3
<1>g. CASE ReadPower
  BY <1>g DEF ReadPower, Due, ShutdownSettled, nodeVars, memVars, histVars
<1>h. CASE PowerOn
  BY <1>h DEF PowerOn, EndTick, nodeVars
<1>i. CASE BeginOperation
  BY <1>i DEF BeginOperation, EndTick, Noted
<1>j. CASE Person
  <2> USE DEF memVars, tickVars
  <2>1. CASE StartReads
    BY <2>1 DEF StartReads, nodeVars, histVars
  <2>2. CASE StartPatches
    BY <2>2 DEF StartPatches
  <2>3. CASE KubectlAsks \/ GiveBack \/ AskAgain
    BY <2>3 DEF KubectlAsks, GiveBack, AskAgain
  <2>4. CASE SwitchOff \/ SwitchOn
    BY <2>4 DEF SwitchOff, SwitchOn, nodeVars
  <2> QED BY <1>j, <2>1, <2>2, <2>3, <2>4 DEF Person
<1>k. CASE PowersOff
  BY <1>k DEF PowersOff, nodeVars, memVars, tickVars, histVars
<1>l. CASE KubeletReports
  BY <1>l DEF KubeletReports, memVars, tickVars, histVars
<1>m. CASE Restart
  BY <1>m DEF Restart, LeavePhase, EndTick, nodeVars, histVars
<1>n. CASE TimePasses
  BY <1>n DEF TimePasses, Aged, Ages, tickVars
<1>o. CASE UNCHANGED vars
  BY <1>o DEF vars, nodeVars, memVars, tickVars, histVars
<1> QED BY <1>a, <1>b, <1>c, <1>d, <1>e, <1>f, <1>g, <1>h, <1>i, <1>j, <1>k, <1>l, <1>m, <1>n,
           <1>o DEF Next, Controller, Advance

(***************************************************************************)
(* What the invariant is for.                                              *)
(***************************************************************************)

\* The invariant of a run, for every value of the constants, when nobody else acts
\* between the two steps of a `metalnap maintenance start` (cli.py).
THEOREM MaintInvariant == "second" \notin Actors => (Spec => []Inv)
<1> SUFFICES ASSUME "second" \notin Actors PROVE Spec => []Inv
  OBVIOUS
<1>1. Init => MaintInv
  BY DEF Init, MaintInv, ServedIsOnRecord, ShutdownIsFollowed, Served
<1>2. TypeOK /\ MaintInv /\ [Next]_vars => MaintInv'
  BY ServedStep, ShutdownStep DEF MaintInv
<1> QED BY <1>1, <1>2, TypeCorrect, PTL DEF Spec, Inv

\* The screwdriver rule: the two calls that power a machine on are made for a request
\* that was not served, or for a node nobody asked for; and what a person switched
\* off was served.
LEMMA SwitchedOffStands ==
  ASSUME TypeOK, ServedIsOnRecord, [Next]_vars, switchedOff, mach = "off", mach' = "up"
  PROVE  SwitchOn
<1> USE DEF ServedIsOnRecord, Served
<1>1. started /\ maint
  OBVIOUS
<1>2. ~PowerOn /\ ~BeginOperation
  BY DEF PowerOn, BeginOperation
<1>3. ~(Observe \/ TidyUp)
  BY DEF Observe, TidyUp
<1>4. ~(YieldToRequest \/ StepPhase \/ ShutDown \/ NothingDecided \/ ConfirmOff)
  BY DEF YieldToRequest, StepPhase, ShutDown, NothingDecided, ConfirmOff
<1>5. ~(PassOver \/ ReadPower \/ Record \/ Withdraw)
  BY DEF PassOver, ReadPower, Record, Withdraw
<1>6. ~(PowersOff \/ KubeletReports \/ Restart \/ TimePasses \/ UNCHANGED vars)
  BY DEF PowersOff, KubeletReports, Restart, TimePasses, vars
<1>7. ~(StartReads \/ StartPatches \/ KubectlAsks \/ GiveBack \/ AskAgain \/ SwitchOff)
  BY DEF StartReads, StartPatches, KubectlAsks, GiveBack, AskAgain, SwitchOff
<1> QED BY <1>2, <1>3, <1>4, <1>5, <1>6, <1>7 DEF Next, Controller, Advance, Person

\* No retry, other process, stale tick or wake of the controller's powers on a machine
\* that a person has switched off in the course of a request that was served.
THEOREM ScrewdriverRule == "second" \notin Actors => (Spec => PersonsPowerOffStands)
<1> SUFFICES ASSUME "second" \notin Actors PROVE Spec => PersonsPowerOffStands
  OBVIOUS
<1>0. Spec => []Inv
  BY MaintInvariant
<1>1. TypeOK /\ MaintInv /\ [Next]_vars =>
        [switchedOff /\ mach = "off" /\ mach' = "up" => SwitchOn]_vars
  BY SwitchedOffStands DEF MaintInv
<1> QED BY <1>0, <1>1, PTL DEF Spec, Inv, PersonsPowerOffStands

\* A shutdown of ours that is on record holds the request back until it is over or its
\* bound has passed: by then a Ready condition is not the one it will take away.
THEOREM TakenUpForGood == Spec => []NotTakenUpGoingDown
<1>1. Init => ShutdownIsFollowed /\ NotTakenUpGoingDown
  BY DEF Init, ShutdownIsFollowed, NotTakenUpGoingDown
<1>2. TypeOK /\ ShutdownIsFollowed /\ [Next]_vars => ShutdownIsFollowed'
  BY ShutdownStep
<1>3. TypeOK /\ ShutdownIsFollowed => NotTakenUpGoingDown
  BY BoundsAssumption, NeverAssumption
     DEF TypeOK, HistTyped, Ages, ShutdownIsFollowed, NotTakenUpGoingDown
<1> QED BY <1>1, <1>2, <1>3, TypeCorrect, PTL DEF Spec
=============================================================================
