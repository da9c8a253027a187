----------------------------- MODULE WakeProofs -----------------------------
(***************************************************************************)
(* Theorems about Wake, for every timeout and cooldown, with every actor   *)
(* and every outcome of a call.                                            *)
(***************************************************************************)
EXTENDS Wake, TLAPS

USE BoundsAssumption DEF nodeVars, machVars, flagVars, failVars, memVars, tickVars, histVars

(***************************************************************************)
(* Type correctness.                                                       *)
(***************************************************************************)

LEMMA AgesFacts ==
  ASSUME NEW b \in Nat
  PROVE  /\ 0 \in Ages(b) /\ Never \in Ages(b)
         /\ \A t \in Ages(b) : Aged(t, b) \in Ages(b)
  BY NeverAssumption DEF Ages, Aged

LEMMA RecordsFacts == {} \in Records /\ \A r \in Ages(CycleCooldown) : {r} \in Records
  BY DEF Records

LEMMA ReadingFacts ==
  /\ NoReading \in Reading
  /\ NodeTyped => NodeNow \in Reading
<1>1. NoReading \in Reading
  BY DEF NoReading, Reading
<1>2. ASSUME NodeTyped PROVE NodeNow \in Reading
  <2>1. (cordoned /\ ours) \in BOOLEAN
    OBVIOUS
  <2> QED
    BY <1>2, <2>1 DEF NodeNow, NodeTyped, Reading
<1> QED
  BY <1>1, <1>2

LEMMA LeaveForTyped ==
  ASSUME NEW p \in Phase, LeaveFor(p)
  PROVE  PhaseTyped' /\ FlagsTyped'
<1>1. PhaseTyped'
  BY DEF LeaveFor, PhaseTyped
<1>2. FlagsTyped'
  BY DEF LeaveFor, FlagsTyped
<1> QED
  BY <1>1, <1>2

LEMMA EndTickTyped == EndTick => TickTyped' /\ meddled' \in BOOLEAN /\ raced' \in BOOLEAN
<1> SUFFICES ASSUME EndTick PROVE TickTyped' /\ meddled' \in BOOLEAN /\ raced' \in BOOLEAN
  OBVIOUS
<1>1. pc' \in Step /\ pc' = "between"
  BY DEF EndTick, Step
<1>2. obs' \in Reading /\ fresh' \in Reading /\ recordRead' \in Records
  BY ReadingFacts, RecordsFacts DEF EndTick
<1>3. meddled' \in BOOLEAN /\ raced' \in BOOLEAN
  BY DEF EndTick
<1> QED
  BY <1>1, <1>2, <1>3 DEF TickTyped

LEMMA BackoffFacts ==
  /\ LongestBackoff \in Nat
  /\ WakeTimeout <= LongestBackoff /\ CycleCooldown <= LongestBackoff
  /\ VisitGrace <= LongestBackoff
  BY DEF LongestBackoff, Larger

LEMMA WaitsTyped ==
  /\ WakeTimeout \in 0 .. LongestBackoff \cup {Never}
  /\ CycleCooldown \in 0 .. LongestBackoff \cup {Never}
  /\ TRUE \in BOOLEAN /\ FALSE \in BOOLEAN
  BY BackoffFacts

LEMMA LeftTyped ==
  ASSUME NEW span \in Nat, NEW age \in Nat
  PROVE  Left(span, age) \in 0 .. span
  BY DEF Left

LEMMA GiveUpTyped ==
  ASSUME TypeOK, NEW wait \in 0 .. LongestBackoff \cup {Never}, NEW alert \in BOOLEAN,
         GiveUp(wait, recordRead, alert) \/ GiveUp(wait, {0}, alert),
         record' \in Ages(CycleCooldown), MachineTyped',
         lastCycle' \in Ages(CycleCooldown), rearmed' \in BOOLEAN
  PROVE  TypeOK'
<1>1. PhaseTyped' /\ FlagsTyped'
  BY LeaveForTyped DEF GiveUp, Phase
<1>2. TickTyped' /\ HistTyped'
  BY EndTickTyped DEF GiveUp, HistTyped
<1>3. troubled' \in BOOLEAN
  BY DEF GiveUp, TryNoteTrouble, TypeOK, NodeTyped
<1>4. NodeTyped'
  BY <1>3 DEF GiveUp, TypeOK, NodeTyped
<1>5. trouble' \in BOOLEAN
  BY DEF GiveUp, TypeOK, FailTyped
<1>6. waitedOn' \in Records
  BY AgesFacts DEF GiveUp, TypeOK, TickTyped, Records
<1>7. FailTyped'
  BY <1>5, <1>6 DEF GiveUp, FailTyped
<1> QED
  BY <1>1, <1>2, <1>4, <1>7 DEF TypeOK

\* What a refusal leaves behind is in range, whatever guard refused.
LEMMA RefuseTyped == TypeOK /\ Refuse => TypeOK'
<1> SUFFICES ASSUME TypeOK, Refuse PROVE TypeOK'
  OBVIOUS
<1>1. /\ record' \in Ages(CycleCooldown) /\ MachineTyped'
      /\ lastCycle' \in Ages(CycleCooldown) /\ rearmed' \in BOOLEAN
  BY DEF Refuse, TypeOK, NodeTyped, MachineTyped, HistTyped
<1>2. WakeTimeout \in 0 .. LongestBackoff \cup {Never}
  BY BackoffFacts
<1>3. ASSUME NEW r \in recordRead
      PROVE  r = Never \/ Left(CycleCooldown, r) \in 0 .. LongestBackoff \cup {Never}
  <2>1. r = Never \/ r \in Nat
    BY <1>3 DEF TypeOK, TickTyped, Records, Ages
  <2> QED
    BY <2>1, LeftTyped, BackoffFacts
<1>4. CASE GiveUp(WakeTimeout, recordRead, TRUE)
  BY <1>1, <1>2, <1>4, GiveUpTyped
<1>5. CASE GiveUp(Never, recordRead, TRUE)
  BY <1>1, <1>5, GiveUpTyped
<1>6. CASE RefuseAfterCycle
  <2>1. PICK r \in recordRead :
          GiveUp(IF r = Never THEN WakeTimeout ELSE Left(CycleCooldown, r), recordRead, TRUE)
    BY <1>6 DEF RefuseAfterCycle
  <2>2. (IF r = Never THEN WakeTimeout ELSE Left(CycleCooldown, r)) \in 0 .. LongestBackoff \cup {Never}
    BY <1>2, <1>3
  <2> QED
    BY <1>1, <2>1, <2>2, GiveUpTyped
<1>7. CASE RefuseRecent
  <2>1. PICK r \in recordRead : r # Never /\ r < CycleCooldown
    BY <1>7 DEF RefuseRecent, RecentlyCycled
  <2>2. recordRead = {r}
    BY <2>1 DEF TypeOK, TickTyped, Records
  <2>3. GiveUp(Left(CycleCooldown, r), recordRead, TRUE)
    BY <1>7, <2>2 DEF RefuseRecent
  <2> QED
    BY <1>1, <1>3, <2>1, <2>3, GiveUpTyped
<1>8. CASE RefuseUpdating
  <2>1. visited \in Nat
    BY <1>8 DEF RefuseUpdating, MayBeUpdating, TypeOK, NodeTyped, Ages
  <2>2. Left(VisitGrace, visited) \in 0 .. LongestBackoff \cup {Never}
    BY <2>1, LeftTyped, BackoffFacts
  <2> QED
    BY <1>1, <1>8, <2>2, GiveUpTyped DEF RefuseUpdating
<1>9. CASE RefuseBusy
  BY <1>1, <1>2, <1>9, GiveUpTyped DEF RefuseBusy
<1> QED
  BY <1>4, <1>5, <1>6, <1>7, <1>8, <1>9 DEF Refuse

\* One step of any process keeps the types.
LEMMA TypeStep == TypeOK /\ [Next]_vars => TypeOK'
<1> SUFFICES ASSUME TypeOK, [Next]_vars PROVE TypeOK'
  OBVIOUS
<1> USE DEF TypeOK
<1>1. ASSUME Observe PROVE TypeOK'
  <2>1. /\ ours' \in BOOLEAN /\ troubled' \in BOOLEAN /\ trouble' \in BOOLEAN
    BY <1>1 DEF Observe, NodeTyped, FailTyped, TryNoteTrouble
  <2>2. backoff' \in 0 .. LongestBackoff \cup {Never} /\ waitedOn' \in Records
    BY <1>1, BackoffFacts DEF Observe, FailTyped, Records
  <2>4. TickTyped'
    BY <1>1, ReadingFacts DEF Observe, TickTyped, Step
  <2> QED
    BY <1>1, <2>1, <2>2, <2>4
    DEF Observe, NodeTyped, MachineTyped, PhaseTyped, FlagsTyped, FailTyped, HistTyped
<1>2. ASSUME \/ NothingDecided \/ YieldToOperator \/ LeaveToOperator \/ ArriveWithoutRoom
             \/ InTime \/ WarmUp
      PROVE  TypeOK'
  <2> USE DEF NothingDecided, YieldToOperator, LeaveToOperator, ArriveWithoutRoom, InTime, WarmUp
  <2>1. TickTyped' /\ HistTyped'
    BY <1>2, EndTickTyped DEF HistTyped
  <2>2. PhaseTyped' /\ FlagsTyped'
    BY <1>2, LeaveForTyped DEF PhaseTyped, FlagsTyped, Phase
  <2> QED
    BY <1>2, <2>1, <2>2 DEF NodeTyped, MachineTyped, FailTyped
<1>3. ASSUME BeginWake PROVE TypeOK'
  <2>1. TickTyped' /\ HistTyped'
    BY <1>3, EndTickTyped DEF BeginWake, HistTyped
  <2>2. mach' \in Machine
    BY <1>3 DEF BeginWake, MachineTyped, Machine
  <2>3. PhaseTyped'
    BY <1>3 DEF BeginWake, PhaseTyped, Phase
  <2>5. FlagsTyped'
    BY <1>3 DEF BeginWake, FlagsTyped
  <2>4. backoff' \in 0 .. LongestBackoff \cup {Never}
    BY <1>3, BackoffFacts DEF BeginWake, FailTyped
  <2> QED
    BY <1>3, <2>1, <2>2, <2>3, <2>4, <2>5 DEF BeginWake, NodeTyped, MachineTyped, FailTyped
<1>4. ASSUME ReadAgain PROVE TypeOK'
  <2>1. TickTyped'
    BY <1>4, ReadingFacts, RecordsFacts DEF ReadAgain, NodeTyped, TickTyped, Step
  <2>2. HistTyped'
    BY <1>4 DEF ReadAgain, HistTyped
  <2> QED
    BY <1>4, <2>1, <2>2 DEF ReadAgain, NodeTyped, MachineTyped, PhaseTyped, FlagsTyped, FailTyped
<1>5. ASSUME CompleteWake \/ FinishWake PROVE TypeOK'
  <2>1. TickTyped' /\ HistTyped'
    BY <1>5, EndTickTyped DEF CompleteWake, FinishWake, HistTyped
  <2>2. PhaseTyped' /\ FlagsTyped'
    BY <1>5, LeaveForTyped DEF CompleteWake, FinishWake, PhaseTyped, FlagsTyped, Phase
  <2>3. NodeTyped'
    BY <1>5 DEF CompleteWake, FinishWake, NodeTyped
  <2> QED
    BY <1>5, <2>1, <2>2, <2>3 DEF CompleteWake, FinishWake, MachineTyped, FailTyped
<1>6. ASSUME NotPoweredOn \/ TimedOutUnreadable PROVE TypeOK'
  <2>1. record' \in Ages(CycleCooldown) /\ MachineTyped' /\ lastCycle' \in Ages(CycleCooldown)
        /\ rearmed' \in BOOLEAN
    BY <1>6 DEF NotPoweredOn, TimedOutUnreadable, NodeTyped, MachineTyped, HistTyped
  <2>2. GiveUp(WakeTimeout, recordRead, TRUE)
    BY <1>6 DEF NotPoweredOn, TimedOutUnreadable
  <2> QED
    BY <2>1, <2>2, WaitsTyped, GiveUpTyped
<1>7. ASSUME ConfirmPower \/ TimedOutOn \/ Allow PROVE TypeOK'
  <2>1. PhaseTyped'
    BY <1>7 DEF ConfirmPower, TimedOutOn, Allow, PhaseTyped
  <2>3. FlagsTyped'
    <3>1. CASE TimedOutOn \/ Allow
      <4>1. booting' \in BOOLEAN /\ UNCHANGED <<phase, coldStart, confirmed, cycled>>
        BY <3>1 DEF TimedOutOn, Allow, FlagsTyped
      <4>2. phase # "waking" => ~booting'
        BY <3>1 DEF TimedOutOn, Allow, FlagsTyped
      <4> QED
        BY <4>1, <4>2 DEF FlagsTyped
    <3>2. CASE ConfirmPower
      <4>1. UNCHANGED <<phase, booting, coldStart, cycled>> /\ phase = "waking"
        BY <3>2 DEF ConfirmPower, TickTyped
      <4>2. confirmed' \in BOOLEAN
        BY <3>2 DEF ConfirmPower, FlagsTyped
      <4> QED
        BY <4>1, <4>2 DEF FlagsTyped
    <3> QED
      BY <1>7, <3>1, <3>2
  <2>4. HistTyped'
    BY <1>7 DEF ConfirmPower, TimedOutOn, Allow, HistTyped
  <2>2. TickTyped'
    BY <1>7 DEF ConfirmPower, TimedOutOn, Allow, TickTyped, Step
  <2> QED
    BY <1>7, <2>1, <2>2, <2>3, <2>4 DEF ConfirmPower, TimedOutOn, Allow, NodeTyped, MachineTyped, FailTyped
<1>8. ASSUME TimedOutUndecided PROVE TypeOK'
  <2>1. TickTyped' /\ HistTyped'
    BY <1>8, EndTickTyped DEF TimedOutUndecided, HistTyped
  <2>2. PhaseTyped' /\ FlagsTyped'
    <3>1. CASE LeaveFor("none")
      BY <3>1, LeaveForTyped DEF Phase
    <3>2. CASE booting' = FALSE /\ UNCHANGED <<phase, phaseSince, coldStart, confirmed, cycled>>
      <4>1. PhaseTyped'
        BY <3>2 DEF PhaseTyped
      <4>2. FlagsTyped'
        BY <3>2 DEF FlagsTyped
      <4> QED
        BY <4>1, <4>2
    <3> QED
      BY <1>8, <3>1, <3>2 DEF TimedOutUndecided
  <2> QED
    BY <1>8, <2>1, <2>2 DEF TimedOutUndecided, NodeTyped, MachineTyped, FailTyped
<1>9. ASSUME TimedOutOff PROVE TypeOK'
  <2>1. CASE GiveUp(WakeTimeout, recordRead, TRUE)
    <3>1. record' \in Ages(CycleCooldown) /\ MachineTyped' /\ lastCycle' \in Ages(CycleCooldown)
          /\ rearmed' \in BOOLEAN
      BY <1>9 DEF TimedOutOff, NodeTyped, MachineTyped, HistTyped
    <3> QED
      BY <2>1, <3>1, WaitsTyped, GiveUpTyped
  <2>2. CASE LeaveFor("none") /\ EndTick
             /\ UNCHANGED <<cordoned, ours, maint, ready, visited, troubled, failVars>>
    <3>1. TickTyped' /\ HistTyped' /\ PhaseTyped' /\ FlagsTyped'
      BY <1>9, <2>2, EndTickTyped, LeaveForTyped DEF TimedOutOff, HistTyped, Phase
    <3> QED
      BY <1>9, <2>2, <3>1 DEF TimedOutOff, NodeTyped, MachineTyped, FailTyped
  <2> QED
    BY <1>9, <2>1, <2>2 DEF TimedOutOff
<1>10. ASSUME Refuse PROVE TypeOK'
  BY <1>10, RefuseTyped
<1>11. ASSUME RecordCycle PROVE TypeOK'
  <2>1. /\ record' \in Ages(CycleCooldown) /\ MachineTyped' /\ lastCycle' \in Ages(CycleCooldown)
        /\ rearmed' \in BOOLEAN
    BY <1>11, AgesFacts DEF RecordCycle, NodeTyped, MachineTyped, HistTyped
  <2>2. CASE GiveUp(WakeTimeout, recordRead, TRUE)
    BY <2>1, <2>2, WaitsTyped, GiveUpTyped
  <2>3. CASE /\ pc' = "cycle"
             /\ UNCHANGED <<cordoned, ours, maint, ready, visited, troubled, memVars,
                            obs, fresh, recordRead, meddled, raced>>
    BY <1>11, <2>1, <2>3 DEF RecordCycle, NodeTyped, MachineTyped, PhaseTyped, FlagsTyped, FailTyped, TickTyped, HistTyped, Step
  <2> QED
    BY <1>11, <2>2, <2>3 DEF RecordCycle
<1>12. ASSUME CyclePower PROVE TypeOK'
  <2>1. MachineTyped' /\ lastCycle' \in Ages(CycleCooldown)
    BY <1>12, AgesFacts DEF CyclePower, Cycle, MachineTyped, Machine, HistTyped
  <2>2. record' \in Ages(CycleCooldown) /\ rearmed' \in BOOLEAN
    BY <1>12 DEF CyclePower, NodeTyped, HistTyped
  <2>3. CASE GiveUp(CycleCooldown, {0}, TRUE)
    BY <2>1, <2>2, <2>3, WaitsTyped, GiveUpTyped
  <2>4. CASE /\ cycled' = TRUE /\ phaseSince' = 0
             /\ EndTick
             /\ UNCHANGED <<cordoned, ours, maint, ready, visited, troubled, phase, booting,
                            coldStart, confirmed, failVars>>
    <3>1. TickTyped' /\ HistTyped'
      BY <2>1, <2>2, <2>4, EndTickTyped DEF HistTyped
    <3>2. phase = "waking"
      BY <1>12 DEF CyclePower, TickTyped
    <3>3. PhaseTyped'
      BY <2>4 DEF PhaseTyped
    <3>4. FlagsTyped'
      BY <2>4, <3>2 DEF FlagsTyped
    <3> QED
      BY <2>1, <2>2, <2>4, <3>1, <3>3, <3>4 DEF NodeTyped, FailTyped
  <2> QED
    BY <1>12, <2>3, <2>4 DEF CyclePower
<1>13. ASSUME MachineMoves \/ WorkStarts PROVE TypeOK'
  <2>1. MachineTyped'
    BY <1>13 DEF MachineMoves, Boots, LocksUp, LosesPower, WorkEnds, WorkStarts, MachineTyped, Machine
  <2>2. raced' \in BOOLEAN
    <3>1. (pc \in {"record", "cycle"}) \in BOOLEAN
      OBVIOUS
    <3> QED
      BY <1>13, <3>1 DEF MachineMoves, WorkStarts, HistTyped
  <2> QED
    BY <1>13, <2>1, <2>2
    DEF MachineMoves, WorkStarts, NodeTyped, PhaseTyped, FlagsTyped, FailTyped, TickTyped, HistTyped
<1>14. ASSUME KubeletReports PROVE TypeOK'
  <2>1. ready' \in BOOLEAN
    <3>1. (mach = "up") \in BOOLEAN
      OBVIOUS
    <3> QED
      BY <1>14, <3>1 DEF KubeletReports
  <2> QED
    BY <1>14, <2>1 DEF KubeletReports, NodeTyped, MachineTyped, PhaseTyped, FlagsTyped, FailTyped, TickTyped,
       HistTyped
<1>15. ASSUME OperatorActs PROVE TypeOK'
  <2>1. cordoned' \in BOOLEAN /\ maint' \in BOOLEAN /\ record' \in Ages(CycleCooldown)
        /\ rearmed' \in BOOLEAN
    BY <1>15, AgesFacts DEF OperatorActs, NodeTyped, HistTyped
  <2> QED
    BY <1>15, <2>1 DEF OperatorActs, NodeTyped, MachineTyped, PhaseTyped, FlagsTyped, FailTyped, TickTyped,
       HistTyped
<1>16. ASSUME Restart PROVE TypeOK'
  <2>1. TickTyped' /\ HistTyped' /\ PhaseTyped' /\ FlagsTyped'
    BY <1>16, EndTickTyped, LeaveForTyped DEF Restart, HistTyped, Phase
  <2>2. FailTyped'
    <3>1. backoff' \in 0 .. LongestBackoff \cup {Never}
      BY <1>16, BackoffFacts DEF Restart
    <3>2. waitedOn' \in Records /\ trouble' \in BOOLEAN
      BY <1>16, RecordsFacts DEF Restart
    <3> QED
      BY <3>1, <3>2 DEF FailTyped
  <2> QED
    BY <1>16, <2>1, <2>2 DEF Restart, NodeTyped, MachineTyped
<1>17. ASSUME TimePasses PROVE TypeOK'
  <2>1. NodeTyped' /\ HistTyped'
    BY <1>17, AgesFacts DEF TimePasses, NodeTyped, HistTyped
  <2>2. PhaseTyped'
    BY <1>17 DEF TimePasses, PhaseTyped
  <2>5. FlagsTyped'
    BY <1>17 DEF TimePasses, FlagsTyped
  <2>3. waitedOn' \in Records
    <3>1. CASE waitedOn = {} \/ backoff' = 0
      BY <1>17, <3>1, RecordsFacts DEF TimePasses
    <3>2. ASSUME NEW r \in Ages(CycleCooldown), waitedOn = {r}, backoff' # 0
          PROVE  waitedOn' \in Records
      <4>1. waitedOn' = {Aged(r, CycleCooldown)}
        BY <1>17, <3>2 DEF TimePasses
      <4> QED
        BY <3>2, <4>1, AgesFacts DEF Records
    <3> QED
      BY <3>1, <3>2 DEF FailTyped, Records
  <2>4. backoff' \in 0 .. LongestBackoff \cup {Never}
    BY <1>17, NeverAssumption, BackoffFacts DEF TimePasses, FailTyped
  <2> QED
    BY <1>17, <2>1, <2>2, <2>3, <2>4, <2>5 DEF TimePasses, MachineTyped, FailTyped, TickTyped
<1>18. CASE UNCHANGED vars
  BY <1>18 DEF vars, NodeTyped, MachineTyped, PhaseTyped, FlagsTyped, FailTyped, TickTyped,
       HistTyped
<1> QED
  BY <1>1, <1>2, <1>3, <1>4, <1>5, <1>6, <1>7, <1>8, <1>9, <1>10, <1>11, <1>12, <1>13,
     <1>14, <1>15, <1>16, <1>17, <1>18
  DEF Next, Controller, Environment

LEMMA InitTyped == Init => TypeOK
<1> SUFFICES ASSUME Init PROVE TypeOK
  OBVIOUS
<1>1. NodeTyped /\ HistTyped
  BY AgesFacts DEF Init, NodeTyped, HistTyped
<1>2. MachineTyped /\ PhaseTyped
  <2>1. mach \in Machine /\ PhaseTyped
    BY DEF Init, PhaseTyped, Machine, Phase
  <2>2. running \in BOOLEAN
    BY DEF Init
  <2> QED
    BY <2>1, <2>2 DEF MachineTyped
<1>3. FlagsTyped
  BY DEF Init, FlagsTyped
<1>4. FailTyped
  <2>1. backoff \in 0 .. LongestBackoff \cup {Never}
    BY BackoffFacts DEF Init
  <2>2. waitedOn \in Records /\ trouble \in BOOLEAN
    BY RecordsFacts DEF Init
  <2> QED
    BY <2>1, <2>2 DEF FailTyped
<1>5. TickTyped
  BY ReadingFacts, RecordsFacts DEF Init, TickTyped, Step
<1> QED
  BY <1>1, <1>2, <1>3, <1>4, <1>5 DEF TypeOK

\* Every behaviour keeps the node, the machine, the ages and the tick in progress
\* in their ranges, and no memory of a wake outlives it.
THEOREM TypeCorrect == Spec => []TypeOK
<1>1. Init => TypeOK
  BY InitTyped
<1>2. TypeOK /\ [Next]_vars => TypeOK'
  BY TypeStep
<1> QED
  BY <1>1, <1>2, PTL DEF Spec

-----------------------------------------------------------------------------
(***************************************************************************)
(* The bound on power cycles.                                              *)
(*                                                                         *)
(* CycleIsOnRecord is not inductive alone: a cycle is on record because    *)
(* the record was written a step earlier (PastBound), and that it came     *)
(* late enough rests on what the second reading, steps ago, still says of  *)
(* the record (RecordAsRead).  Each part is taken through Next in turn.    *)
(***************************************************************************)

\* Everything that ends the tick, but the four ways out of _wake_timed_out()
\* that carry on.
LEMMA TickEnds ==
  ASSUME \/ NothingDecided \/ YieldToOperator \/ BeginWake \/ LeaveToOperator
         \/ ArriveWithoutRoom \/ CompleteWake \/ NotPoweredOn \/ InTime
         \/ TimedOutUndecided \/ TimedOutUnreadable \/ TimedOutOff \/ Refuse
         \/ FinishWake \/ WarmUp
  PROVE  EndTick /\ UNCHANGED <<record, lastCycle, rearmed>>
<1>1. ASSUME NothingDecided \/ YieldToOperator \/ BeginWake \/ LeaveToOperator
      PROVE  EndTick /\ UNCHANGED <<record, lastCycle, rearmed>>
  BY <1>1 DEF NothingDecided, YieldToOperator, BeginWake, LeaveToOperator
<1>2. ASSUME ArriveWithoutRoom \/ CompleteWake \/ InTime \/ FinishWake \/ WarmUp
      PROVE  EndTick /\ UNCHANGED <<record, lastCycle, rearmed>>
  BY <1>2 DEF ArriveWithoutRoom, CompleteWake, InTime, FinishWake, WarmUp
<1>3. ASSUME NotPoweredOn \/ TimedOutUndecided \/ TimedOutUnreadable \/ TimedOutOff
      PROVE  EndTick /\ UNCHANGED <<record, lastCycle, rearmed>>
  BY <1>3 DEF NotPoweredOn, TimedOutUndecided, TimedOutUnreadable, TimedOutOff, GiveUp
<1>4. ASSUME Refuse
      PROVE  EndTick /\ UNCHANGED <<record, lastCycle, rearmed>>
  BY <1>4 DEF Refuse, RefuseAfterCycle, RefuseRecent, RefuseUpdating, RefuseBusy, GiveUp
<1> QED
  BY <1>1, <1>2, <1>3, <1>4

\* A step of Next, by what it does to the tick and to the record.
LEMMA StepKinds ==
  ASSUME [Next]_vars
  PROVE  \/ EndTick /\ UNCHANGED <<record, lastCycle, rearmed>>
         \/ Observe \/ ReadAgain \/ ConfirmPower \/ TimedOutOn \/ Allow
         \/ RecordCycle \/ CyclePower
         \/ MachineMoves \/ WorkStarts \/ KubeletReports
         \/ OperatorActs \/ TimePasses \/ UNCHANGED vars
<1>1. CASE Controller
  BY <1>1, TickEnds DEF Controller
<1>2. CASE Environment
  BY <1>2 DEF Environment, Restart
<1>3. CASE UNCHANGED vars
  BY <1>3
<1> QED
  BY <1>1, <1>2, <1>3 DEF Next

LEMMA AgedGrows ==
  ASSUME NEW b \in Nat, NEW s \in Ages(b), NEW t \in Ages(b),
         s # Never, t # Never, s <= t
  PROVE  /\ Aged(s, b) # Never /\ Aged(t, b) # Never
         /\ Aged(s, b) <= Aged(t, b)
  BY NeverAssumption DEF Ages, Aged

LEMMA CycleOnRecordStep ==
  TypeOK /\ WakeInv /\ [Next]_vars => CycleIsOnRecord'
<1> SUFFICES ASSUME TypeOK, WakeInv, [Next]_vars PROVE CycleIsOnRecord'
  OBVIOUS
<1>1. record \in Ages(CycleCooldown) /\ lastCycle \in Ages(CycleCooldown)
  BY DEF TypeOK, NodeTyped, HistTyped
<1>2. lastCycle # Never /\ ~rearmed => record # Never /\ record <= lastCycle
  BY DEF WakeInv, CycleIsOnRecord
<1>3. CASE UNCHANGED <<record, lastCycle, rearmed>>
  BY <1>2, <1>3 DEF CycleIsOnRecord
<1>4. CASE RecordCycle
  <2>1. PICK o \in Outcomes : /\ record' = IF o = "failed" THEN record ELSE 0
                              /\ rearmed' = (rearmed /\ o = "failed")
                              /\ lastCycle' = lastCycle
    BY <1>4 DEF RecordCycle
  <2>2. CASE o = "failed"
    BY <1>2, <2>1, <2>2 DEF CycleIsOnRecord
  <2>3. CASE o # "failed"
    BY <1>1, <2>1, <2>3, NeverAssumption DEF CycleIsOnRecord, Ages
  <2> QED
    BY <2>2, <2>3
<1>5. CASE CyclePower
  <2>1. UNCHANGED <<record, rearmed>> /\ (lastCycle' = lastCycle \/ lastCycle' = 0)
    BY <1>5 DEF CyclePower, Cycle, machVars
  <2>2. ~rearmed => record = 0
    BY <1>5 DEF CyclePower, WakeInv, PastBound
  <2> QED
    BY <1>2, <2>1, <2>2, NeverAssumption DEF CycleIsOnRecord
<1>6. CASE OperatorActs
  BY <1>2, <1>6 DEF OperatorActs, CycleIsOnRecord
<1>7. CASE TimePasses
  <2>1. /\ record' = Aged(record, CycleCooldown) /\ lastCycle' = Aged(lastCycle, CycleCooldown)
        /\ rearmed' = rearmed
    BY <1>7 DEF TimePasses
  <2>2. lastCycle = Never => lastCycle' = Never
    BY <2>1 DEF Aged
  <2> QED
    BY <1>1, <1>2, <2>1, <2>2, AgedGrows DEF CycleIsOnRecord
<1>8. CASE \/ Observe \/ ReadAgain \/ ConfirmPower \/ TimedOutOn \/ Allow
           \/ MachineMoves \/ WorkStarts \/ KubeletReports \/ UNCHANGED vars
  BY <1>3, <1>8
  DEF Observe, ReadAgain, ConfirmPower, TimedOutOn, Allow, MachineMoves, WorkStarts,
      KubeletReports, vars
<1> QED
  BY <1>3, <1>4, <1>5, <1>6, <1>7, <1>8, StepKinds

\* The other parts: what the tick has read, and what it may conclude from it.
LEMMA ReadingStep ==
  TypeOK /\ WakeInv /\ [Next]_vars =>
    NothingReadYet' /\ RecordAsRead' /\ PastBound' /\ WorkAsAsked'
<1> SUFFICES ASSUME TypeOK, WakeInv, [Next]_vars
             PROVE  NothingReadYet' /\ RecordAsRead' /\ PastBound' /\ WorkAsAsked'
  OBVIOUS
<1> USE DEF WakeInv
<1>1. CASE EndTick
  BY <1>1 DEF EndTick, NothingReadYet, RecordAsRead, PastBound, WorkAsAsked
<1>2. CASE Observe
  BY <1>2 DEF Observe, NothingReadYet, RecordAsRead, PastBound, WorkAsAsked
<1>3. CASE ReadAgain
  <2>1. recordRead' = {record} \/ recordRead' = {}
    BY <1>3 DEF ReadAgain, NothingReadYet
  <2> QED
    BY <1>3, <2>1 DEF ReadAgain, NothingReadYet, RecordAsRead, PastBound, WorkAsAsked
<1>4. CASE ConfirmPower \/ TimedOutOn
  <2>1. /\ pc \in {"step", "timeout"} /\ pc' \in {"timeout", "refuse"}
        /\ pc' = "refuse" => recordRead # {}
        /\ UNCHANGED <<record, rearmed, recordRead>>
    BY <1>4 DEF ConfirmPower, TimedOutOn
  <2>2. NothingReadYet' /\ RecordAsRead'
    BY <2>1 DEF NothingReadYet, RecordAsRead
  <2>3. PastBound' /\ WorkAsAsked'
    BY <2>1 DEF PastBound, WorkAsAsked
  <2> QED
    BY <2>2, <2>3
<1>5. CASE Allow
  <2>1. ~running
    BY <1>5 DEF Allow, SeesNoWork
  <2> QED
    BY <1>5, <2>1
    DEF Allow, RecentlyCycled, NothingReadYet, RecordAsRead, PastBound, WorkAsAsked
<1>6. CASE RecordCycle
  <2>1. ASSUME NEW o \in Outcomes, OnRecord(o), pc' = "cycle", record' = 0,
               UNCHANGED <<running, raced>>
        PROVE  NothingReadYet' /\ RecordAsRead' /\ PastBound' /\ WorkAsAsked'
    BY <1>6, <2>1 DEF RecordCycle, NothingReadYet, RecordAsRead, PastBound, WorkAsAsked
  <2> QED
    BY <1>1, <1>6, <2>1 DEF RecordCycle, OnRecord, GiveUp
<1>7. CASE CyclePower
  BY <1>1, <1>7 DEF CyclePower, GiveUp
<1>8. CASE MachineMoves
  <2>1. running' => running
    BY <1>8 DEF MachineMoves, Boots, LocksUp, LosesPower, WorkEnds
  <2> QED
    BY <1>8, <2>1
    DEF MachineMoves, RecentlyCycled, NothingReadYet, RecordAsRead, PastBound, WorkAsAsked
<1>9. CASE WorkStarts
  BY <1>9 DEF WorkStarts, RecentlyCycled, NothingReadYet, RecordAsRead, PastBound, WorkAsAsked
<1>10. CASE KubeletReports \/ UNCHANGED vars
  <2>1. UNCHANGED <<pc, record, rearmed, recordRead, running, raced>>
    BY <1>10 DEF KubeletReports, vars
  <2>2. NothingReadYet' /\ RecordAsRead'
    BY <2>1 DEF NothingReadYet, RecordAsRead
  <2>3. PastBound' /\ WorkAsAsked'
    BY <2>1 DEF RecentlyCycled, PastBound, WorkAsAsked
  <2> QED
    BY <2>2, <2>3
<1>11. CASE OperatorActs
  <2>1. UNCHANGED <<record, rearmed>> \/ (record' = Never /\ rearmed')
    BY <1>11 DEF OperatorActs
  <2> QED
    BY <1>11, <2>1
    DEF OperatorActs, RecentlyCycled, NothingReadYet, RecordAsRead, PastBound, WorkAsAsked
<1>12. CASE TimePasses
  BY <1>12 DEF TimePasses, NothingReadYet, RecordAsRead, PastBound, WorkAsAsked
<1> QED
  BY <1>1, <1>2, <1>3, <1>4, <1>5, <1>6, <1>7, <1>8, <1>9, <1>10, <1>11, <1>12, StepKinds

LEMMA AsLastReadStep ==
  TypeOK /\ WakeInv /\ [Next]_vars => AsLastRead'
<1> SUFFICES ASSUME TypeOK, WakeInv, [Next]_vars PROVE AsLastRead'
  OBVIOUS
<1> USE DEF WakeInv
<1>1. CASE EndTick
  BY <1>1 DEF EndTick, NoReading, AsLastRead
<1>2. CASE Observe
  BY <1>2 DEF Observe, NothingReadYet, NodeNow, Taken, Held, AsLastRead
<1>3. CASE ReadAgain
  <2>1. CASE recordRead' = {record} /\ fresh' = NodeNow
    BY <1>3, <2>1 DEF ReadAgain, NodeNow, TakenSince, Taken, Held, AsLastRead
  <2>2. CASE recordRead' = {} /\ UNCHANGED fresh
    BY <1>3, <2>2 DEF ReadAgain, NothingReadYet, AsLastRead
  <2> QED
    BY <1>3, <2>1, <2>2 DEF ReadAgain, NothingReadYet
<1>4. CASE ConfirmPower \/ TimedOutOn \/ Allow \/ TimePasses
  <2>1. /\ UNCHANGED <<cordoned, ours, maint, ready, obs, fresh, recordRead, meddled>>
        /\ pc' # "decide"
        /\ pc' \in {"refuse", "record", "cycle"} => recordRead # {} /\ ~TakenSince
    BY <1>4 DEF ConfirmPower, TimedOutOn, Allow, TimePasses, AsLastRead
  <2> QED
    BY <2>1 DEF TakenSince, NodeNow, Taken, Held, AsLastRead
<1>5. CASE RecordCycle
  <2>1. CASE pc' = "cycle" /\ UNCHANGED <<cordoned, ours, maint, obs, fresh, recordRead, meddled>>
    BY <1>5, <2>1 DEF RecordCycle, TakenSince, NodeNow, Taken, Held, AsLastRead
  <2> QED
    BY <1>1, <1>5, <2>1 DEF RecordCycle, GiveUp
<1>6. CASE CyclePower
  BY <1>1, <1>6 DEF CyclePower, GiveUp
<1>7. CASE MachineMoves \/ WorkStarts \/ KubeletReports \/ UNCHANGED vars
  <2>1. UNCHANGED <<cordoned, ours, maint, pc, obs, fresh, recordRead, meddled>>
    BY <1>7 DEF MachineMoves, WorkStarts, KubeletReports, vars
  <2> QED
    BY <2>1 DEF TakenSince, NodeNow, Taken, Held, AsLastRead
<1>8. CASE OperatorActs
  BY <1>8 DEF OperatorActs, TakenSince, Taken, Held, AsLastRead
<1> QED
  BY <1>1, <1>2, <1>3, <1>4, <1>5, <1>6, <1>7, <1>8, StepKinds

\* What a reading is still good for at each step of a wake, after whatever happened
\* since: the invariant all the safety theorems below rest on.
THEOREM WakeInvariant == Spec => []Inv
<1>1. Init => TypeOK /\ WakeInv
  BY InitTyped
  DEF Init, WakeInv, CycleIsOnRecord, NothingReadYet, RecordAsRead, PastBound, WorkAsAsked,
      AsLastRead, NoReading
<1>2. TypeOK /\ WakeInv /\ [Next]_vars => (TypeOK /\ WakeInv)'
  BY TypeStep, CycleOnRecordStep, ReadingStep, AsLastReadStep DEF WakeInv
<1> QED
  BY <1>1, <1>2, PTL DEF Spec, Inv

\* Whatever calls fail and whatever process asks, a cycle that happened is on
\* record on the node, no younger than it was, unless an operator deleted it.
THEOREM CyclesAreRecorded == Spec => []CycleIsOnRecord
<1>1. TypeOK /\ WakeInv => CycleIsOnRecord
  BY DEF WakeInv
<1> QED
  BY <1>1, WakeInvariant, PTL DEF Inv

\* Power is cut at most once per cooldown, across wakes and restarts, for every
\* cooldown and timeout, unless an operator deleted the record of the last cycle.
THEOREM CyclesAreApart == Spec => []OneCyclePerCooldown
<1>1. TypeOK /\ WakeInv => OneCyclePerCooldown
  <2> SUFFICES ASSUME TypeOK, WakeInv, pc = "record", lastCycle # Never, ~rearmed
               PROVE  lastCycle >= CycleCooldown
    BY DEF OneCyclePerCooldown
  <2>1. PICK r : r \in recordRead
    BY DEF WakeInv, PastBound
  <2>2. r = record
    BY <2>1 DEF WakeInv, RecordAsRead
  <2>3. record # Never /\ record <= lastCycle
    BY DEF WakeInv, CycleIsOnRecord
  <2>4. ~(record < CycleCooldown)
    BY <2>1, <2>2, <2>3 DEF WakeInv, PastBound, RecentlyCycled
  <2>5. record \in Nat /\ lastCycle \in Nat
    BY <2>3 DEF TypeOK, NodeTyped, HistTyped, Ages
  <2> QED
    BY <2>3, <2>4, <2>5
<1> QED
  BY <1>1, WakeInvariant, PTL DEF Inv

\* Power is never cut under work the queue could have been seen to run: whatever
\* runs on a node about to be cycled landed there after the queue was asked.
THEOREM WorkIsSpared == Spec => []SeenWorkSpared
<1>1. TypeOK /\ WakeInv => SeenWorkSpared
  BY DEF WakeInv, WorkAsAsked, SeenWorkSpared
<1> QED
  BY <1>1, WakeInvariant, PTL DEF Inv

\* What a person holds or asks for, by the latest reading of the node, is neither
\* uncordoned nor cycled by the steps that follow that reading.
THEOREM TakenIsLeftAlone == Spec => TakenNodeLeftAlone
<1>1. TypeOK /\ WakeInv /\ [Next]_vars =>
        [Taken(NodeNow) /\ ~meddled /\ ~meddled' => UNCHANGED cordoned /\ pc # "cycle"]_vars
  <2> SUFFICES ASSUME WakeInv, [Next]_vars, Taken(NodeNow), ~meddled, ~meddled'
               PROVE  UNCHANGED cordoned /\ pc # "cycle"
    OBVIOUS
  <2> USE DEF WakeInv, AsLastRead
  <2>1. pc # "cycle"
    OBVIOUS
  <2>2. ~CompleteWake
    BY DEF CompleteWake
  <2>3. ~FinishWake
    BY DEF FinishWake, Taken, Held
  <2>4. ~OperatorActs
    BY DEF OperatorActs
  <2>5. CASE GiveUp(WakeTimeout, recordRead, TRUE)
    BY <2>5 DEF GiveUp
  <2>6. CASE Refuse
    BY <2>6 DEF Refuse, RefuseAfterCycle, RefuseRecent, RefuseUpdating, RefuseBusy, GiveUp
  <2>7. CASE \/ Observe \/ NothingDecided \/ YieldToOperator \/ BeginWake \/ ReadAgain
             \/ LeaveToOperator \/ ArriveWithoutRoom
    BY <2>7 DEF Observe, NothingDecided, YieldToOperator, BeginWake, ReadAgain,
                LeaveToOperator, ArriveWithoutRoom
  <2>8. CASE \/ NotPoweredOn \/ ConfirmPower \/ InTime \/ TimedOutUndecided
             \/ TimedOutUnreadable \/ TimedOutOff \/ TimedOutOn \/ Allow \/ RecordCycle \/ WarmUp
    BY <2>5, <2>8 DEF NotPoweredOn, ConfirmPower, InTime, TimedOutUndecided, TimedOutUnreadable,
                TimedOutOff, TimedOutOn, Allow, RecordCycle, WarmUp, GiveUp
  <2>9. CASE CyclePower
    BY <2>1, <2>9 DEF CyclePower
  <2>10. CASE \/ MachineMoves \/ WorkStarts \/ KubeletReports \/ Restart \/ TimePasses
              \/ UNCHANGED vars
    BY <2>10 DEF MachineMoves, WorkStarts, KubeletReports, Restart, TimePasses, vars
  <2> QED
    BY <2>1, <2>2, <2>3, <2>4, <2>6, <2>7, <2>8, <2>9, <2>10 DEF Next, Controller, Environment
<1> QED
  BY <1>1, WakeInvariant, PTL DEF Spec, Inv, TakenNodeLeftAlone
=============================================================================
