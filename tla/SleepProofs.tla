---------------------------- MODULE SleepProofs ----------------------------
(***************************************************************************)
(* Theorems about Sleep, for every number of units and every bound, with   *)
(* every actor and every outcome of a call.                                *)
(***************************************************************************)
EXTENDS Sleep, TLAPS

USE BoundsAssumption DEF nodeVars, shedVars, machVars, memVars, tickVars, histVars

(***************************************************************************)
(* Type correctness: first the writes the actions are built from.          *)
(***************************************************************************)

LEMMA AgesFacts ==
  ASSUME NEW b \in Nat
  PROVE  /\ 0 \in Ages(b) /\ Never \in Ages(b)
         /\ \A t \in Ages(b) : Aged(t, b) \in Ages(b)
  BY NeverAssumption DEF Ages, Aged

LEMMA WriteCordonTyped ==
  ASSUME NodeTyped, NEW c \in BOOLEAN, NEW o, WriteCordon(c, o)
  PROVE  cordoned' \in BOOLEAN /\ mark' \in Ages(DrainTimeout)
  BY AgesFacts DEF NodeTyped, WriteCordon

LEMMA NoteClearedTyped ==
  ASSUME NodeTyped, NEW o, NEW v \in {0, Never}, TryNoteShutdown(v, o)
  PROVE  shutdown' \in Ages(ShutdownTimeout)
  BY AgesFacts DEF NodeTyped, TryNoteShutdown

LEMMA ForgetShedTyped ==
  ASSUME ShedTyped, NEW o, ForgetShed(o)
  PROVE  ShedTyped'
  BY AgesFacts DEF ShedTyped, ForgetShed

LEMMA UncordonTyped ==
  ASSUME NodeTyped, ShedTyped, Uncordon
  PROVE  cordoned' \in BOOLEAN /\ mark' \in Ages(DrainTimeout) /\ ShedTyped'
  BY WriteCordonTyped, ForgetShedTyped DEF Uncordon, ShedTyped

LEMMA LeavePhaseTyped == LeavePhase => PhaseTyped'
  BY DEF LeavePhase, PhaseTyped, Phase

LEMMA EndTickTyped ==
  ASSUME HistTyped, EndTick
  PROVE  TickTyped' /\ HistTyped'
  BY DEF EndTick, TickTyped, HistTyped, NoObs, Step

LEMMA AbandonSleepTyped ==
  ASSUME NodeTyped, ShedTyped, AbandonSleep
  PROVE  NodeTyped' /\ ShedTyped' /\ PhaseTyped' /\ CountsTyped'
<1>1. PhaseTyped'
  BY LeavePhaseTyped DEF AbandonSleep
<1>2. CountsTyped'
  BY DEF AbandonSleep, CountsTyped
<1>3. NodeTyped' /\ ShedTyped'
  BY UncordonTyped DEF AbandonSleep, NodeTyped
<1> QED
  BY <1>1, <1>2, <1>3

LEMMA StartSleepTyped ==
  ASSUME NodeTyped, PhaseTyped, CountsTyped, NEW shedding, StartSleep(shedding)
  PROVE  NodeTyped' /\ PhaseTyped' /\ CountsTyped'
<1>1. CountsTyped'
  BY DEF StartSleep, CountsTyped
<1>2. PICK o, p :
        /\ IF NeedsCordon THEN WriteCordon(TRUE, o) ELSE UNCHANGED <<cordoned, mark>>
        /\ IF o = "done"
           THEN /\ phase' = "sleeping" /\ phaseSince' = 0
                /\ IF shutdown = Never THEN UNCHANGED shutdown
                                       ELSE TryNoteShutdown(Never, p)
           ELSE UNCHANGED <<phase, phaseSince, shutdown>>
  BY DEF StartSleep
<1>3. cordoned' \in BOOLEAN /\ mark' \in Ages(DrainTimeout)
  BY <1>2, WriteCordonTyped DEF NodeTyped
<1>4. shutdown' \in Ages(ShutdownTimeout)
  BY <1>2, NoteClearedTyped DEF NodeTyped
<1>5. NodeTyped'
  BY <1>3, <1>4 DEF NodeTyped, StartSleep
<1>6. PhaseTyped'
  BY <1>2 DEF PhaseTyped, Phase
<1> QED
  BY <1>1, <1>5, <1>6

LEMMA BeginSleepTyped == TypeOK /\ BeginSleep => TypeOK'
<1> SUFFICES ASSUME TypeOK, BeginSleep PROVE TypeOK'
  OBVIOUS
<1>1. TickTyped' /\ HistTyped'
  BY EndTickTyped DEF TypeOK, BeginSleep
<1>2. MachineTyped'
  BY DEF TypeOK, MachineTyped, BeginSleep
<1>3. CASE AbandonSleep
  BY <1>1, <1>2, <1>3, AbandonSleepTyped DEF TypeOK
<1>4. CASE StartSleep(Shed) /\ UNCHANGED shedVars
  BY <1>1, <1>2, <1>4, StartSleepTyped DEF TypeOK, ShedTyped
<1> QED
  BY <1>3, <1>4 DEF BeginSleep

\* One step of any process keeps the types.
LEMMA TypeStep == TypeOK /\ [Next]_vars => TypeOK'
<1> SUFFICES ASSUME TypeOK, [Next]_vars PROVE TypeOK'
  OBVIOUS
<1> USE DEF TypeOK
<1>1. ASSUME Observe PROVE TypeOK'
  <2>1. PICK o : mark' = IF mark # Never /\ ~cordoned /\ o # "failed" THEN Never ELSE mark
    BY <1>1 DEF Observe
  <2>2. shutdown' \in Ages(ShutdownTimeout)
    BY <1>1, NoteClearedTyped DEF Observe, NodeTyped
  <2>3. NodeTyped' /\ ShedTyped' /\ MachineTyped' /\ CountsTyped' /\ HistTyped'
    BY <1>1, <2>1, <2>2, AgesFacts
    DEF Observe, NodeTyped, ShedTyped, MachineTyped, CountsTyped, HistTyped
  <2>4. PhaseTyped'
    BY <1>1, NeverAssumption DEF Observe, ShutdownInterrupted, HeldByUs, NodeTyped, PhaseTyped, Phase, Ages
  <2>5. TickTyped'
    BY <1>1 DEF Observe, TickTyped, Step, NodeTyped, HeldByUs
  <2> QED
    BY <2>3, <2>4, <2>5
<1>2. ASSUME CeilingKeeps \/ CeilingForgets \/ CeilingTakesDrain PROVE TypeOK'
  <2>1. ShedTyped'
    BY <1>2, AgesFacts, ForgetShedTyped
    DEF CeilingKeeps, CeilingForgets, CeilingTakesDrain, ShedTyped, Shed
  <2> QED
    BY <1>2, <2>1 DEF CeilingKeeps, CeilingForgets, CeilingTakesDrain,
       NodeTyped, MachineTyped, PhaseTyped, CountsTyped, TickTyped, HistTyped, Step
<1>3. ASSUME CeilingSheds PROVE TypeOK'
  <2>1. NodeTyped' /\ PhaseTyped' /\ CountsTyped'
    BY <1>3, StartSleepTyped DEF CeilingSheds
  <2>2. ShedTyped'
    BY <1>3, AgesFacts DEF CeilingSheds, ShedTyped
  <2>3. MachineTyped'
    BY <1>3 DEF CeilingSheds, MachineTyped
  <2>4. TickTyped' /\ HistTyped'
    BY <1>3, EndTickTyped DEF CeilingSheds, TickTyped, HistTyped, Step
  <2> QED
    BY <2>1, <2>2, <2>3, <2>4
<1>4. ASSUME YieldToOperator \/ NothingDecided \/ DrainUncordoned \/ WaitOnWork PROVE TypeOK'
  <2>1. TickTyped' /\ HistTyped'
    BY <1>4, EndTickTyped DEF YieldToOperator, NothingDecided, DrainUncordoned, WaitOnWork
  <2>2. PhaseTyped'
    BY <1>4, LeavePhaseTyped
    DEF YieldToOperator, NothingDecided, DrainUncordoned, WaitOnWork, PhaseTyped
  <2>3. NodeTyped' /\ ShedTyped' /\ MachineTyped' /\ CountsTyped'
    BY <1>4 DEF YieldToOperator, NothingDecided, DrainUncordoned, WaitOnWork,
       NodeTyped, ShedTyped, MachineTyped, CountsTyped
  <2> QED
    BY <2>1, <2>2, <2>3
<1>5. ASSUME RescueDrain \/ FinishWake PROVE TypeOK'
  <2>1. TickTyped' /\ HistTyped'
    BY <1>5, EndTickTyped DEF RescueDrain, FinishWake
  <2>2. PhaseTyped'
    BY <1>5, LeavePhaseTyped DEF RescueDrain, FinishWake, PhaseTyped
  <2>3. NodeTyped' /\ ShedTyped'
    BY <1>5, UncordonTyped DEF RescueDrain, FinishWake, NodeTyped
  <2>4. MachineTyped' /\ CountsTyped'
    BY <1>5 DEF RescueDrain, FinishWake, MachineTyped, CountsTyped
  <2> QED
    BY <2>1, <2>2, <2>3, <2>4
<1>6. ASSUME DrainTimedOut PROVE TypeOK'
  <2>1. MachineTyped' /\ TickTyped' /\ HistTyped'
    BY <1>6, EndTickTyped DEF DrainTimedOut, MachineTyped
  <2> QED
    BY <1>6, <2>1, AbandonSleepTyped DEF DrainTimedOut
<1>7. ASSUME NothingBusy PROVE TypeOK'
  <2>1. TickTyped'
    BY <1>7 DEF NothingBusy, TickTyped, Step, Overdue, Shed
  <2> QED
    BY <1>7, <2>1 DEF NothingBusy, NodeTyped, ShedTyped, MachineTyped, PhaseTyped, CountsTyped, HistTyped
<1>8. ASSUME ListIdle \/ CheckResidual \/ Announce PROVE TypeOK'
  <2>1. TickTyped' /\ HistTyped'
    BY <1>8, EndTickTyped DEF ListIdle, CheckResidual, Announce, TickTyped, HistTyped, Step
  <2> QED
    BY <1>8, <2>1 DEF ListIdle, CheckResidual, Announce,
       NodeTyped, ShedTyped, MachineTyped, PhaseTyped, CountsTyped
<1>9. ASSUME NEW u \in Units, CheckUnit(u) \/ ReleaseUnit(u) PROVE TypeOK'
  <2>1. NextUnit(u) => TickTyped' /\ HistTyped'
    BY <1>9 DEF NextUnit, TickTyped, HistTyped, Step
  <2>2. TickTyped' /\ HistTyped'
    BY <1>9, <2>1, EndTickTyped DEF CheckUnit, ReleaseUnit, TickTyped, HistTyped, Step
  <2>3. MachineTyped'
    BY <1>9 DEF CheckUnit, ReleaseUnit, MachineTyped, UnitState
  <2> QED
    BY <1>9, <2>2, <2>3 DEF CheckUnit, ReleaseUnit, NodeTyped, ShedTyped, PhaseTyped, CountsTyped
<1>10. ASSUME NoteShutdown PROVE TypeOK'
  <2>1. shutdown' \in Ages(ShutdownTimeout)
    BY <1>10, NoteClearedTyped DEF NoteShutdown
  <2>2. TickTyped'
    BY <1>10 DEF NoteShutdown, TickTyped, Step
  <2> QED
    BY <1>10, <2>1, <2>2
    DEF NoteShutdown, NodeTyped, ShedTyped, MachineTyped, PhaseTyped, CountsTyped, HistTyped
<1>11. ASSUME SoftOff PROVE TypeOK'
  <2>1. PhaseTyped'
    BY <1>11 DEF SoftOff, PhaseTyped, Phase
  <2>2. MachineTyped'
    BY <1>11 DEF SoftOff, Obeys, MachineTyped, Machine
  <2>3. TickTyped'
    BY <1>11 DEF SoftOff, TickTyped, Step, NoObs
  <2>4. HistTyped'
    <3>1. asked' \in Ages(ShutdownTimeout)
      BY <1>11, AgesFacts DEF SoftOff, HistTyped, NodeTyped
    <3>2. unheard' \in BOOLEAN
      BY <1>11 DEF SoftOff, HistTyped
    <3> QED
      BY <1>11, <3>1, <3>2 DEF SoftOff, HistTyped
  <2> QED
    BY <1>11, <2>1, <2>2, <2>3, <2>4 DEF SoftOff, NodeTyped, ShedTyped, CountsTyped
<1>12. ASSUME ConfirmOff PROVE TypeOK'
  <2>1. TickTyped' /\ HistTyped'
    BY <1>12, EndTickTyped DEF ConfirmOff
  <2>2. shutdown' \in Ages(ShutdownTimeout)
    BY <1>12, NoteClearedTyped DEF ConfirmOff, NodeTyped
  <2>3. NodeTyped'
    BY <1>12, <2>2 DEF ConfirmOff, NodeTyped
  <2>4. PhaseTyped'
    BY <1>12, LeavePhaseTyped DEF ConfirmOff, PhaseTyped
  <2>5. CountsTyped'
    BY <1>12 DEF ConfirmOff, AttemptsLeft, CountsTyped
  <2> QED
    BY <1>12, <2>1, <2>3, <2>4, <2>5 DEF ConfirmOff, ShedTyped, MachineTyped
<1>13. ASSUME FinishSleep \/ ChooseToSleep PROVE TypeOK'
  BY <1>13, BeginSleepTyped DEF FinishSleep, ChooseToSleep
<1>14. ASSUME NEW u \in Units, Arrive(u) \/ Dispatch(u) \/ Depart(u) PROVE TypeOK'
  <2>1. MachineTyped'
    BY <1>14 DEF Arrive, Dispatch, Depart, MachineTyped, UnitState
  <2>2. HistTyped'
    <3>1. raced' \in BOOLEAN
      BY <1>14 DEF Arrive, Dispatch, Depart, HistTyped
    <3> QED
      BY <1>14, <3>1 DEF Arrive, Dispatch, Depart, HistTyped
  <2> QED
    BY <1>14, <2>1, <2>2 DEF Arrive, Dispatch, Depart,
       NodeTyped, ShedTyped, PhaseTyped, CountsTyped, TickTyped
<1>15. ASSUME PowersOff \/ Wedges \/ KubeletReports PROVE TypeOK'
  <2>1. MachineTyped'
    BY <1>15 DEF PowersOff, Wedges, KubeletReports, MachineTyped, UnitState, Machine
  <2>2. ready' \in BOOLEAN
    BY <1>15 DEF PowersOff, Wedges, KubeletReports, NodeTyped
  <2> QED
    BY <1>15, <2>1, <2>2 DEF PowersOff, Wedges, KubeletReports,
       NodeTyped, ShedTyped, PhaseTyped, CountsTyped, TickTyped, HistTyped
<1>16. ASSUME Operator PROVE TypeOK'
  <2> USE DEF Operator, OperatorCordons, OperatorUncordons, OperatorAsksOrReturns, OperatorPowersOn
  <2>1. MachineTyped'
    BY <1>16 DEF MachineTyped, UnitState, Machine
  <2>2. HistTyped'
    BY <1>16, AgesFacts DEF Meddle, HistTyped
  <2> QED
    BY <1>16, <2>1, <2>2 DEF NodeTyped, ShedTyped, PhaseTyped, CountsTyped, TickTyped
<1>17. ASSUME Restart PROVE TypeOK'
  <2>1. TickTyped' /\ HistTyped'
    BY <1>17, EndTickTyped DEF Restart
  <2>2. ShedTyped'
    BY <1>17, AgesFacts DEF Restart, ShedTyped
  <2>3. PhaseTyped'
    BY <1>17, LeavePhaseTyped DEF Restart
  <2> QED
    BY <1>17, <2>1, <2>2, <2>3 DEF Restart, NodeTyped, MachineTyped, CountsTyped
<1>18. ASSUME TimePasses PROVE TypeOK'
  <2>1. NodeTyped' /\ ShedTyped' /\ HistTyped'
    BY <1>18, AgesFacts DEF TimePasses, NodeTyped, ShedTyped, HistTyped
  <2>2. PhaseTyped'
    BY <1>18, NeverAssumption DEF TimePasses, Aged, PhaseTyped, Phase
  <2>3. CountsTyped'
    BY <1>18 DEF TimePasses, CountsTyped
  <2> QED
    BY <1>18, <2>1, <2>2, <2>3 DEF TimePasses, MachineTyped, TickTyped
<1>19. CASE UNCHANGED vars
  BY <1>19 DEF vars, NodeTyped, ShedTyped, MachineTyped, PhaseTyped, CountsTyped, TickTyped, HistTyped
<1> QED
  BY <1>1, <1>2, <1>3, <1>4, <1>5, <1>6, <1>7, <1>8, <1>9, <1>10, <1>11, <1>12, <1>13,
     <1>14, <1>15, <1>16, <1>17, <1>18, <1>19
  DEF Next, Controller, Environment

LEMMA InitTyped == Init => TypeOK
<1> SUFFICES ASSUME Init PROVE TypeOK
  OBVIOUS
<1>1. NodeTyped /\ ShedTyped /\ HistTyped
  BY AgesFacts DEF Init, NodeTyped, ShedTyped, HistTyped
<1>2. MachineTyped
  BY DEF Init, MachineTyped, UnitState, Machine
<1>3. PhaseTyped /\ CountsTyped
  BY DEF Init, PhaseTyped, CountsTyped, Phase
<1>4. TickTyped
  BY DEF Init, TickTyped, Step, NoObs
<1> QED
  BY <1>1, <1>2, <1>3, <1>4 DEF TypeOK

\* Every behaviour keeps the node, the clocks and the tick in progress in
\* their ranges: an age never leaves the interval its bound gives it.
THEOREM TypeCorrect == Spec => []TypeOK
<1>1. Init => TypeOK
  BY InitTyped
<1>2. TypeOK /\ [Next]_vars => TypeOK'
  BY TypeStep
<1> QED
  BY <1>1, <1>2, PTL DEF Spec

-----------------------------------------------------------------------------
(***************************************************************************)
(* What is known at each step of a tick.  Most actions end the tick, and   *)
(* then nothing is left to know.                                           *)
(***************************************************************************)

LEMMA EndTickClears == EndTick => TickInv'
  BY DEF EndTick, TickInv, TracksNode, DrainsOurs, NothingRemains, ForceIsDue, CheckedIdle,
     Deep, Last

\* The steps of the controller that go on with the tick.
LEMMA TickGoesOn ==
  ASSUME TypeOK, TickInv,
         \/ Observe \/ CeilingKeeps \/ CeilingForgets \/ CeilingTakesDrain \/ CeilingSheds
         \/ NothingBusy \/ ListIdle \/ CheckResidual \/ Announce \/ NoteShutdown \/ SoftOff
  PROVE  TickInv'
<1> USE DEF TickInv, TypeOK
<1>1. CASE Observe
  <2>1. TracksNode'
    BY <1>1 DEF Observe, TracksNode, AsSeen, HeldByUs, SeenHeld, SeenOurs, NodeTyped
  <2> QED
    BY <1>1, <2>1 DEF Observe, DrainsOurs, NothingRemains, ForceIsDue, CheckedIdle, Deep, Last
<1>2. CASE CeilingKeeps \/ CeilingForgets \/ CeilingTakesDrain
  <2>1. TracksNode'
    BY <1>2 DEF CeilingKeeps, CeilingForgets, CeilingTakesDrain,
       TracksNode, AsSeen, HeldByUs, SeenHeld, SeenOurs
  <2> QED
    BY <1>2, <2>1 DEF CeilingKeeps, CeilingForgets, CeilingTakesDrain,
       DrainsOurs, NothingRemains, ForceIsDue, CheckedIdle, Deep, Last
<1>3. CASE CeilingSheds
  <2>1. CASE EndTick
    BY <2>1, EndTickClears
  <2>2. CASE pc' = "decide" /\ phase' # "sleeping" /\ UNCHANGED <<obs, todo, target, forced, histVars>>
    <3>1. phase' = "none"
      BY <1>3, <2>2 DEF CeilingSheds, StartSleep
    <3>2. TracksNode'
      BY <1>3, <2>2, <3>1, NeverAssumption DEF CeilingSheds, StartSleep, NeedsCordon, WriteCordon,
         TracksNode, AsSeen, HeldByUs, SeenHeld, SeenOurs
    <3> QED
      BY <1>3, <2>2, <3>2 DEF CeilingSheds, DrainsOurs, NothingRemains, ForceIsDue,
         CheckedIdle, Deep, Last
  <2> QED
    BY <1>3, <2>1, <2>2 DEF CeilingSheds
<1>4. CASE NothingBusy
  <2>1. TracksNode'
    BY <1>4 DEF NothingBusy, Draining, TracksNode, AsSeen, HeldByUs, SeenHeld, SeenOurs
  <2>2. DrainsOurs'
    BY <1>4 DEF NothingBusy, Draining, Yields, SeenHeld, SeenOurs, DrainsOurs
  <2> QED
    BY <1>4, <2>1, <2>2 DEF NothingBusy, Draining, Overdue, Shed, NothingRemains, ForceIsDue,
       CheckedIdle, Deep, Last
<1>5. CASE ListIdle \/ CheckResidual \/ Announce
  <2>1. CASE EndTick
    BY <2>1, EndTickClears
  <2>2. CASE ~EndTick
    <3>1. TracksNode'
      BY <1>5, <2>2 DEF ListIdle, CheckResidual, Announce, TracksNode, AsSeen, HeldByUs,
         SeenHeld, SeenOurs
    <3>2. DrainsOurs'
      BY <1>5, <2>2 DEF ListIdle, CheckResidual, Announce, DrainsOurs, SeenOurs, Deep
    <3>3. NothingRemains'
      BY <1>5, <2>2 DEF ListIdle, CheckResidual, Announce, NothingRemains, NothingLeft, Last
    <3>4. ForceIsDue' /\ CheckedIdle'
      BY <1>5, <2>2 DEF ListIdle, CheckResidual, Announce, ForceIsDue, CheckedIdle, Shed, Deep
    <3> QED
      BY <3>1, <3>2, <3>3, <3>4
  <2> QED
    BY <2>1, <2>2
<1>6. CASE NoteShutdown
  BY <1>6 DEF NoteShutdown, TracksNode, AsSeen, HeldByUs, SeenHeld, SeenOurs, DrainsOurs,
     NothingRemains, ForceIsDue, CheckedIdle, Shed, Deep, Last
<1>7. CASE SoftOff
  BY <1>7 DEF SoftOff, TracksNode, DrainsOurs, NothingRemains, ForceIsDue, CheckedIdle, Deep, Last
<1> QED
  BY <1>1, <1>2, <1>3, <1>4, <1>5, <1>6, <1>7

\* One listed unit checked or released.
LEMMA TickDealsWithUnit ==
  ASSUME TypeOK, TickInv, NEW u \in Units, CheckUnit(u) \/ ReleaseUnit(u)
  PROVE  TickInv'
<1> USE DEF TickInv, TypeOK
<1>1. CASE EndTick
  BY <1>1, EndTickClears
<1>2. CASE ~EndTick
  <2>1. TracksNode'
    BY <1>2 DEF CheckUnit, ReleaseUnit, NextUnit, TracksNode, AsSeen, HeldByUs, SeenHeld, SeenOurs
  <2>2. DrainsOurs'
    BY <1>2 DEF CheckUnit, ReleaseUnit, NextUnit, DrainsOurs, SeenOurs, Deep
  <2>3. NothingRemains'
    BY <1>2 DEF CheckUnit, ReleaseUnit, NextUnit, NothingRemains, Last
  <2>4. ForceIsDue'
    BY <1>2 DEF CheckUnit, ReleaseUnit, NextUnit, ForceIsDue, Shed, Deep
  <2>5. CheckedIdle'
    BY <1>2 DEF CheckUnit, ReleaseUnit, NextUnit, CheckedIdle, ReadsIdle
  <2> QED
    BY <2>1, <2>2, <2>3, <2>4, <2>5
<1> QED
  BY <1>1, <1>2

\* Everything else that happens while a tick is in progress.
LEMMA TickUndisturbed ==
  ASSUME TypeOK, TickInv,
         \/ \E u \in Units : Arrive(u) \/ Dispatch(u) \/ Depart(u)
         \/ PowersOff \/ Wedges \/ KubeletReports \/ Operator
         \/ UNCHANGED vars
  PROVE  TickInv'
<1> USE DEF TickInv, TypeOK, Operator
<1>1. TracksNode'
  <2>1. CASE Operator
    <3>1. pc' = pc /\ (meddled' <=> pc # "between")
      BY <2>1 DEF OperatorCordons, OperatorUncordons, OperatorAsksOrReturns, OperatorPowersOn, Meddle
    <3> QED
      BY <3>1 DEF TracksNode
  <2>2. CASE \/ \E u \in Units : Arrive(u) \/ Dispatch(u) \/ Depart(u)
             \/ PowersOff \/ Wedges \/ KubeletReports \/ UNCHANGED vars
    <3>1. UNCHANGED <<pc, meddled, phase, cordoned, mark, maint, obs>>
      BY <2>2 DEF Arrive, Dispatch, Depart, PowersOff, Wedges, KubeletReports, vars
    <3> QED
      BY <3>1 DEF TracksNode, AsSeen, HeldByUs, SeenHeld, SeenOurs
  <2> QED
    BY <2>1, <2>2
<1>2. DrainsOurs'
  BY DEF Arrive, Dispatch, Depart, PowersOff, Wedges, KubeletReports, OperatorCordons,
     OperatorUncordons, OperatorAsksOrReturns, OperatorPowersOn, Meddle, vars,
     DrainsOurs, SeenOurs
<1>3. ForceIsDue'
  BY DEF Arrive, Dispatch, Depart, PowersOff, Wedges, KubeletReports, OperatorCordons,
     OperatorUncordons, OperatorAsksOrReturns, OperatorPowersOn, Meddle, vars,
     ForceIsDue, Shed
<1>4. NothingRemains'
  <2>1. CASE \E u \in Units : Arrive(u)
    BY <2>1 DEF Arrive, TracksNode, AsSeen, DrainsOurs, SeenOurs, NothingRemains, Deep, Last
  <2>2. CASE \E u \in Units : Dispatch(u) \/ Depart(u)
    BY <2>2 DEF Dispatch, Depart, NothingRemains, MachineTyped
  <2>3. CASE PowersOff \/ Wedges \/ KubeletReports \/ Operator \/ UNCHANGED vars
    BY <2>3 DEF PowersOff, Wedges, KubeletReports, OperatorCordons, OperatorUncordons,
       OperatorAsksOrReturns, OperatorPowersOn, Meddle, vars, NothingRemains, Last
  <2> QED
    BY <2>1, <2>2, <2>3
<1>5. CheckedIdle'
  <2>1. CASE \E u \in Units : Arrive(u) \/ Depart(u)
    <3>1. UNCHANGED <<pc, target, raced>>
      BY <2>1 DEF Arrive, Depart
    <3>2. \A v \in Units : unit'[v] \in {unit[v], "idle", "absent"}
      BY <2>1 DEF Arrive, Depart, MachineTyped
    <3>3. pc = "release" => target \in Units
      BY DEF NothingRemains, TickTyped
    <3> QED
      BY <3>1, <3>2, <3>3 DEF CheckedIdle
  <2>2. CASE \E u \in Units : Dispatch(u)
    <3>1. PICK u \in Units : Dispatch(u)
      BY <2>2
    <3>2. UNCHANGED <<pc, target>> /\ (raced' <=> raced \/ (pc = "release" /\ target = u))
      BY <3>1 DEF Dispatch
    <3>3. \A v \in Units \ {u} : unit'[v] = unit[v]
      BY <3>1 DEF Dispatch, MachineTyped
    <3>4. pc = "release" => target \in Units
      BY DEF NothingRemains, TickTyped
    <3> QED
      BY <3>2, <3>3, <3>4 DEF CheckedIdle
  <2>3. CASE PowersOff \/ Wedges \/ KubeletReports \/ Operator \/ UNCHANGED vars
    <3>1. UNCHANGED <<pc, target, raced>>
      BY <2>3 DEF PowersOff, Wedges, KubeletReports, OperatorCordons, OperatorUncordons,
         OperatorAsksOrReturns, OperatorPowersOn, Meddle, vars
    <3>2. UNCHANGED unit \/ unit' = [u \in Units |-> "absent"]
      BY <2>3 DEF PowersOff, Wedges, KubeletReports, OperatorCordons, OperatorUncordons,
         OperatorAsksOrReturns, OperatorPowersOn, vars
    <3>3. pc = "release" => target \in Units
      BY DEF NothingRemains, TickTyped
    <3> QED
      BY <3>1, <3>2, <3>3 DEF CheckedIdle
  <2> QED
    BY <2>1, <2>2, <2>3
<1> QED
  BY <1>1, <1>2, <1>3, <1>4, <1>5

LEMMA TickStep == TypeOK /\ TickInv /\ [Next]_vars => TickInv'
<1> SUFFICES ASSUME TypeOK, TickInv, [Next]_vars PROVE TickInv'
  OBVIOUS
<1>1. CASE \/ YieldToOperator \/ NothingDecided \/ DrainUncordoned \/ RescueDrain \/ WaitOnWork
           \/ DrainTimedOut \/ ConfirmOff \/ FinishWake \/ FinishSleep \/ ChooseToSleep \/ Restart
  BY <1>1, EndTickClears DEF YieldToOperator, NothingDecided, DrainUncordoned, RescueDrain,
     WaitOnWork, DrainTimedOut, ConfirmOff, FinishWake, FinishSleep, ChooseToSleep, BeginSleep,
     Restart
<1>2. CASE TimePasses
  BY <1>2 DEF TimePasses, TickInv, TracksNode, DrainsOurs, NothingRemains, ForceIsDue,
     CheckedIdle, Deep, Last
<1> QED
  BY <1>1, <1>2, TickGoesOn, TickDealsWithUnit, TickUndisturbed DEF Next, Controller, Environment

-----------------------------------------------------------------------------
(***************************************************************************)
(* What is known of a shutdown that is on record.                          *)
(***************************************************************************)

\* The steps that change the machine or the Ready condition, or begin a tick.
LEMMA MachineSteps ==
  ASSUME [Next]_vars
  PROVE  \/ Observe \/ SoftOff \/ PowersOff \/ Wedges \/ KubeletReports \/ OperatorPowersOn
         \/ /\ UNCHANGED <<mach, ready>>
            /\ pc' = "between" \/ (pc # "between" /\ UNCHANGED obs) \/ UNCHANGED <<pc, obs>>
<1>1. CASE \/ YieldToOperator \/ NothingDecided \/ DrainUncordoned \/ RescueDrain \/ WaitOnWork
           \/ DrainTimedOut \/ ConfirmOff \/ FinishWake \/ FinishSleep \/ ChooseToSleep \/ Restart
  BY <1>1 DEF YieldToOperator, NothingDecided, DrainUncordoned, RescueDrain, WaitOnWork,
     DrainTimedOut, AbandonSleep, ConfirmOff, FinishWake, FinishSleep, ChooseToSleep, BeginSleep,
     StartSleep, Restart, EndTick, nodeVars, machVars
<1>2. CASE CeilingKeeps \/ CeilingForgets \/ CeilingTakesDrain \/ CeilingSheds
  BY <1>2 DEF CeilingKeeps, CeilingForgets, CeilingTakesDrain, CeilingSheds, StartSleep, EndTick,
     nodeVars, machVars
<1>3. CASE NothingBusy \/ ListIdle \/ CheckResidual \/ Announce \/ NoteShutdown
           \/ \E u \in Units : CheckUnit(u) \/ ReleaseUnit(u)
  BY <1>3 DEF NothingBusy, Draining, ListIdle, CheckResidual, Announce, NoteShutdown, CheckUnit,
     ReleaseUnit, NextUnit, EndTick, nodeVars, machVars
<1>4. CASE \/ \E u \in Units : Arrive(u) \/ Dispatch(u) \/ Depart(u)
           \/ OperatorCordons \/ OperatorUncordons \/ OperatorAsksOrReturns
           \/ TimePasses \/ UNCHANGED vars
  BY <1>4 DEF Arrive, Dispatch, Depart, OperatorCordons, OperatorUncordons,
     OperatorAsksOrReturns, TimePasses, vars, nodeVars, machVars, tickVars
<1> QED
  BY <1>1, <1>2, <1>3, <1>4 DEF Next, Controller, Environment, Operator

LEMMA SeenNotReadyStep ==
  ASSUME SeenNotReady, [Next]_vars
  PROVE  SeenNotReady'
<1> USE DEF SeenNotReady
<1>1. CASE Observe
  BY <1>1 DEF Observe, machVars
<1>2. CASE SoftOff
  BY <1>2 DEF SoftOff
<1>3. CASE PowersOff \/ Wedges \/ KubeletReports \/ OperatorPowersOn
  BY <1>3 DEF PowersOff, Wedges, KubeletReports, OperatorPowersOn, machVars, nodeVars, tickVars
<1> QED
  BY <1>1, <1>2, <1>3, MachineSteps

\* A shutdown goes on record and grows old, and the process hears of it, in these
\* steps only; and a note is written anew, or removed, or grows old.
LEMMA AskedSteps ==
  ASSUME Next
  PROVE  /\ \/ SoftOff \/ TimePasses \/ Observe
            \/ asked' = Never \/ UNCHANGED <<asked, unheard>>
         /\ shutdown' \in {shutdown, 0, Never} \/ TimePasses
<1> USE DEF TryNoteShutdown
<1>1. CASE \/ YieldToOperator \/ NothingDecided \/ DrainUncordoned \/ RescueDrain \/ WaitOnWork
           \/ DrainTimedOut \/ ConfirmOff \/ FinishWake \/ Restart
  BY <1>1 DEF YieldToOperator, NothingDecided, DrainUncordoned, RescueDrain, WaitOnWork,
     DrainTimedOut, AbandonSleep, ConfirmOff, FinishWake, Restart, EndTick
<1>2. CASE FinishSleep \/ ChooseToSleep
  <2>1. BeginSleep
    BY <1>2 DEF FinishSleep, ChooseToSleep
  <2>2. shutdown' \in {shutdown, Never}
    BY <2>1 DEF BeginSleep, AbandonSleep, StartSleep
  <2> QED
    BY <2>1, <2>2 DEF BeginSleep, EndTick
<1>3. CASE Observe \/ CeilingKeeps \/ CeilingForgets \/ CeilingTakesDrain \/ CeilingSheds
  <2>1. CASE CeilingSheds
    <3>1. shutdown' \in {shutdown, Never}
      BY <2>1 DEF CeilingSheds, StartSleep
    <3> QED
      BY <2>1, <3>1 DEF CeilingSheds, EndTick
  <2> QED
    BY <1>3, <2>1 DEF Observe, CeilingKeeps, CeilingForgets, CeilingTakesDrain
<1>4. CASE NothingBusy \/ ListIdle \/ CheckResidual \/ Announce \/ NoteShutdown \/ SoftOff
           \/ \E u \in Units : CheckUnit(u) \/ ReleaseUnit(u)
  BY <1>4 DEF NothingBusy, ListIdle, CheckResidual, Announce, NoteShutdown, SoftOff, CheckUnit,
     ReleaseUnit, NextUnit, EndTick
<1>5. CASE \/ \E u \in Units : Arrive(u) \/ Dispatch(u) \/ Depart(u)
           \/ PowersOff \/ Wedges \/ KubeletReports \/ Operator
  BY <1>5 DEF Arrive, Dispatch, Depart, PowersOff, Wedges, KubeletReports, Operator, Meddle,
     OperatorCordons, OperatorUncordons, OperatorAsksOrReturns, OperatorPowersOn
<1> QED
  BY <1>1, <1>2, <1>3, <1>4, <1>5 DEF Next, Controller, Environment

\* Request and note grow old together, and a note written later is younger.
LEMMA NoteNoOlderStep ==
  ASSUME TypeOK, NoteNoOlder, [Next]_vars
  PROVE  NoteNoOlder'
<1> SUFFICES ASSUME OnRecord', shutdown' # Never
             PROVE  shutdown' <= asked'
  BY DEF NoteNoOlder
<1> USE NeverAssumption, BoundsAssumption DEF TypeOK, NodeTyped, HistTyped, Ages, OnRecord
<1>1. CASE UNCHANGED vars
  BY <1>1 DEF vars, NoteNoOlder
<1>2. CASE SoftOff
  BY <1>2 DEF SoftOff, NoteNoOlder
<1>3. CASE TimePasses
  BY <1>3 DEF TimePasses, Aged, NoteNoOlder
<1>4. CASE Next /\ ~SoftOff /\ ~TimePasses
  <2>1. asked' = asked /\ shutdown' \in {shutdown, 0}
    BY <1>4, AskedSteps DEF Observe
  <2> QED
    BY <2>1 DEF NoteNoOlder
<1> QED
  BY <1>1, <1>2, <1>3, <1>4

\* What can happen to a node that is going down: a step of a drain cannot, nor one
\* that needs to have seen it Ready.
LEMMA StepsGoingDown ==
  ASSUME TickInv, ShutdownFollowed, Next, OnRecord, ~unheard
  PROVE  \/ Observe \/ CeilingKeeps \/ CeilingForgets \/ NothingDecided \/ ConfirmOff
         \/ \E u \in Units : Arrive(u) \/ Dispatch(u) \/ Depart(u)
         \/ PowersOff \/ Wedges \/ KubeletReports \/ Operator \/ Restart \/ TimePasses
<1>1. phase # "sleeping" /\ pc \notin Deep
  BY DEF TickInv, DrainsOurs, ShutdownFollowed
<1>2. pc # "between" => SeenOurs /\ (phase = "none" => ~obs.ready)
  BY DEF ShutdownFollowed
<1>3. ~(CeilingTakesDrain \/ CeilingSheds)
  BY <1>1, <1>2 DEF CeilingTakesDrain, CeilingSheds
<1>4. ~(YieldToOperator \/ DrainUncordoned \/ RescueDrain)
  BY <1>1, <1>2 DEF YieldToOperator, DrainUncordoned, RescueDrain, Yields, SeenHeld, SeenOurs
<1>5. ~(WaitOnWork \/ DrainTimedOut \/ NothingBusy)
  BY <1>1 DEF WaitOnWork, DrainTimedOut, NothingBusy, Draining
<1>6. ~(ListIdle \/ CheckResidual \/ Announce \/ NoteShutdown \/ SoftOff)
  BY <1>1 DEF ListIdle, CheckResidual, Announce, NoteShutdown, SoftOff, Deep
<1>7. ~(\E u \in Units : CheckUnit(u) \/ ReleaseUnit(u))
  BY <1>1 DEF CheckUnit, ReleaseUnit, Deep
<1>8. ~(FinishWake \/ FinishSleep \/ ChooseToSleep)
  BY <1>2 DEF FinishWake, FinishSleep, ChooseToSleep, Stranded
<1> QED
  BY <1>3, <1>4, <1>5, <1>6, <1>7, <1>8 DEF Next, Controller, Environment

\* Every step keeps what is known of the shutdown in progress: the machine is off for
\* good, or note, phase and request grow old together.  A process that did not hear the
\* reply learns of the request when a restart's first tick finds the note.
LEMMA ShutdownFollowedStep ==
  ASSUME TypeOK, TickInv, SeenNotReady, NoteNoOlder, ShutdownFollowed, [Next]_vars
  PROVE  ShutdownFollowed'
<1> SUFFICES ASSUME OnRecord', ~unheard'
             PROVE  ShutdownFollowed'
  BY DEF ShutdownFollowed
<1>1. CASE UNCHANGED vars
  BY <1>1 DEF vars, nodeVars, machVars, memVars, tickVars, histVars, ShutdownFollowed, OnRecord,
     HeldByUs, SeenOurs
<1>2. CASE SoftOff
  <2>1. PICK o \in Outcomes :
          /\ IF o = "failed"
             THEN UNCHANGED <<mach, asked, unheard>>
             ELSE /\ asked' = (IF HeldByUs THEN shutdown ELSE Never)
                  /\ unheard' = (o = "lost" /\ asked' # Never)
          /\ IF o = "done"
             THEN phase' = "powering_off" /\ phaseSince' = 0
             ELSE UNCHANGED <<phase, phaseSince>>
    BY <1>2 DEF SoftOff
  <2>2. CASE o = "failed"
    BY <1>2, <2>1, <2>2 DEF SoftOff, TickInv, DrainsOurs, Deep, ShutdownFollowed, OnRecord
  <2>3. CASE o # "failed"
    <3>1. HeldByUs /\ asked' = shutdown /\ shutdown # Never /\ phase' = "powering_off"
          /\ phaseSince' = 0
      BY <2>1, <2>3, SeamsAssumption DEF Outcome, OnRecord
    <3>2. asked' \in Nat
      BY <3>1 DEF TypeOK, NodeTyped, Ages
    <3> QED
      BY <1>2, <3>1, <3>2 DEF SoftOff, ShutdownFollowed, HeldByUs, nodeVars
  <2> QED
    BY <2>2, <2>3
<1>3. CASE TimePasses
  <2>1. /\ asked \in Nat /\ asked <= ShutdownTimeout /\ asked' = asked + 1 /\ ~unheard
    BY <1>3, BoundsAssumption, NeverAssumption
    DEF TimePasses, Aged, TypeOK, HistTyped, Ages, OnRecord
  <2> OnRecord
    BY <2>1, NeverAssumption DEF OnRecord
  <2>2. HeldByUs' /\ pc' = "between" /\ phase' = phase /\ phase # "sleeping"
    BY <1>3, <2>1, NeverAssumption, BoundsAssumption
    DEF TimePasses, Aged, TypeOK, NodeTyped, Ages, ShutdownFollowed, HeldByUs, tickVars
  <2>3. CASE mach = "off" /\ ~ready /\ ~obs.ready
    BY <1>3, <2>2, <2>3 DEF TimePasses, ShutdownFollowed, machVars, tickVars
  <2>4. CASE shutdown # Never /\ (phase = "powering_off" => phaseSince <= asked)
    <3>1. shutdown' # Never
      BY <1>3, <2>4, NeverAssumption, BoundsAssumption DEF TimePasses, Aged, TypeOK, NodeTyped, Ages
    <3>2. phase = "powering_off" => phaseSince' <= asked'
      BY <1>3, <2>1, <2>4, BoundsAssumption, NeverAssumption
      DEF TimePasses, Aged, TypeOK, PhaseTyped
    <3> QED
      BY <2>2, <3>1, <3>2 DEF ShutdownFollowed
  <2> QED
    BY <2>1, <2>3, <2>4 DEF ShutdownFollowed
<1>4. CASE Observe
  <2>1. OnRecord /\ UNCHANGED asked
    BY <1>4 DEF Observe, OnRecord
  <2>2. CASE unheard
    <3>1. ShutdownInterrupted
      BY <1>4, <2>2 DEF Observe
    <3>2. shutdown <= asked /\ shutdown <= ShutdownTimeout /\ shutdown # Never
      BY <2>1, <3>1, BoundsAssumption, NeverAssumption
      DEF NoteNoOlder, OnRecord, ShutdownInterrupted, TypeOK, NodeTyped, HistTyped, Ages
    <3>3. phase' = "powering_off" /\ phaseSince' = shutdown /\ UNCHANGED shutdown
      BY <1>4, <3>1, <3>2 DEF Observe
    <3>4. HeldByUs' /\ SeenOurs'
      BY <1>4, <3>1 DEF Observe, ShutdownInterrupted, HeldByUs, SeenOurs
    <3> QED
      BY <2>1, <3>2, <3>3, <3>4 DEF ShutdownFollowed
  <2>3. CASE ~unheard
    <3>1. HeldByUs' /\ SeenOurs' /\ phase' # "sleeping"
      BY <1>4, <2>1, <2>3 DEF Observe, ShutdownFollowed, HeldByUs, SeenOurs
    <3>2. CASE mach = "off" /\ ~ready
      BY <1>4, <3>1, <3>2 DEF Observe, ShutdownFollowed, machVars
    <3>3. CASE shutdown # Never /\ phase = "powering_off" /\ phaseSince <= asked
      BY <1>4, <2>1, <3>1, <3>3 DEF Observe, ShutdownInterrupted, ShutdownFollowed
    <3>4. CASE shutdown # Never /\ phase = "none"
      <4>1. shutdown <= asked /\ shutdown <= ShutdownTimeout
        BY <2>1, <3>4, BoundsAssumption, NeverAssumption
        DEF NoteNoOlder, OnRecord, TypeOK, NodeTyped, HistTyped, Ages
      <4>2. phase' = "powering_off" /\ phaseSince' = shutdown /\ UNCHANGED shutdown
        BY <1>4, <2>1, <2>3, <3>4, <4>1 DEF Observe, ShutdownInterrupted, ShutdownFollowed
      <4> QED
        BY <2>1, <3>1, <3>4, <4>1, <4>2 DEF ShutdownFollowed
    <3> QED
      BY <2>1, <2>3, <3>2, <3>3, <3>4 DEF ShutdownFollowed, TypeOK, PhaseTyped, Phase
  <2> QED
    BY <2>2, <2>3
<1>5. CASE Next /\ ~TimePasses /\ ~SoftOff /\ ~Observe
  <2>1. UNCHANGED <<asked, unheard>>
    BY <1>5, AskedSteps DEF OnRecord
  <2> OnRecord /\ ~unheard
    BY <2>1 DEF OnRecord
  <2>3. CASE CeilingKeeps \/ CeilingForgets
    BY <2>1, <2>3 DEF CeilingKeeps, CeilingForgets, nodeVars, machVars, memVars,
       ShutdownFollowed, HeldByUs, SeenOurs
  <2>4. CASE NothingDecided
    BY <2>1, <2>4 DEF NothingDecided, EndTick, NoObs, nodeVars, machVars, memVars,
       ShutdownFollowed, HeldByUs
  <2>5. CASE ConfirmOff
    <3>1. HeldByUs' /\ pc' = "between" /\ phase' # "sleeping" /\ ~obs'.ready /\ UNCHANGED <<mach, ready>>
      BY <2>5 DEF ConfirmOff, LeavePhase, EndTick, NoObs, machVars, ShutdownFollowed, HeldByUs
    <3>2. CASE mach = "off" /\ ~ready
      BY <3>1, <3>2 DEF ShutdownFollowed
    <3>3. CASE ~(mach = "off" /\ ~ready)
      <4>1. shutdown # Never /\ phaseSince <= asked
        BY <2>5, <3>3 DEF ConfirmOff, ShutdownFollowed
      <4>2. ~(phaseSince > ShutdownTimeout)
        BY <4>1, BoundsAssumption, NeverAssumption
        DEF OnRecord, TypeOK, PhaseTyped, HistTyped, Ages
      <4>3. ~ReadsDown
        BY <2>5, <3>3, <4>2 DEF ConfirmOff, ReadsDown, SeenNotReady
      <4>4. UNCHANGED <<phase, phaseSince, shutdown>>
        BY <2>5, <4>2, <4>3 DEF ConfirmOff
      <4> QED
        BY <2>1, <2>5, <3>1, <4>1, <4>4 DEF ConfirmOff, ShutdownFollowed
    <3> QED
      BY <3>2, <3>3
  <2>6. CASE \E u \in Units : Arrive(u) \/ Dispatch(u) \/ Depart(u)
    <3>1. UNCHANGED <<nodeVars, mach, memVars, tickVars>>
      BY <2>6 DEF Arrive, Dispatch, Depart
    <3> QED
      BY <2>1, <3>1 DEF nodeVars, memVars, tickVars, ShutdownFollowed, HeldByUs, SeenOurs
  <2>7. CASE PowersOff \/ Wedges \/ KubeletReports
    BY <2>1, <2>7 DEF PowersOff, Wedges, KubeletReports, nodeVars, machVars, memVars, tickVars,
       ShutdownFollowed, HeldByUs, SeenOurs
  <2>8. CASE Operator
    BY <2>1, <2>8 DEF Operator, OperatorCordons, OperatorUncordons, OperatorAsksOrReturns,
       OperatorPowersOn, machVars, memVars, tickVars, ShutdownFollowed, OnRecord, HeldByUs, SeenOurs
  <2>9. CASE Restart
    BY <2>1, <2>9 DEF Restart, LeavePhase, EndTick, NoObs, nodeVars, machVars, ShutdownFollowed,
       HeldByUs
  <2> QED
    BY <1>5, <2>3, <2>4, <2>5, <2>6, <2>7, <2>8, <2>9, StepsGoingDown
<1> QED
  BY <1>1, <1>2, <1>3, <1>4, <1>5

\* What each step of a tick may still rely on, after whatever happened between its
\* calls: the invariant all the safety theorems below rest on.
THEOREM TickInvariant == Spec => []Inv
<1>1. Init => Inv
  BY InitTyped DEF Init, Inv, TickInv, TracksNode, DrainsOurs, NothingRemains, ForceIsDue,
     CheckedIdle, Deep, Last, SeenNotReady, OnRecord, NoteNoOlder, ShutdownFollowed
<1>2. Inv /\ [Next]_vars => Inv'
  BY TypeStep, TickStep, SeenNotReadyStep, NoteNoOlderStep, ShutdownFollowedStep DEF Inv
<1> QED
  BY <1>1, <1>2, PTL DEF Spec

-----------------------------------------------------------------------------
(***************************************************************************)
(* The safety properties.                                                  *)
(***************************************************************************)

\* The first rule of the README, for every node and schedule: an ordinary drain
\* asks for a shutdown only with every unit gone, however work came and went
\* between the listing, the checks and the teardowns.
THEOREM ShutdownIsDrained == Spec => []DrainedBeforeShutdown
<1>1. TypeOK /\ TickInv => DrainedBeforeShutdown
  BY DEF TickInv, NothingRemains, DrainedBeforeShutdown, Last
<1> QED
  BY <1>1, TickInvariant, PTL DEF Inv

\* Only a node this controller holds, and no person asked for, is shut down.
THEOREM ShutdownIsHeld == Spec => []ShutdownOnlyWhenHeld
<1>1. TypeOK /\ TickInv => ShutdownOnlyWhenHeld
  BY DEF TypeOK, TickTyped, TickInv, TracksNode, AsSeen, DrainsOurs, SeenOurs,
     ShutdownOnlyWhenHeld, Deep
<1> QED
  BY <1>1, TickInvariant, PTL DEF Inv

\* Work is ended only by a shed past its deadline.
THEOREM ForceIsLate == Spec => []ForcedOnlyPastDeadline
<1>1. TypeOK /\ TickInv => ForcedOnlyPastDeadline
  BY DEF TypeOK, TickTyped, TickInv, NothingRemains, ForceIsDue, ForcedOnlyPastDeadline, Busy, Last
<1> QED
  BY <1>1, TickInvariant, PTL DEF Inv

\* release() never ends work that its own check of the unit could have seen.
THEOREM ReleaseIsChecked == Spec => ReleasesNoSeenWork
<1>1. TypeOK /\ TickInv /\ [Next]_vars
        => [\A u \in Units : unit[u] = "busy" /\ unit'[u] = "leaving" => raced]_vars
  <2> SUFFICES ASSUME TypeOK, TickInv, Next, NEW u \in Units,
                      unit[u] = "busy", unit'[u] = "leaving"
               PROVE  raced
    BY DEF vars
  <2>1. CASE \E v \in Units : ReleaseUnit(v)
    BY <2>1 DEF ReleaseUnit, TickInv, CheckedIdle, TypeOK, MachineTyped
  <2>2. CASE \E w \in Units : Arrive(w) \/ Dispatch(w) \/ Depart(w)
    BY <2>2 DEF Arrive, Dispatch, Depart, TypeOK, MachineTyped
  <2>3. CASE PowersOff \/ OperatorPowersOn
    BY <2>3 DEF PowersOff, OperatorPowersOn
  <2>4. UNCHANGED unit \/ (\E v \in Units : ReleaseUnit(v))
        \/ (\E w \in Units : Arrive(w) \/ Dispatch(w) \/ Depart(w))
        \/ PowersOff \/ OperatorPowersOn
    BY DEF Next, Controller, Environment, Operator, Observe, CeilingKeeps, CeilingForgets,
       CeilingTakesDrain, CeilingSheds, YieldToOperator, NothingDecided, DrainUncordoned,
       RescueDrain, WaitOnWork, DrainTimedOut, NothingBusy, ListIdle, CheckUnit, CheckResidual,
       Announce, NoteShutdown, SoftOff, ConfirmOff, FinishWake, FinishSleep, ChooseToSleep,
       BeginSleep, Wedges, KubeletReports, OperatorCordons, OperatorUncordons,
       OperatorAsksOrReturns, Restart, TimePasses
  <2> QED
    BY <2>1, <2>2, <2>3, <2>4
<1> QED
  BY <1>1, TickInvariant, PTL DEF Spec, Inv, ReleasesNoSeenWork

\* The actions that write the cordon, the mark or the anchor; no other does.
LEMMA ClockWriters ==
  ASSUME Next
  PROVE  \/ UNCHANGED <<cordoned, mark, anchor>>
         \/ Observe \/ CeilingForgets \/ CeilingTakesDrain \/ CeilingSheds
         \/ RescueDrain \/ DrainTimedOut \/ FinishWake \/ FinishSleep \/ ChooseToSleep
         \/ OperatorCordons \/ OperatorUncordons \/ Restart \/ TimePasses
  BY DEF Next, Controller, Environment, Operator, CeilingKeeps, YieldToOperator, NothingDecided,
     DrainUncordoned, WaitOnWork, NothingBusy, ListIdle, CheckUnit, ReleaseUnit, CheckResidual,
     Announce, NoteShutdown, SoftOff, ConfirmOff, Arrive, Dispatch, Depart, PowersOff, Wedges,
     KubeletReports, OperatorAsksOrReturns, OperatorPowersOn

\* No step of a tick that saw an operator's cordon lifts it or claims it.
THEOREM HoldIsRespected == Spec => SeenHoldRespected
<1>1. TypeOK /\ TickInv /\ [Next]_vars
        => [cordoned /\ mark = Never /\ pc # "between" /\ ~meddled /\ ~meddled'
              => UNCHANGED <<cordoned, mark>>]_vars
  <2> SUFFICES ASSUME TypeOK, TickInv, Next,
                      cordoned, mark = Never, pc # "between", ~meddled, ~meddled'
               PROVE  UNCHANGED <<cordoned, mark>>
    BY DEF vars
  <2>1. SeenHeld
    BY DEF TickInv, TracksNode
  <2>2. obs.cordoned /\ ~SeenOurs
    BY <2>1 DEF SeenHeld, SeenOurs
  <2>3. ~Observe /\ ~TimePasses /\ ~OperatorUncordons /\ ~OperatorCordons
    BY DEF Observe, TimePasses, OperatorUncordons, OperatorCordons, Meddle
  <2>4. ~CeilingSheds /\ ~RescueDrain /\ ~DrainTimedOut
    BY <2>1 DEF CeilingSheds, RescueDrain, DrainTimedOut, Draining, Yields
  <2>5. ~FinishWake /\ ~FinishSleep /\ ~ChooseToSleep
    BY <2>2 DEF FinishWake, FinishSleep, ChooseToSleep, Stranded
  <2> QED
    BY <2>3, <2>4, <2>5, ClockWriters DEF CeilingForgets, CeilingTakesDrain, Restart
<1> QED
  BY <1>1, TickInvariant, PTL DEF Spec, Inv, SeenHoldRespected

\* A sleep that starts stamps no cordon that was already ours.
LEMMA StartKeepsClock ==
  ASSUME TypeOK, TickInv, pc # "between", NEW shedding, StartSleep(shedding),
         cordoned, ~meddled, mark # Never, mark' # Never
  PROVE  mark' >= mark
<1>1. SeenOurs \/ mark = 0
  BY DEF TickInv, TracksNode
<1>2. mark \in Nat
  BY DEF TypeOK, NodeTyped, Ages
<1>3. CASE SeenOurs
  BY <1>2, <1>3 DEF StartSleep, NeedsCordon
<1>4. CASE mark = 0
  <2>1. ASSUME NEW o, WriteCordon(TRUE, o) PROVE mark' \in {mark, 0}
    BY <2>1 DEF WriteCordon
  <2>2. mark' \in {mark, 0}
    BY <2>1 DEF StartSleep
  <2> QED
    BY <1>4, <2>2
<1> QED
  BY <1>1, <1>3, <1>4

LEMMA UncordonKeepsClock ==
  ASSUME TypeOK, Uncordon
  PROVE  /\ mark # Never /\ mark' # Never => mark' >= mark
         /\ anchor # Never /\ anchor' # Never => anchor' >= anchor
  BY DEF Uncordon, WriteCordon, ForgetShed, TypeOK, NodeTyped, ShedTyped, Ages

\* While a node stays held, the clocks that bound its drain only run forward:
\* retries, repairs and restarts buy no node more time.
THEOREM ClocksRunOn == Spec => ClocksNeverRewind
<1>1. TypeOK /\ TickInv /\ [Next]_vars
        => [/\ (cordoned /\ ~meddled /\ mark # Never /\ mark' # Never => mark' >= mark)
            /\ (anchor # Never /\ anchor' # Never => anchor' >= anchor)]_vars
  <2> DEFINE Runs == /\ (cordoned /\ ~meddled /\ mark # Never /\ mark' # Never => mark' >= mark)
                     /\ (anchor # Never /\ anchor' # Never => anchor' >= anchor)
  <2> SUFFICES ASSUME TypeOK, TickInv, Next PROVE Runs
    BY DEF vars
  <2>1. (mark # Never => mark \in Nat) /\ (anchor # Never => anchor \in Nat)
    BY DEF TypeOK, NodeTyped, ShedTyped, Ages
  <2>2. CASE UNCHANGED <<cordoned, mark, anchor>>
    BY <2>1, <2>2
  <2>3. CASE Observe \/ OperatorCordons \/ OperatorUncordons \/ Restart
    BY <2>1, <2>3 DEF Observe, OperatorCordons, OperatorUncordons, Restart
  <2>4. CASE CeilingForgets \/ CeilingTakesDrain
    BY <2>1, <2>4 DEF CeilingForgets, CeilingTakesDrain, ForgetShed, Shed
  <2>5. CASE RescueDrain \/ DrainTimedOut \/ FinishWake
    BY <2>5, UncordonKeepsClock DEF RescueDrain, DrainTimedOut, AbandonSleep, FinishWake
  <2>6. CASE CeilingSheds
    <3>1. anchor # Never /\ anchor' # Never => anchor' >= anchor
      BY <2>1, <2>6 DEF CeilingSheds, Shed
    <3>2. pc # "between" /\ StartSleep(TRUE)
      BY <2>6 DEF CeilingSheds
    <3> QED
      BY <3>1, <3>2, StartKeepsClock
  <2>7. CASE FinishSleep \/ ChooseToSleep
    <3>1. pc # "between" /\ BeginSleep
      BY <2>7 DEF FinishSleep, ChooseToSleep, Stranded
    <3>2. CASE AbandonSleep
      BY <3>2, UncordonKeepsClock DEF AbandonSleep
    <3>3. CASE StartSleep(Shed) /\ UNCHANGED shedVars
      <4>1. cordoned /\ ~meddled /\ mark # Never /\ mark' # Never => mark' >= mark
        BY <3>1, <3>3, StartKeepsClock
      <4> QED
        BY <2>1, <3>3, <4>1
    <3> QED
      BY <3>1, <3>2, <3>3 DEF BeginSleep
  <2>8. CASE TimePasses
    BY <2>1, <2>8 DEF TimePasses, Aged
  <2> QED
    BY <2>2, <2>3, <2>4, <2>5, <2>6, <2>7, <2>8, ClockWriters
<1> QED
  BY <1>1, TickInvariant, PTL DEF Spec, Inv, ClocksNeverRewind

\* A shutdown on record is not asked for again while it may still be in progress: the
\* node is in no drain for that long, whatever the stranded repair or a new process
\* does.  A process that did not hear the reply is excepted until it is restarted; its
\* successor is not.
THEOREM ShutdownIsAskedOnce == Spec => []NoSecondShutdown
<1>1. Inv => NoSecondShutdown
  <2> SUFFICES ASSUME Inv, pc = "softoff", asked # Never, ~unheard PROVE asked > ShutdownTimeout
    BY DEF NoSecondShutdown
  <2>1. asked \in Nat /\ ~(asked <= ShutdownTimeout)
    BY NeverAssumption, BoundsAssumption
    DEF Inv, TypeOK, HistTyped, Ages, TickInv, DrainsOurs, Deep, OnRecord, ShutdownFollowed
  <2> QED
    BY <2>1, BoundsAssumption
<1> QED
  BY <1>1, TickInvariant, PTL

\* Nobody but a person puts a machine that is going down back into service, with the
\* same exception.
THEOREM ShutdownIsLeftAlone == Spec => ShutdownUndisturbed
<1>1. Inv /\ [Next]_vars =>
        [cordoned /\ ~cordoned' /\ asked # Never /\ asked' # Never
           => asked > ShutdownTimeout \/ unheard]_vars
  <2> SUFFICES ASSUME Inv, Next, cordoned, ~cordoned', asked # Never, asked' # Never,
                      ~(asked > ShutdownTimeout), ~unheard
               PROVE  FALSE
    BY DEF vars
  <2>1. OnRecord
    BY NeverAssumption, BoundsAssumption DEF Inv, TypeOK, HistTyped, Ages, OnRecord
  <2>2. ~(Observe \/ CeilingKeeps \/ CeilingForgets \/ NothingDecided \/ ConfirmOff)
    BY DEF Observe, CeilingKeeps, CeilingForgets, NothingDecided, ConfirmOff, nodeVars
  <2>3. ~(\E u \in Units : Arrive(u) \/ Dispatch(u) \/ Depart(u))
    BY DEF Arrive, Dispatch, Depart, nodeVars
  <2>4. ~(PowersOff \/ Wedges \/ KubeletReports \/ Operator \/ Restart \/ TimePasses)
    BY DEF PowersOff, Wedges, KubeletReports, Operator, OperatorCordons, OperatorUncordons,
       OperatorAsksOrReturns, OperatorPowersOn, Restart, TimePasses, nodeVars
  <2> QED
    BY <2>1, <2>2, <2>3, <2>4, StepsGoingDown DEF Inv
<1> QED
  BY <1>1, TickInvariant, PTL DEF Spec, ShutdownUndisturbed

\* A shed's node is given back by nobody who backs it off: neither the drain timeout
\* nor the attempt bound is for a shed.
THEOREM ShedIsSeenThrough == Spec => ShedNotAbandoned
<1>1. [Next]_vars => [Shed /\ cordoned /\ ~cordoned' => UNCHANGED cooldown]_vars
  <2> SUFFICES ASSUME Next, Shed, cordoned, ~cordoned' PROVE UNCHANGED cooldown
    BY DEF vars
  <2>1. ~(Observe \/ DrainTimedOut \/ OperatorCordons \/ Restart \/ TimePasses)
    BY DEF Observe, DrainTimedOut, OutlastedDrain, OperatorCordons, Restart, TimePasses, nodeVars
  <2>2. CASE FinishSleep \/ ChooseToSleep \/ CeilingSheds
    BY <2>2 DEF FinishSleep, ChooseToSleep, CeilingSheds, BeginSleep, StartSleep
  <2>3. CASE RescueDrain \/ FinishWake \/ CeilingForgets \/ CeilingTakesDrain \/ OperatorUncordons
    BY <2>3 DEF RescueDrain, FinishWake, CeilingForgets, CeilingTakesDrain, OperatorUncordons,
       memVars
  <2> QED
    BY <2>1, <2>2, <2>3, ClockWriters
<1> QED
  BY <1>1, PTL DEF Spec, ShedNotAbandoned
=============================================================================
