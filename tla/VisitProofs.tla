---------------------------- MODULE VisitProofs ----------------------------
(***************************************************************************)
(* Theorems about Visit, for every bound, with every actor and every       *)
(* outcome of a call.                                                      *)
(***************************************************************************)
EXTENDS Visit, TLAPS

USE BoundsAssumption
    DEF nodeVars, visitVars, wakeVars, watchVars, knowVars, histVars, memoryVars, Steps

(***************************************************************************)
(* Type correctness.                                                       *)
(***************************************************************************)

LEMMA AgeFacts ==
  ASSUME NEW cap \in Nat
  PROVE  /\ 0 \in AgeTo(cap) /\ 0 \in MaybeTo(cap) /\ Never \in MaybeTo(cap)
         /\ \A t \in AgeTo(cap) : Aged(t, cap) \in AgeTo(cap)
         /\ \A t \in MaybeTo(cap) : /\ Aged(t, cap) \in MaybeTo(cap)
                                    /\ Aged(t, cap) = Never <=> t = Never
  BY NeverAssumption DEF AgeTo, MaybeTo, Aged

LEMMA StartFacts ==
  /\ 0 \in AgeTo(VisitTimeout + 1)
  /\ Never \in MaybeTo(Window) /\ 0 \in MaybeTo(Window)
  /\ Never \in MaybeTo(VisitTimeout) /\ 0 \in MaybeTo(VisitTimeout)
  /\ Never \in MaybeTo(WakeTimeout + 1) /\ 0 \in MaybeTo(WakeTimeout + 1)
<1>1. VisitTimeout + 1 \in Nat /\ WakeTimeout + 1 \in Nat /\ Window \in Nat /\ VisitTimeout \in Nat
  OBVIOUS
<1> QED
  BY <1>1, AgeFacts

LEMMA SparedFacts ==
  /\ 0 \in Spared /\ Never \in Spared
  /\ \A t \in Spared : Spent(t) \in Spared
  BY NeverAssumption DEF Spared, Spent, MaybeTo, AgeTo

LEMMA NotedTyped ==
  ASSUME NEW S, NEW a \in S, NEW b \in S, NEW o PROVE Noted(a, b, o) \in S
  BY DEF Noted

LEMMA EndTickTyped == EndTick => TickTyped'
  BY DEF EndTick, TickTyped, Step, NoObs, Obs, Cordon, Trouble

LEMMA LeaveTyped ==
  ASSUME PhaseTyped, NEW p \in Phase, Leave(p) PROVE PhaseTyped'
<1>1. phaseSince' \in AgeTo(VisitTimeout + 1)
  BY AgeFacts DEF Leave, LeaveFor, PhaseTyped
<1>2. window' \in MaybeTo(Window)
  BY AgeFacts DEF Leave
<1> QED
  BY <1>1, <1>2 DEF Leave, LeaveFor, PhaseTyped

LEMMA SetTroubleTyped ==
  ASSUME NEW t \in Trouble, troubled \in Trouble, SetTrouble(t)
  PROVE  trouble' \in Trouble /\ troubled' \in Trouble /\ handed' \in BOOLEAN
<1>1. PICK o \in Outcomes : troubled' = IF obs.trouble = t THEN troubled ELSE Noted(troubled, t, o)
  BY DEF SetTrouble
<1> QED
  BY <1>1, NotedTyped DEF SetTrouble

\* What is known of a visit stays, or is known no more.
LEMMA KnowTyped ==
  ASSUME HistTyped, Forgets \/ NobodyKnows \/ UNCHANGED knowVars, handed' \in BOOLEAN
  PROVE  HistTyped'
  BY SparedFacts DEF HistTyped, Forgets, NobodyKnows

LEMMA BeginSleepTyped ==
  ASSUME PhaseTyped, NEW c \in Cordon, BeginSleep(c) PROVE PhaseTyped' /\ cordon' \in Cordon
<1>1. PICK o \in Outcomes :
        \/ Leave("none") /\ cordon' = Noted(c, "none", o)
        \/ obs.cordon = "ours" /\ Leave("sleeping") /\ cordon' = c
        \/ /\ obs.cordon = "none" /\ cordon' = Noted(c, "ours", o)
           /\ Leave(IF o = "done" THEN "sleeping" ELSE "none")
  BY DEF BeginSleep
<1>2. cordon' \in Cordon
  BY <1>1 DEF Noted, Cordon
<1>3. "none" \in Phase /\ "sleeping" \in Phase
  BY DEF Phase
<1>4. PhaseTyped'
  BY <1>1, <1>3, LeaveTyped
<1> QED
  BY <1>2, <1>4

LEMMA Typed ==
  /\ "none" \in Phase /\ "waking" \in Phase /\ "sleeping" \in Phase
  /\ "no" \in Trouble /\ "power" \in Trouble /\ "human" \in Trouble
  BY DEF Phase, Trouble

\* One step of any process keeps the types.
LEMMA TypeStep == TypeOK /\ [Next]_vars => TypeOK'
<1> SUFFICES ASSUME TypeOK, [Next]_vars PROVE TypeOK'
  OBVIOUS
<1> USE DEF TypeOK
<1>1. ASSUME Observe PROVE TypeOK'
  <2>1. obs' \in Obs
    <3>1. Ready \in BOOLEAN
      BY DEF Ready
    <3> QED
      BY <1>1, <3>1, Typed DEF Observe, Obs, NodeTyped
  <2>2. off' \in BOOLEAN /\ darkOn' \in MaybeTo(WakeTimeout + 1)
    BY <1>1, StartFacts DEF Observe, WatchTyped
  <2>3. darkAfter' \in MaybeTo(VisitTimeout)
    BY <1>1, StartFacts DEF Observe, WatchTyped
  <2>4. trouble' \in Trouble /\ troubled' \in Trouble /\ handed' \in BOOLEAN
    BY <1>1, Typed DEF Observe, Noted, WatchTyped, NodeTyped, HistTyped
  <2>5. HistTyped'
    BY <1>1, <2>4, KnowTyped DEF Observe
  <2> QED
    BY <1>1, <2>1, <2>2, <2>3, <2>4, <2>5
    DEF Observe, NodeTyped, PhaseTyped, WatchTyped, TickTyped, Step
<1>2. ASSUME NotChecked PROVE TypeOK'
  BY <1>2, StartFacts
  DEF NotChecked, ToDecide, NodeTyped, PhaseTyped, WatchTyped, TickTyped, HistTyped, Step
<1>3. ASSUME CheckAgain PROVE TypeOK'
  <2>1. /\ trouble' \in Trouble /\ troubled' \in Trouble /\ handed' \in BOOLEAN
        /\ off' \in BOOLEAN /\ darkOn' \in MaybeTo(WakeTimeout + 1)
    <3>1. CASE UNCHANGED <<trouble, handed, off, darkOn, obs, troubled>>
      BY <3>1 DEF WatchTyped, NodeTyped, HistTyped
    <3>2. CASE trouble' = "no" /\ handed' = FALSE /\ off' = TRUE /\ darkOn' = Never
      <4>1. troubled' \in Trouble
        BY <1>3, Typed DEF CheckAgain, Noted, NodeTyped
      <4> QED
        BY <3>2, <4>1, Typed, StartFacts
    <3> QED
      BY <1>3, <3>1, <3>2 DEF CheckAgain
  <2>2. obs' \in Obs
    BY <1>3, Typed DEF CheckAgain, TickTyped, Obs
  <2> QED
    BY <1>3, <2>1, <2>2
    DEF CheckAgain, ToDecide, NodeTyped, PhaseTyped, WatchTyped, TickTyped, HistTyped, Step
<1>4. ASSUME CheckDark PROVE TypeOK'
  <2>1. /\ trouble' \in Trouble /\ troubled' \in Trouble /\ handed' \in BOOLEAN
    BY <1>4, Typed, SetTroubleTyped DEF CheckDark, WatchTyped, NodeTyped, HistTyped
  <2>2. off' \in BOOLEAN /\ darkOn' \in MaybeTo(WakeTimeout + 1)
    BY <1>4, StartFacts DEF CheckDark, DarkSince, WatchTyped
  <2> QED
    BY <1>4, <2>1, <2>2
    DEF CheckDark, ToDecide, NodeTyped, PhaseTyped, WatchTyped, TickTyped, HistTyped, Step
<1>5. ASSUME NothingDecided \/ PassOver PROVE TypeOK'
  BY <1>5, EndTickTyped
  DEF NothingDecided, PassOver, NodeTyped, PhaseTyped, WatchTyped, HistTyped
<1>6. ASSUME YieldToOperator PROVE TypeOK'
  <2>1. PhaseTyped'
    BY <1>6, Typed, LeaveTyped DEF YieldToOperator
  <2>2. HistTyped'
    BY <1>6, KnowTyped DEF YieldToOperator, HistTyped
  <2> QED
    BY <1>6, <2>1, <2>2 DEF YieldToOperator, NodeTyped, WatchTyped, TickTyped, Step
<1>7. ASSUME TakeOver PROVE TypeOK'
  <2>1. PhaseTyped'
    BY <1>7, Typed, LeaveTyped DEF TakeOver
  <2>2. HistTyped'
    BY <1>7, KnowTyped DEF TakeOver, HistTyped
  <2>3. cordon' \in Cordon
    BY <1>7 DEF TakeOver, Noted, NodeTyped, Cordon
  <2>4. darkAfter' \in MaybeTo(VisitTimeout) /\ cold' \in BOOLEAN
    BY <1>7, StartFacts DEF TakeOver, DarkAfterVisit, ForgetWake, WatchTyped
  <2> QED
    BY <1>7, <2>1, <2>2, <2>3, <2>4 DEF TakeOver, NodeTyped, WatchTyped, TickTyped, Step
<1>8. ASSUME VisitTimesOut \/ WindowOver PROVE TypeOK'
  <2>1. CASE EndVisit /\ Steps("maintaining") /\ UNCHANGED <<mach, cold, off>>
    <3>1. \A o \in Outcomes : Noted(cordon, "ours", o) \in Cordon
      BY DEF Noted, NodeTyped, Cordon
    <3>2. PhaseTyped' /\ cordon' \in Cordon
      BY <2>1, <3>1, BeginSleepTyped DEF EndVisit
    <3>3. HistTyped'
      BY <2>1, KnowTyped DEF EndVisit, HistTyped
    <3> QED
      BY <2>1, <3>2, <3>3 DEF EndVisit, NodeTyped, WatchTyped, TickTyped, Step
  <2>2. CASE VisitTimesOut /\ ~obs.ready
    <3>1. PhaseTyped'
      BY <2>2, Typed, LeaveTyped DEF VisitTimesOut
    <3>2. trouble' \in Trouble /\ troubled' \in Trouble /\ handed' \in BOOLEAN
      BY <2>2, Typed, SetTroubleTyped DEF VisitTimesOut, NodeTyped
    <3>3. darkAfter' \in MaybeTo(VisitTimeout)
      BY <2>2, StartFacts DEF VisitTimesOut, DarkAfterVisit, WatchTyped
    <3> QED
      BY <2>2, <3>1, <3>2, <3>3
      DEF VisitTimesOut, NodeTyped, WatchTyped, TickTyped, HistTyped, Step
  <2> QED
    BY <1>8, <2>1, <2>2 DEF VisitTimesOut, WindowOver
<1>9. ASSUME VisitUncordoned PROVE TypeOK'
  <2>1. PhaseTyped'
    BY <1>9, Typed, LeaveTyped DEF VisitUncordoned
  <2>2. HistTyped'
    BY <1>9, KnowTyped DEF VisitUncordoned, HistTyped
  <2> QED
    BY <1>9, <2>1, <2>2 DEF VisitUncordoned, NodeTyped, WatchTyped, TickTyped, Step
<1>10. ASSUME VisitGoesOn PROVE TypeOK'
  <2>1. PhaseTyped'
    BY <1>10, StartFacts DEF VisitGoesOn, PhaseTyped
  <2> QED
    BY <1>10, <2>1 DEF VisitGoesOn, NodeTyped, WatchTyped, TickTyped, HistTyped, Step
<1>11. ASSUME WakeWaits \/ SleepGoesOn PROVE TypeOK'
  BY <1>11
  DEF WakeWaits, SleepGoesOn, NodeTyped, PhaseTyped, WatchTyped, TickTyped, HistTyped, Step
<1>12. ASSUME WakeArrives \/ SleepAbandoned PROVE TypeOK'
  <2>1. PhaseTyped'
    BY <1>12, Typed, LeaveTyped DEF WakeArrives, SleepAbandoned, PhaseTyped
  <2>2. cordon' \in Cordon /\ cold' \in BOOLEAN
    BY <1>12 DEF WakeArrives, SleepAbandoned, Noted, NodeTyped, WatchTyped, Cordon
  <2> QED
    BY <1>12, <2>1, <2>2
    DEF WakeArrives, SleepAbandoned, NodeTyped, WatchTyped, TickTyped, HistTyped, Step
<1>13. ASSUME WakeFindsOff \/ WakeTimesOut PROVE TypeOK'
  <2>1. PhaseTyped'
    BY <1>13, Typed, LeaveTyped DEF WakeFindsOff, WakeTimesOut
  <2>2. trouble' \in Trouble /\ troubled' \in Trouble /\ handed' \in BOOLEAN
    BY <1>13, Typed, SetTroubleTyped
    DEF WakeFindsOff, WakeTimesOut, NodeTyped, WatchTyped, HistTyped
  <2> QED
    BY <1>13, <2>1, <2>2
    DEF WakeFindsOff, WakeTimesOut, NodeTyped, WatchTyped, TickTyped, HistTyped, Step
<1>14. ASSUME CutPower PROVE TypeOK'
  <2>1. trouble' \in Trouble /\ troubled' \in Trouble /\ handed' \in BOOLEAN
    BY <1>14, Typed, SetTroubleTyped DEF CutPower, NodeTyped, WatchTyped, HistTyped
  <2>2. HistTyped'
    BY <1>14, <2>1, KnowTyped DEF CutPower
  <2>3. PhaseTyped'
    <3>1. CASE Leave("none")
      BY <3>1, Typed, LeaveTyped
    <3>2. CASE cycled' = TRUE /\ phaseSince' = 0 /\ UNCHANGED <<phase, visitVars>>
      BY <3>2, StartFacts DEF PhaseTyped
    <3> QED
      BY <1>14, <3>1, <3>2 DEF CutPower
  <2> QED
    BY <1>14, <2>1, <2>2, <2>3 DEF CutPower, NodeTyped, WatchTyped, TickTyped, Step
<1>15. ASSUME ShutDown PROVE TypeOK'
  <2>1. PhaseTyped'
    BY <1>15, Typed, LeaveTyped DEF ShutDown
  <2>2. trouble' \in Trouble /\ troubled' \in Trouble /\ handed' \in BOOLEAN
    BY <1>15, Typed, SetTroubleTyped DEF ShutDown, NodeTyped, WatchTyped, HistTyped
  <2>3. HistTyped'
    BY <1>15, <2>2, KnowTyped DEF ShutDown
  <2>4. mach' \in Machine /\ off' \in BOOLEAN
    BY <1>15 DEF ShutDown, NodeTyped, WatchTyped, Machine
  <2> QED
    BY <1>15, <2>1, <2>2, <2>3, <2>4 DEF ShutDown, NodeTyped, WatchTyped, TickTyped, Step
<1>16. ASSUME StartWake PROVE TypeOK'
  <2>1. mach' \in Machine
    BY <1>16 DEF StartWake, PowersOn, NodeTyped, Machine
  <2>2. PhaseTyped' /\ cold' \in BOOLEAN /\ off' \in BOOLEAN
    <3>1. CASE /\ phase' = "waking" /\ phaseSince' = 0
               /\ cold' = (mach = "off") /\ cycled' = FALSE /\ off' = FALSE
      <4>1. ~poweredOn /\ window = Never
        BY <1>16 DEF StartWake, Idle, PhaseTyped
      <4> QED
        BY <1>16, <3>1, <4>1, StartFacts, Typed DEF StartWake, PhaseTyped
    <3>2. CASE UNCHANGED <<phase, phaseSince, wakeVars, off>>
      BY <1>16, <3>2 DEF StartWake, PhaseTyped, WatchTyped
    <3> QED
      BY <1>16, <3>1, <3>2 DEF StartWake
  <2> QED
    BY <1>16, <2>1, <2>2, EndTickTyped DEF StartWake, NodeTyped, WatchTyped, HistTyped
<1>17. ASSUME FinishWake PROVE TypeOK'
  <2>1. cordon' \in Cordon
    BY <1>17 DEF FinishWake, Noted, NodeTyped, Cordon
  <2> QED
    BY <1>17, <2>1, EndTickTyped DEF FinishWake, NodeTyped, PhaseTyped, WatchTyped, HistTyped
<1>18. ASSUME FinishSleep \/ ChooseToSleep PROVE TypeOK'
  <2>1. PhaseTyped' /\ cordon' \in Cordon
    BY <1>18, BeginSleepTyped DEF FinishSleep, ChooseToSleep, NodeTyped
  <2> QED
    BY <1>18, <2>1, EndTickTyped DEF FinishSleep, ChooseToSleep, NodeTyped, WatchTyped, HistTyped
<1>19. ASSUME VisitPowersOn PROVE TypeOK'
  <2>1. PICK o \in Outcomes, p \in Outcomes :
          /\ visited' = Noted(visited, 0, o)
          /\ PowersOn(p)
          /\ known' = KnownBy(o, p)
          /\ sinceOn' = IF KnownBy(o, p) = "nobody" THEN Never ELSE 0
          /\ IF p = "done" THEN Visiting(TRUE)
                          ELSE UNCHANGED <<phase, phaseSince, visitVars, off>>
    BY <1>19 DEF VisitPowersOn
  <2>2. mach' \in Machine /\ visited' \in Spared
    BY <2>1, SparedFacts DEF PowersOn, Noted, NodeTyped, Machine
  <2>3. HistTyped'
    <3>1. KnownBy(o, p) \in {"node", "process", "nobody"}
      BY DEF KnownBy
    <3>2. handed' \in BOOLEAN
      BY <1>19 DEF VisitPowersOn, BeginsVisit, HistTyped
    <3> QED
      BY <2>1, <3>1, <3>2, SparedFacts, NeverAssumption DEF HistTyped
  <2>4. PhaseTyped' /\ off' \in BOOLEAN
    BY <1>19, <2>1, StartFacts DEF VisitPowersOn, BeginsVisit, Visiting, PhaseTyped, WatchTyped, Phase
  <2> QED
    BY <1>19, <2>2, <2>3, <2>4, EndTickTyped DEF VisitPowersOn, BeginsVisit, NodeTyped, WatchTyped
<1>20. ASSUME VisitFindsPowered PROVE TypeOK'
  <2>1. PhaseTyped'
    BY <1>20, StartFacts DEF VisitFindsPowered, BeginsVisit, Visiting, PhaseTyped, Phase
  <2> QED
    BY <1>20, <2>1, EndTickTyped
    DEF VisitFindsPowered, BeginsVisit, Visiting, NodeTyped, WatchTyped, HistTyped
<1>21. ASSUME Boots \/ GoesDark \/ OperatorPowersOn PROVE TypeOK'
  BY <1>21
  DEF Boots, GoesDark, OperatorPowersOn, NodeTyped, PhaseTyped, WatchTyped, TickTyped, HistTyped, Machine
<1>22. ASSUME LosesPower PROVE TypeOK'
  <2>1. HistTyped'
    BY <1>22, KnowTyped DEF LosesPower, HistTyped
  <2> QED
    BY <1>22, <2>1 DEF LosesPower, NodeTyped, PhaseTyped, WatchTyped, TickTyped, Machine
<1>23. ASSUME OperatorTakes \/ OperatorReturns PROVE TypeOK'
  BY <1>23
  DEF OperatorTakes, OperatorReturns, NodeTyped, PhaseTyped, WatchTyped, TickTyped, HistTyped, Cordon
<1>24. ASSUME Restart PROVE TypeOK'
  <2>1. handed' \in BOOLEAN
    <3>1. (handed /\ troubled # "no") \in BOOLEAN
      OBVIOUS
    <3> QED
      BY <1>24, <3>1 DEF Restart
  <2>2. HistTyped'
    BY <1>24, <2>1, KnowTyped DEF Restart
  <2>3. PhaseTyped' /\ WatchTyped'
    BY <1>24, StartFacts, Typed DEF Restart, PhaseTyped, WatchTyped
  <2> QED
    BY <1>24, <2>2, <2>3, EndTickTyped DEF Restart, NodeTyped
<1>25. ASSUME TimePasses PROVE TypeOK'
  <2>1. PhaseTyped'
    <3>1. phaseSince' \in AgeTo(VisitTimeout + 1)
      BY <1>25, AgeFacts DEF TimePasses, PhaseTyped
    <3>2. window' \in MaybeTo(Window) /\ (window' = Never <=> window = Never)
      BY <1>25, AgeFacts DEF TimePasses, PhaseTyped
    <3> QED
      BY <1>25, <3>1, <3>2 DEF TimePasses, PhaseTyped
  <2>2. darkAfter' \in MaybeTo(VisitTimeout) /\ darkOn' \in MaybeTo(WakeTimeout + 1)
    BY <1>25, AgeFacts DEF TimePasses, WatchTyped
  <2>3. visited' \in Spared
    BY <1>25, SparedFacts DEF TimePasses, NodeTyped
  <2>4. HistTyped'
    <3>1. sinceOn' \in Spared /\ (sinceOn = Never => sinceOn' = Never)
      BY <1>25, SparedFacts DEF TimePasses, HistTyped, Spent
    <3> QED
      BY <1>25, <3>1 DEF TimePasses, HistTyped
  <2> QED
    BY <1>25, <2>1, <2>2, <2>3, <2>4 DEF TimePasses, NodeTyped, WatchTyped, TickTyped
<1>26. CASE UNCHANGED vars
  BY <1>26 DEF vars, NodeTyped, PhaseTyped, WatchTyped, TickTyped, HistTyped
<1> QED
  BY <1>1, <1>2, <1>3, <1>4, <1>5, <1>6, <1>7, <1>8, <1>9, <1>10, <1>11, <1>12, <1>13, <1>14,
     <1>15, <1>16, <1>17, <1>18, <1>19, <1>20, <1>21, <1>22, <1>23, <1>24, <1>25, <1>26
  DEF Next, Controller, Environment, CheckingDark, VisitStep, WakeStep, SleepStep, Begins

\* The state of a node that is visited keeps its type, at every bound.
THEOREM TypeCorrect == Spec => []TypeOK
<1>1. ASSUME Init PROVE TypeOK
  <2>1. NodeTyped /\ HistTyped
    BY <1>1, SparedFacts, Typed DEF Init, NodeTyped, HistTyped, Cordon, Machine
  <2>2. PhaseTyped /\ WatchTyped
    BY <1>1, StartFacts, Typed DEF Init, PhaseTyped, WatchTyped
  <2>3. TickTyped
    BY <1>1, Typed DEF Init, TickTyped, Step, NoObs, Obs, Cordon
  <2> QED
    BY <2>1, <2>2, <2>3 DEF TypeOK
<1> QED
  BY <1>1, TypeStep, PTL DEF Spec

(***************************************************************************)
(* The invariant, one part of it at a time.                                *)
(***************************************************************************)

\* The trouble of a node: told anew, taken back, or as it was in a tick that goes on.
LEMMA TroubleSame ==
  ASSUME TroubleKnown, UNCHANGED <<trouble, troubled, handed>>,
         pc' = "between" \/ (pc # "between" /\ UNCHANGED obs) \/ UNCHANGED <<pc, obs>>
  PROVE  TroubleKnown'
  BY DEF TroubleKnown

LEMMA TroubleStep == TypeOK /\ TroubleKnown /\ [Next]_vars => TroubleKnown'
<1> SUFFICES ASSUME TypeOK, TroubleKnown, [Next]_vars PROVE TroubleKnown'
  OBVIOUS
<1>1. ASSUME Observe PROVE TroubleKnown'
  <2>1. CASE Ready \/ cordon = "theirs"
    BY <1>1, <2>1 DEF Observe, TroubleKnown
  <2>2. CASE ~(Ready \/ cordon = "theirs")
    <3>1. obs'.trouble = troubled /\ UNCHANGED <<trouble, handed>>
      BY <1>1, <2>2 DEF Observe
    <3>2. trouble = "no" => troubled' = troubled
      BY <1>1, <2>2 DEF Observe
    <3> QED
      BY <1>1, <3>1, <3>2 DEF Observe, TroubleKnown
  <2> QED
    BY <2>1, <2>2
<1>2. ASSUME NotChecked \/ CheckAgain \/ CheckDark PROVE TroubleKnown'
  <2>1. pc # "between"
    BY <1>2 DEF NotChecked, CheckAgain, CheckDark, ToDecide
  <2>2. \/ handed' = FALSE
        \/ SetTrouble("power")
        \/ UNCHANGED <<trouble, troubled, handed, obs>>
    BY <1>2 DEF NotChecked, CheckAgain, CheckDark
  <2> QED
    BY <2>1, <2>2, TroubleSame DEF SetTrouble, TroubleKnown
<1>3. ASSUME VisitStep \/ YieldToOperator \/ SleepGoesOn \/ SleepAbandoned PROVE TroubleKnown'
  <2>1. pc # "between" /\ UNCHANGED obs
    BY <1>3 DEF VisitStep, TakeOver, VisitTimesOut, VisitUncordoned, VisitGoesOn, WindowOver,
       YieldToOperator, SleepGoesOn, SleepAbandoned
  <2>2. SetTrouble("human") \/ UNCHANGED <<trouble, troubled, handed>>
    BY <1>3 DEF VisitStep, TakeOver, VisitTimesOut, VisitUncordoned, VisitGoesOn, WindowOver,
       EndVisit, YieldToOperator, SleepGoesOn, SleepAbandoned
  <2> QED
    BY <2>1, <2>2, TroubleSame DEF SetTrouble, TroubleKnown
<1>4. ASSUME WakeStep \/ ShutDown PROVE TroubleKnown'
  <2>1. pc # "between" /\ UNCHANGED obs
    BY <1>4 DEF WakeStep, WakeWaits, WakeArrives, WakeFindsOff, WakeTimesOut, CutPower, ShutDown
  <2>2. \/ SetTrouble("human") \/ SetTrouble("power")
        \/ UNCHANGED <<trouble, troubled, handed>>
    BY <1>4 DEF WakeStep, WakeWaits, WakeArrives, WakeFindsOff, WakeTimesOut, CutPower, ShutDown
  <2> QED
    BY <2>1, <2>2, TroubleSame DEF SetTrouble, TroubleKnown
<1>5. ASSUME NothingDecided \/ Begins PROVE TroubleKnown'
  <2>1. pc' = "between"
    BY <1>5 DEF NothingDecided, Begins, StartWake, FinishWake, FinishSleep, ChooseToSleep, Stranded,
       VisitPowersOn, VisitFindsPowered, BeginsVisit, PassOver, EndTick
  <2>2. UNCHANGED <<trouble, troubled, handed>>
    BY <1>5 DEF NothingDecided, Begins, StartWake, FinishWake, FinishSleep, ChooseToSleep,
       VisitPowersOn, VisitFindsPowered, BeginsVisit, PassOver
  <2> QED
    BY <2>1, <2>2, TroubleSame
<1>6. ASSUME Restart PROVE TroubleKnown'
  BY <1>6 DEF Restart, EndTick, TroubleKnown
<1>7. ASSUME Environment, ~Restart PROVE TroubleKnown'
  <2>1. UNCHANGED <<trouble, troubled, handed, pc, obs>>
    BY <1>7 DEF Environment, Boots, GoesDark, LosesPower, OperatorTakes, OperatorReturns,
       OperatorPowersOn, TimePasses
  <2> QED
    BY <2>1, TroubleSame
<1>8. CASE UNCHANGED vars
  BY <1>8, TroubleSame DEF vars
<1> QED
  BY <1>1, <1>2, <1>3, <1>4, <1>5, <1>6, <1>7, <1>8
  DEF Next, Controller, CheckingDark, SleepStep

\* A cold boot is no visit's: only a machine that is off can be booted cold, and no visit
\* powers on a node in a wake.
LEMMA ColdStep == TypeOK /\ VisitAccounted /\ ColdIsNoVisit /\ [Next]_vars => ColdIsNoVisit'
<1> SUFFICES ASSUME TypeOK, VisitAccounted, ColdIsNoVisit, [Next]_vars PROVE ColdIsNoVisit'
  OBVIOUS
<1>1. ASSUME UNCHANGED <<phase, cold>>,
             UNCHANGED knowVars \/ Forgets \/ NobodyKnows \/ sinceOn' = Spent(sinceOn)
      PROVE  ColdIsNoVisit'
  BY <1>1 DEF ColdIsNoVisit, Forgets, NobodyKnows, Spent
<1>2. ASSUME Observe \/ CheckingDark \/ NothingDecided \/ PassOver \/ FinishWake PROVE ColdIsNoVisit'
  BY <1>1, <1>2 DEF Observe, CheckingDark, NotChecked, CheckAgain, CheckDark, NothingDecided,
     PassOver, FinishWake
<1>3. ASSUME VisitGoesOn \/ WakeWaits \/ SleepGoesOn PROVE ColdIsNoVisit'
  BY <1>1, <1>3 DEF VisitGoesOn, WakeWaits, SleepGoesOn
<1>4. ASSUME \/ YieldToOperator \/ VisitTimesOut \/ VisitUncordoned \/ WindowOver
             \/ WakeFindsOff \/ WakeTimesOut \/ SleepAbandoned \/ ShutDown
             \/ FinishSleep \/ ChooseToSleep
      PROVE  ColdIsNoVisit'
  <2>1. phase' # "waking"
    BY <1>4 DEF YieldToOperator, VisitTimesOut, VisitUncordoned, WindowOver, WakeFindsOff,
       WakeTimesOut, SleepAbandoned, ShutDown, FinishSleep, ChooseToSleep, EndVisit, BeginSleep,
       Leave, LeaveFor
  <2> QED
    BY <2>1 DEF ColdIsNoVisit
<1>5. ASSUME TakeOver PROVE ColdIsNoVisit'
  BY <1>5 DEF TakeOver, ForgetWake, Leave, LeaveFor, ColdIsNoVisit
<1>6. ASSUME WakeArrives PROVE ColdIsNoVisit'
  BY <1>1, <1>6 DEF WakeArrives, Leave, LeaveFor, ColdIsNoVisit
<1>7. ASSUME CutPower PROVE ColdIsNoVisit'
  BY <1>7 DEF CutPower, NobodyKnows, Leave, LeaveFor, ColdIsNoVisit
<1>8. ASSUME StartWake PROVE ColdIsNoVisit'
  BY <1>8 DEF StartWake, VisitAccounted, ColdIsNoVisit, Idle
<1>9. ASSUME VisitPowersOn \/ VisitFindsPowered PROVE ColdIsNoVisit'
  <2>1. phase = "none"
    BY <1>9 DEF VisitPowersOn, VisitFindsPowered, BeginsVisit, Idle
  <2>2. phase' # "waking"
    BY <1>9, <2>1 DEF VisitPowersOn, VisitFindsPowered, Visiting
  <2> QED
    BY <2>2 DEF ColdIsNoVisit
<1>10. ASSUME Environment PROVE ColdIsNoVisit'
  <2>1. CASE Restart
    BY <2>1 DEF Restart, ColdIsNoVisit
  <2>2. CASE ~Restart
    BY <1>1, <1>10, <2>2 DEF Environment, Boots, GoesDark, LosesPower, OperatorTakes,
       OperatorReturns, OperatorPowersOn, TimePasses
  <2> QED
    BY <2>1, <2>2
<1>11. CASE UNCHANGED vars
  BY <1>1, <1>11 DEF vars
<1> QED
  BY <1>2, <1>3, <1>4, <1>5, <1>6, <1>7, <1>8, <1>9, <1>10, <1>11
  DEF Next, Controller, VisitStep, WakeStep, SleepStep, Begins

\* Nobody who need know is left.
LEMMA AccountedForgotten == sinceOn' = Never => VisitAccounted'
  BY DEF VisitAccounted

\* A step that leaves the note and the memory of a visit alone, and leaves no visit that
\* only this process knows of.
LEMMA AccountedSame ==
  ASSUME VisitAccounted, UNCHANGED <<knowVars, visited, darkAfter>>,
         mach' = "off" => mach = "off",
         (known = "process" /\ phase = "maintaining") => UNCHANGED <<phase, poweredOn>>
  PROVE  VisitAccounted'
  BY DEF VisitAccounted, KeptOnNode, KeptInMemory

\* The same with a release: what only this process knew is forgotten.
LEMMA AccountedLeft ==
  ASSUME TypeOK, VisitAccounted, Forgets, UNCHANGED <<visited, darkAfter>>,
         mach' = "off" => mach = "off"
  PROVE  VisitAccounted'
<1>1. CASE known = "process"
  BY <1>1, AccountedForgotten DEF Forgets, NobodyKnows
<1>2. CASE known # "process"
  BY <1>2, AccountedSame DEF Forgets
<1> QED
  BY <1>1, <1>2

\* A visit that is let go of while its node is dark is remembered from here.
LEMMA AccountedDark ==
  ASSUME TypeOK, VisitAccounted, phase = "maintaining", UNCHANGED <<knowVars, visited, mach>>,
         darkAfter' = DarkAfterVisit
  PROVE  VisitAccounted'
<1> SUFFICES ASSUME sinceOn' # Never PROVE VisitAccounted'
  BY AccountedForgotten
<1>1. sinceOn \in Nat
  BY DEF TypeOK, HistTyped, Spared, MaybeTo, AgeTo
<1>2. mach' # "off" /\ KeptOnNode'
  BY DEF VisitAccounted, KeptOnNode
<1>3. KeptInMemory'
  <2>1. CASE poweredOn /\ darkAfter = Never
    BY <1>1, <2>1, NeverAssumption DEF KeptInMemory, DarkAfterVisit
  <2>2. CASE ~(poweredOn /\ darkAfter = Never)
    BY <2>2 DEF VisitAccounted, KeptInMemory, DarkAfterVisit
  <2> QED
    BY <2>1, <2>2
<1> QED
  BY <1>2, <1>3 DEF VisitAccounted

\* The note of a visit, and the memory of it, grow old with it and no sooner.
LEMMA AccountedAges == TypeOK /\ VisitAccounted /\ TimePasses => VisitAccounted'
<1> SUFFICES ASSUME TypeOK, VisitAccounted, TimePasses, sinceOn' # Never PROVE VisitAccounted'
  BY AccountedForgotten
<1>1. /\ sinceOn \in Nat /\ sinceOn < 2 * VisitTimeout - 1
      /\ sinceOn' = sinceOn + 1 /\ known' = known
  BY NeverAssumption DEF TimePasses, Spent, TypeOK, HistTyped, Spared, MaybeTo, AgeTo
<1>2. sinceOn # Never
  BY <1>1, NeverAssumption
<1>3. KeptOnNode'
  <2> SUFFICES ASSUME known = "node" PROVE visited' # Never /\ visited' <= sinceOn'
    BY <1>1 DEF KeptOnNode
  <2>1. visited # Never /\ visited <= sinceOn
    BY <1>2 DEF VisitAccounted, KeptOnNode
  <2>2. visited \in Nat
    BY <2>1 DEF TypeOK, NodeTyped, Spared, MaybeTo, AgeTo
  <2>3. visited' = visited + 1
    BY <1>1, <2>1, <2>2 DEF TimePasses, Spent
  <2> QED
    BY <1>1, <2>1, <2>2, <2>3, NeverAssumption
<1>4. KeptInMemory'
  <2> SUFFICES ASSUME known = "process",
                      ~(phase = "maintaining" /\ poweredOn /\ darkAfter = Never)
               PROVE  darkAfter' # Never /\ darkAfter' <= sinceOn'
    BY <1>1 DEF KeptInMemory, TimePasses, Aged
  <2>1. darkAfter # Never /\ darkAfter <= sinceOn
    BY <1>2 DEF VisitAccounted, KeptInMemory
  <2>2. darkAfter \in Nat
    BY <2>1 DEF TypeOK, WatchTyped, MaybeTo, AgeTo
  <2>3. darkAfter' \in {darkAfter, darkAfter + 1}
    BY <2>1 DEF TimePasses, Aged
  <2> QED
    BY <1>1, <2>1, <2>2, <2>3, NeverAssumption
<1> QED
  BY <1>1, <1>2, <1>3, <1>4 DEF VisitAccounted, TimePasses

LEMMA AccountedStep == TypeOK /\ VisitAccounted /\ [Next]_vars => VisitAccounted'
<1> SUFFICES ASSUME TypeOK, VisitAccounted, [Next]_vars PROVE VisitAccounted'
  OBVIOUS
<1>1. ASSUME Observe PROVE VisitAccounted'
  <2>1. CASE Ready /\ ~poweredOn
    <3>1. CASE known = "process"
      BY <1>1, <2>1, <3>1, AccountedForgotten DEF Observe, Forgets, NobodyKnows
    <3>2. CASE known # "process"
      BY <1>1, <2>1, <3>2 DEF Observe, Forgets, VisitAccounted, KeptOnNode, KeptInMemory
    <3> QED
      BY <3>1, <3>2
  <2>2. CASE Ready /\ poweredOn
    <3>1. phase = "maintaining"
      BY <2>2 DEF TypeOK, PhaseTyped
    <3> QED
      BY <1>1, <2>2, <3>1 DEF Observe, VisitAccounted, KeptOnNode, KeptInMemory
  <2>3. CASE ~Ready
    BY <1>1, <2>3, AccountedSame DEF Observe
  <2> QED
    BY <2>1, <2>2, <2>3
<1>2. ASSUME \/ CheckingDark \/ NothingDecided \/ PassOver \/ FinishWake
             \/ VisitGoesOn \/ WakeWaits \/ SleepGoesOn
      PROVE  VisitAccounted'
  BY <1>2, AccountedSame DEF CheckingDark, NotChecked, CheckAgain, CheckDark, NothingDecided,
     PassOver, FinishWake, VisitGoesOn, WakeWaits, SleepGoesOn
<1>3. ASSUME YieldToOperator PROVE VisitAccounted'
  <2>1. CASE phase = "maintaining"
    BY <1>3, <2>1, AccountedLeft DEF YieldToOperator
  <2>2. CASE phase # "maintaining"
    BY <1>3, <2>2, AccountedSame DEF YieldToOperator
  <2> QED
    BY <2>1, <2>2
<1>4. ASSUME TakeOver \/ VisitTimesOut PROVE VisitAccounted'
  <2>1. CASE obs.ready
    BY <1>4, <2>1, AccountedLeft DEF TakeOver, VisitTimesOut, EndVisit
  <2>2. CASE ~obs.ready
    BY <1>4, <2>2, AccountedDark DEF TakeOver, VisitTimesOut
  <2> QED
    BY <2>1, <2>2
<1>5. ASSUME VisitUncordoned \/ WindowOver PROVE VisitAccounted'
  BY <1>5, AccountedLeft DEF VisitUncordoned, WindowOver, EndVisit
<1>6. ASSUME \/ WakeArrives \/ WakeFindsOff \/ WakeTimesOut \/ SleepAbandoned
             \/ FinishSleep \/ ChooseToSleep \/ VisitFindsPowered
      PROVE  VisitAccounted'
  <2>1. phase # "maintaining"
    BY <1>6 DEF WakeArrives, WakeFindsOff, WakeTimesOut, SleepAbandoned, FinishSleep,
       ChooseToSleep, VisitFindsPowered, BeginsVisit, Stranded, Idle
  <2> QED
    BY <1>6, <2>1, AccountedSame DEF WakeArrives, WakeFindsOff, WakeTimesOut, SleepAbandoned,
       FinishSleep, ChooseToSleep, VisitFindsPowered, BeginsVisit
<1>7. ASSUME CutPower \/ ShutDown PROVE VisitAccounted'
  <2>1. CASE NobodyKnows
    BY <2>1, AccountedForgotten DEF NobodyKnows
  <2>2. CASE ~NobodyKnows
    BY <1>7, <2>2, AccountedSame DEF CutPower, ShutDown
  <2> QED
    BY <2>1, <2>2
<1>8. ASSUME StartWake PROVE VisitAccounted'
  <2>1. mach' = "off" => mach = "off"
    BY <1>8 DEF StartWake
  <2> QED
    BY <1>8, <2>1, AccountedSame DEF StartWake, Idle
<1>9. ASSUME VisitPowersOn PROVE VisitAccounted'
  <2>1. PICK o \in Outcomes, p \in Outcomes :
          /\ visited' = Noted(visited, 0, o)
          /\ PowersOn(p)
          /\ known' = KnownBy(o, p)
          /\ sinceOn' = IF KnownBy(o, p) = "nobody" THEN Never ELSE 0
          /\ IF p = "done" THEN Visiting(TRUE)
                          ELSE UNCHANGED <<phase, phaseSince, visitVars, off>>
    BY <1>9 DEF VisitPowersOn
  <2>2. CASE p = "failed"
    BY <2>1, <2>2, AccountedForgotten DEF KnownBy
  <2>3. CASE p # "failed" /\ o # "failed"
    <3>1. mach' = "dark" /\ known' = "node" /\ visited' = 0 /\ sinceOn' = 0
      BY <2>1, <2>3 DEF PowersOn, KnownBy, Noted
    <3> QED
      BY <3>1, NeverAssumption DEF VisitAccounted, KeptOnNode, KeptInMemory
  <2>4. CASE p # "failed" /\ o = "failed" /\ p = "done" /\ darkAfter = Never
    <3>1. mach' = "dark" /\ known' = "process"
      BY <2>1, <2>4 DEF PowersOn, KnownBy
    <3>2. phase' = "maintaining" /\ poweredOn' = TRUE /\ darkAfter' = Never
      BY <1>9, <2>1, <2>4 DEF VisitPowersOn, BeginsVisit, Visiting
    <3> QED
      BY <3>1, <3>2 DEF VisitAccounted, KeptOnNode, KeptInMemory
  <2>5. CASE p # "failed" /\ o = "failed" /\ ~(p = "done" /\ darkAfter = Never)
    BY <2>1, <2>5, AccountedForgotten DEF KnownBy
  <2> QED
    BY <2>2, <2>3, <2>4, <2>5
<1>10. ASSUME \/ Boots \/ GoesDark \/ OperatorTakes \/ OperatorReturns \/ OperatorPowersOn
       PROVE  VisitAccounted'
  BY <1>10, AccountedSame DEF Boots, GoesDark, OperatorTakes, OperatorReturns, OperatorPowersOn
<1>11. ASSUME LosesPower PROVE VisitAccounted'
  BY <1>11, AccountedForgotten DEF LosesPower, NobodyKnows
<1>12. ASSUME Restart PROVE VisitAccounted'
  <2>1. CASE known = "process"
    BY <1>12, <2>1, AccountedForgotten DEF Restart, Forgets, NobodyKnows
  <2>2. CASE known # "process"
    BY <1>12, <2>2 DEF Restart, Forgets, VisitAccounted, KeptOnNode, KeptInMemory
  <2> QED
    BY <2>1, <2>2
<1>13. ASSUME TimePasses PROVE VisitAccounted'
  BY <1>13, AccountedAges
<1>14. CASE UNCHANGED vars
  BY <1>14, AccountedSame DEF vars
<1> QED
  BY <1>1, <1>2, <1>3, <1>4, <1>5, <1>6, <1>7, <1>8, <1>9, <1>10, <1>11, <1>12, <1>13, <1>14
  DEF Next, Controller, Environment, VisitStep, WakeStep, SleepStep, Begins

\* The note and the memory of a visit that powered its node on outlast what they guard, a
\* cold boot is no visit's, and trouble stays known to whoever would visit.
THEOREM VisitInvariant == Spec => []Inv
<1>1. Init => VisitInv
  BY DEF Init, VisitInv, VisitAccounted, ColdIsNoVisit, TroubleKnown
<1>2. TypeOK /\ VisitInv /\ [Next]_vars => VisitInv'
  BY AccountedStep, ColdStep, TroubleStep DEF VisitInv
<1> QED
  BY <1>1, <1>2, TypeCorrect, PTL DEF Spec, Inv

(***************************************************************************)
(* What it is for.                                                         *)
(***************************************************************************)

\* Power is never cut to a machine inside the grace of a visit: a wake that may cut is a
\* cold boot of its own, or finds both the note and the memory of the visit spent.
THEOREM UpdateIsSpared == Spec => VisitGraceHonoured
<1>1. TypeOK /\ VisitInv /\ CutPower => sinceOn = Never \/ sinceOn >= Grace
  <2> SUFFICES ASSUME TypeOK, VisitInv, CutPower, sinceOn # Never PROVE sinceOn >= Grace
    OBVIOUS
  <2>1. phase = "waking" /\ ~cold
    BY DEF CutPower, VisitInv, ColdIsNoVisit
  <2>2. ~MayBeUpdating
    BY <2>1 DEF CutPower
  <2>3. known = "process"
    <3>1. known # "node"
      BY <2>2 DEF MayBeUpdating, VisitInv, VisitAccounted, KeptOnNode
    <3>2. known # "nobody"
      BY DEF TypeOK, HistTyped
    <3> QED
      BY <3>1, <3>2 DEF TypeOK, HistTyped
  <2>4. darkAfter # Never /\ darkAfter <= sinceOn
    BY <2>1, <2>3 DEF VisitInv, VisitAccounted, KeptInMemory
  <2>5. darkAfter \in Nat /\ sinceOn \in Nat /\ darkAfter >= VisitTimeout
    BY <2>2, <2>4 DEF MayBeUpdating, TypeOK, WatchTyped, HistTyped, Spared, MaybeTo, AgeTo
  <2> QED
    BY <2>3, <2>4, <2>5 DEF Grace
<1> QED
  BY <1>1, VisitInvariant, PTL DEF Inv, VisitGraceHonoured

\* No visit powers on a node under the human it was handed to.
THEOREM HandedIsLeft == Spec => HandedIsNotVisited
<1>1. VisitInv /\ BeginsVisit => ~handed
  BY DEF VisitInv, TroubleKnown, BeginsVisit, Idle, Overdue
<1> QED
  BY <1>1, VisitInvariant, PTL DEF Inv, HandedIsNotVisited

=============================================================================
