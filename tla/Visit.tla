------------------------------- MODULE Visit -------------------------------
(***************************************************************************)
(* One node asleep, and looked after: metalnap/controller.py, maintain(),  *)
(* _end_visit(), _release_visit(), the takeover of a visit by demand, and  *)
(* _check_dark(), which finds out whether a node believed off is.          *)
(*                                                                         *)
(* A visit powers the node on so that it may update itself.  From then on  *)
(* a machine that is powered and dark may be writing its own firmware, be  *)
(* wedged, or be on its way up, and nothing tells these apart: power may   *)
(* not be cut too soon, and the machine may not be left that way without a *)
(* word.  What a visit did is on the node (`visited`) and, better or       *)
(* worse, in memory (`darkAfter`, the flags of a wake), and a wake that    *)
(* demand makes of a visit is the one that could cut power.                *)
(*                                                                         *)
(* Wake and Sleep have the rest of the node's life; here a wake is what    *)
(* its timeout may do, and a sleep what it comes to.  When a visit is due  *)
(* is left open.  The kubelet reports at once (its lag is in Sleep).       *)
(* Timestamps are ages, and calls end as they do in Sleep.                 *)
(***************************************************************************)
EXTENDS Naturals

CONSTANTS
  Never,         \* "no such timestamp"
  VisitTimeout,  \* cfg.maintenance_timeout_s
  Window,        \* cfg.maintenance_window_s
  WakeTimeout,   \* cfg.wake_timeout_s
  Outcomes,      \* how a call may end: "done", "failed" or "lost"
  Actors         \* "operator", "restart"

ASSUME NeverAssumption == Never \notin Nat
ASSUME BoundsAssumption ==
  /\ VisitTimeout \in Nat /\ Window \in Nat \ {0} /\ WakeTimeout \in Nat
  /\ Window + WakeTimeout <= VisitTimeout     \* Config.validate()
ASSUME SeamsAssumption ==
  /\ Outcomes \subseteq {"done", "failed", "lost"} /\ "done" \in Outcomes
  /\ Actors \subseteq {"operator", "restart"}

VARIABLES
  \* the node object
  cordon,    \* "none", "ours", or "theirs": a person's cordon or request
  visited,   \* age of the "visited" note, or Never
  troubled,  \* the "trouble" note
  \* the machine: "dark" is powered and not up
  mach,
  \* the controller's memory, st[name]
  phase, phaseSince,
  window,     \* age of the visit's window, or Never
  poweredOn,  \* visit_powered_on; as `cycled`, kept while its phase lasts
  darkAfter,  \* age of dark_after_visit, or Never
  darkOn,     \* age of dark_on_since, or Never
  cold, cycled,
  off,        \* confirmed off
  trouble,
  \* the tick in progress
  pc, obs,
  \* history, read by properties only
  known,      \* who knows that a visit powered the machine on: "node" (the note is on
              \* it), "process" (only this one) or "nobody" who need know
  sinceOn,    \* how long ago that was, if somebody knows; or Never
  handed      \* handed to a human, and neither back, taken nor found off since

nodeVars == <<cordon, visited, troubled>>
visitVars == <<window, poweredOn>>
wakeVars == <<cold, cycled>>
watchVars == <<darkAfter, darkOn, off, trouble>>
knowVars == <<known, sinceOn>>
histVars == <<knowVars, handed>>
vars == <<nodeVars, mach, phase, phaseSince, visitVars, wakeVars, watchVars, pc, obs, histVars>>

Machine == {"off", "dark", "up"}
Cordon  == {"none", "ours", "theirs"}
Phase   == {"none", "maintaining", "waking", "sleeping"}
Step    == {"between", "dark", "decide", "visit"}

\* Trouble raised from a power reading can be taken back by one (_RECHECKABLE).
Trouble == {"no", "power", "human"}

\* The age of something, as far as what it is compared with tells it.
AgeTo(cap) == 0 .. cap
MaybeTo(cap) == AgeTo(cap) \cup {Never}
Aged(t, cap) == IF t = Never \/ t = cap THEN t ELSE t + 1

\* The visit's grace of two of its bounds: what is older says no more than nothing.
Spared == MaybeTo(2 * VisitTimeout - 1)
Spent(t) == IF t = Never \/ t = 2 * VisitTimeout - 1 THEN Never ELSE t + 1

Obs == [cordon : Cordon, ready : BOOLEAN, trouble : Trouble]
NoObs == [cordon |-> "none", ready |-> FALSE, trouble |-> "no"]

NodeTyped ==
  /\ cordon \in Cordon /\ visited \in Spared
  /\ troubled \in Trouble /\ mach \in Machine

PhaseTyped ==
  /\ phase \in Phase /\ phaseSince \in AgeTo(VisitTimeout + 1)
  /\ window \in MaybeTo(Window) /\ poweredOn \in BOOLEAN /\ cycled \in BOOLEAN
  /\ window # Never \/ poweredOn => phase = "maintaining"

WatchTyped ==
  /\ darkAfter \in MaybeTo(VisitTimeout) /\ darkOn \in MaybeTo(WakeTimeout + 1)
  /\ cold \in BOOLEAN /\ off \in BOOLEAN /\ trouble \in Trouble

TickTyped == pc \in Step /\ obs \in Obs

HistTyped ==
  /\ known \in {"node", "process", "nobody"} /\ sinceOn \in Spared /\ handed \in BOOLEAN
  /\ known = "nobody" <=> sinceOn = Never

TypeOK == NodeTyped /\ PhaseTyped /\ WatchTyped /\ TickTyped /\ HistTyped

\* Put to sleep, by this process or the one before.
Init ==
  /\ cordon = "ours" /\ visited = Never /\ troubled = "no"
  /\ mach = "off"
  /\ phase = "none" /\ phaseSince = 0 /\ window = Never /\ poweredOn = FALSE
  /\ darkAfter = Never /\ darkOn = Never /\ cold = FALSE /\ cycled = FALSE
  /\ off \in BOOLEAN /\ trouble = "no"
  /\ pc = "between" /\ obs = NoObs
  /\ sinceOn = Never /\ known = "nobody" /\ handed = FALSE

-----------------------------------------------------------------------------
(***************************************************************************)
(* Helpers.                                                                *)
(***************************************************************************)

Ready == mach = "up"
Theirs == obs.cordon = "theirs"

EndTick == pc' = "between" /\ obs' = NoObs

Noted(old, v, o) == IF o = "failed" THEN old ELSE v

LeaveFor(p) == phase' = p /\ phaseSince' = (IF p = "waking" THEN phaseSince ELSE 0)

\* The phase is let go of, or becomes p, and what is kept only while it lasts goes.
Leave(p) ==
  /\ LeaveFor(p)
  /\ window' = Never /\ poweredOn' = FALSE /\ cycled' = FALSE

\* _set_trouble(): in memory, and on the node if that does not say so already.
SetTrouble(t) ==
  /\ trouble' = t /\ handed' = TRUE
  /\ \E o \in Outcomes : troubled' = IF obs.trouble = t THEN troubled ELSE Noted(troubled, t, o)

\* A power-on: one with no effect, or one that starts the machine.
PowersOn(o) == mach' = IF o = "failed" THEN mach ELSE "dark"

NobodyKnows == known' = "nobody" /\ sinceOn' = Never

\* What only this process knew of a visit is known no more.
Forgets == IF known = "process" THEN NobodyKnows ELSE UNCHANGED knowVars

\* s.setdefault("dark_after_visit", now)
DarkAfterVisit == IF poweredOn /\ darkAfter = Never THEN 0 ELSE darkAfter

\* Mutant: the bound is read off memory only.
MayBeUpdating_MemoryOnly == darkAfter # Never /\ darkAfter < VisitTimeout

\* now < _visit_until(s, state); a note past two bounds is as none.
MayBeUpdating ==
  \/ darkAfter # Never /\ darkAfter < VisitTimeout
  \/ visited # Never

-----------------------------------------------------------------------------
(***************************************************************************)
(* The tick: the reading, and what it says of trouble.                     *)
(***************************************************************************)

\* The reading and the reconcile, up to _check_dark(), which reads nothing but it and
\* writes what nobody else does: a node that is Ready or a person's is in no trouble of
\* ours; trouble the node does not show yet is noted again.
Observe ==
  /\ pc = "between" /\ pc' = "dark"
  /\ obs' = [cordon |-> cordon, ready |-> Ready,
              trouble |-> IF Ready \/ cordon = "theirs" THEN "no" ELSE troubled]
  /\ \E asked \in {FALSE, cordon = "theirs"} :
       /\ off' = (off /\ ~asked /\ ~Ready)
       /\ darkOn' = IF asked \/ Ready THEN Never ELSE darkOn
  /\ darkAfter' = IF Ready THEN Never ELSE darkAfter
  /\ IF Ready /\ ~poweredOn THEN Forgets ELSE UNCHANGED knowVars
  /\ IF Ready \/ cordon = "theirs"
     THEN /\ trouble' = "no" /\ handed' = FALSE
          /\ \E o \in Outcomes : troubled' = Noted(troubled, "no", o)
     ELSE /\ \E o \in Outcomes :
               troubled' = IF trouble = "no" THEN troubled ELSE Noted(troubled, trouble, o)
          /\ UNCHANGED <<trouble, handed>>
  /\ UNCHANGED <<cordon, visited, mach, phase, phaseSince, visitVars, wakeVars>>

(***************************************************************************)
(* _check_dark().                                                          *)
(***************************************************************************)
ToDecide == pc = "dark" /\ pc' = "decide"

\* What the node is in trouble for, in memory or on the node.
Known == IF trouble # "no" THEN trouble ELSE obs.trouble

Applies == ~obs.ready /\ ~Theirs /\ obs.cordon = "ours"
Checks == Applies /\ phase = "none"

\* Not a dark node of ours; or an operation, a confirmation, a person or a visit's
\* update accounts for it.
NotChecked ==
  /\ ToDecide
  /\ Checks => Known = "human" \/ (Known = "no" /\ (off \/ MayBeUpdating))
  /\ darkOn' = IF Applies /\ ~Checks THEN Never ELSE darkOn
  /\ UNCHANGED <<nodeVars, mach, phase, phaseSince, visitVars, wakeVars>>
  /\ UNCHANGED <<darkAfter, off, trouble, obs, histVars>>

\* Trouble raised from a reading: a later one may take it back.
CheckAgain ==
  /\ ToDecide
  /\ Checks /\ Known = "power"
  /\ \E p \in Outcomes :
       IF p = "done" /\ mach = "off"
       THEN /\ trouble' = "no" /\ handed' = FALSE /\ off' = TRUE /\ darkOn' = Never
            /\ obs' = [obs EXCEPT !.trouble = "no"]
            /\ \E o \in Outcomes :
                 troubled' = IF obs.trouble = "no" THEN troubled ELSE Noted(troubled, "no", o)
       ELSE UNCHANGED <<trouble, handed, off, darkOn, obs, troubled>>
  /\ UNCHANGED <<cordon, visited, mach, phase, phaseSince, visitVars, wakeVars>>
  /\ UNCHANGED <<darkAfter, knowVars>>

DarkSince == IF darkOn = Never THEN 0 ELSE darkOn

\* Off, as believed; or not, and after a wake timeout's grace called what it is.
CheckDark ==
  /\ ToDecide
  /\ Checks /\ Known = "no" /\ ~off /\ ~MayBeUpdating
  /\ \E p \in Outcomes :
       IF p = "done" /\ mach = "off"
       THEN off' = TRUE /\ darkOn' = Never /\ UNCHANGED <<trouble, handed, troubled>>
       ELSE /\ darkOn' = DarkSince /\ UNCHANGED off
            /\ IF DarkSince > WakeTimeout THEN SetTrouble("power")
                                          ELSE UNCHANGED <<trouble, handed, troubled>>
  /\ UNCHANGED <<cordon, visited, mach, phase, phaseSince, visitVars, wakeVars>>
  /\ UNCHANGED <<darkAfter, obs, knowVars>>

-----------------------------------------------------------------------------
(***************************************************************************)
(* The step of the phase, in the order of the code: a person's guards, the *)
(* missing signal, the takeover, and the operation itself.                 *)
(***************************************************************************)

\* No demand signal: under a ceiling only a person's guards still act in this tick, and
\* without one the tick ends before them, a phase on a person's node with it.
NothingDecided ==
  /\ pc = "decide"
  /\ EndTick
  /\ UNCHANGED <<nodeVars, mach, phase, phaseSince, visitVars, wakeVars, watchVars, histVars>>

\* A node whose phase was stepped begins nothing in the same tick, but a visit.
Steps(p) ==
  /\ pc = "decide" /\ phase = p /\ pc' = "visit"
  /\ UNCHANGED <<visited, obs, darkOn>>

YieldToOperator ==
  /\ \E p \in Phase \ {"none"} : Steps(p)
  /\ Theirs
  /\ Leave("none")
  /\ IF phase = "maintaining" THEN Forgets ELSE UNCHANGED knowVars
  /\ UNCHANGED <<cordon, troubled, mach, cold, darkAfter, off, trouble, handed>>

\* Mutant: the flags of an earlier wake are taken over with the visit.
ForgetWake_Keeps == UNCHANGED cold

\* The flags of an earlier wake say nothing of this boot.
ForgetWake == cold' = FALSE

\* Demand takes the visit over: into service, or as a wake that is under way.
TakeOver ==
  /\ Steps("maintaining") /\ ~Theirs
  /\ IF obs.ready
     THEN /\ Leave("none") /\ Forgets
          /\ \E o \in Outcomes : cordon' = Noted(cordon, "none", o)
          /\ UNCHANGED <<darkAfter, cold>>
     ELSE /\ Leave("waking") /\ ForgetWake
          /\ darkAfter' = DarkAfterVisit
          /\ UNCHANGED <<cordon, knowVars>>
  /\ UNCHANGED <<troubled, mach, off, trouble, handed>>

\* The first step of sleep(), on a node whose cordon is c by now: after too many of
\* them it gives the node back; and it cordons a node that it does not read as ours.
BeginSleep(c) ==
  \E o \in Outcomes :
    \/ Leave("none") /\ cordon' = Noted(c, "none", o)
    \/ obs.cordon = "ours" /\ Leave("sleeping") /\ cordon' = c
    \/ /\ obs.cordon = "none" /\ cordon' = Noted(c, "ours", o)
       /\ Leave(IF o = "done" THEN "sleeping" ELSE "none")

\* _end_visit(): the cordon is written again, and the sleep begins.
EndVisit ==
  /\ \E o \in Outcomes : BeginSleep(Noted(cordon, "ours", o))
  /\ Forgets
  /\ UNCHANGED <<troubled, darkAfter, trouble, handed>>

\* Mutant: a visit that never sees its node Ready is not given up.
VisitOver_WhenReady == obs.ready /\ phaseSince > VisitTimeout

\* The bound of the whole visit, whatever its node is doing.
VisitOver == phaseSince > VisitTimeout

\* It ends as a sleep, or leaves a dark node powered and hands it over.
VisitTimesOut ==
  /\ Steps("maintaining") /\ ~Theirs
  /\ VisitOver
  /\ IF obs.ready THEN EndVisit
     ELSE /\ Leave("none")
          /\ darkAfter' = DarkAfterVisit
          /\ SetTrouble("human")
          /\ UNCHANGED <<cordon, knowVars>>
  /\ UNCHANGED <<mach, cold, off>>

VisitUncordoned ==
  /\ Steps("maintaining") /\ ~Theirs
  /\ ~VisitOver /\ obs.ready /\ obs.cordon = "none"
  /\ Leave("none") /\ Forgets
  /\ UNCHANGED <<cordon, troubled, mach, cold, darkAfter, off, trouble, handed>>

\* The window opens when the node is seen Ready, and waits while it is not.
VisitGoesOn ==
  /\ Steps("maintaining") /\ ~Theirs
  /\ ~VisitOver /\ (obs.ready => obs.cordon = "ours")
  /\ obs.ready /\ window # Never => window < Window
  /\ window' = IF obs.ready /\ window = Never THEN 0 ELSE window
  /\ UNCHANGED <<cordon, troubled, mach, phase, phaseSince, poweredOn, wakeVars>>
  /\ UNCHANGED <<darkAfter, off, trouble, histVars>>

WindowOver ==
  /\ Steps("maintaining") /\ ~Theirs
  /\ ~VisitOver /\ obs.ready /\ obs.cordon = "ours" /\ window # Never /\ window >= Window
  /\ EndVisit
  /\ UNCHANGED <<mach, cold, off>>

(***************************************************************************)
(* A wake, on the fresh reading it takes; what Wake has in full.           *)
(***************************************************************************)
TakenNow == cordon = "theirs"

\* The reading failed; or it is in time, and a power-on is not seen to have failed.
WakeWaits ==
  /\ Steps("waking") /\ ~Theirs
  /\ UNCHANGED <<cordon, troubled, mach, phase, phaseSince, visitVars, wakeVars>>
  /\ UNCHANGED <<darkAfter, off, trouble, histVars>>

\* Into service, if there is room, or to the person who has it; or the uncordon fails.
WakeArrives ==
  /\ Steps("waking") /\ ~Theirs
  /\ Ready
  /\ \/ TakenNow /\ Leave("none") /\ UNCHANGED <<cordon, cold>>
     \/ ~TakenNow /\ Leave("none") /\ cold' = FALSE /\ cordon' \in {cordon, "none"}
     \/ /\ ~TakenNow /\ "lost" \in Outcomes /\ cordon' = "none"
        /\ UNCHANGED <<phase, phaseSince, visitVars, wakeVars>>
  /\ UNCHANGED <<troubled, mach, darkAfter, off, trouble, histVars>>

\* A power-on that was refused, or did not last: told to a human, or tried again.
WakeFindsOff ==
  /\ Steps("waking") /\ ~Theirs
  /\ mach = "off"
  /\ Leave("none")
  /\ SetTrouble("human") \/ UNCHANGED <<trouble, troubled, handed>>
  /\ UNCHANGED <<cordon, mach, cold, darkAfter, off, knowVars>>

WakeTimedOut == phaseSince > WakeTimeout /\ ~Ready

\* A person's; or maybe updating, for which demand is pointed elsewhere; or given up
\* on, for any of the reasons that Wake has.
WakeTimesOut ==
  /\ Steps("waking") /\ ~Theirs
  /\ WakeTimedOut
  /\ Leave("none")
  /\ \/ /\ TakenNow \/ (~cold /\ ~cycled /\ MayBeUpdating)
        /\ UNCHANGED <<trouble, troubled, handed>>
     \/ ~TakenNow /\ SetTrouble("human")
  /\ UNCHANGED <<cordon, mach, cold, darkAfter, off, knowVars>>

\* Cut and powered again, once per wake.
CutPower ==
  /\ pc = "decide" /\ phase = "waking" /\ pc' = "visit"
  /\ ~Theirs
  /\ WakeTimedOut /\ ~TakenNow /\ mach = "dark" /\ ~cycled
  /\ cold \/ ~MayBeUpdating
  /\ \E o \in Outcomes :
       /\ IF o = "failed" THEN UNCHANGED knowVars ELSE NobodyKnows
       /\ IF o = "done"
          THEN /\ cycled' = TRUE /\ phaseSince' = 0
               /\ UNCHANGED <<phase, visitVars, trouble, troubled, handed>>
          ELSE Leave("none") /\ SetTrouble("human")
  /\ UNCHANGED <<cordon, visited, mach, cold, darkAfter, darkOn, off, obs>>

(***************************************************************************)
(* A sleep, by what it comes to: given back; down and confirmed; or not.   *)
(***************************************************************************)
SleepGoesOn ==
  /\ Steps("sleeping") /\ ~Theirs
  /\ UNCHANGED <<cordon, troubled, mach, phase, phaseSince, visitVars, wakeVars>>
  /\ UNCHANGED <<darkAfter, off, trouble, histVars>>

SleepAbandoned ==
  /\ Steps("sleeping") /\ ~Theirs
  /\ Leave("none")
  /\ IF obs.cordon = "none" THEN UNCHANGED cordon
     ELSE \E o \in Outcomes : cordon' = Noted(cordon, "none", o)
  /\ UNCHANGED <<troubled, mach, cold, darkAfter, off, trouble, histVars>>

\* It went down, and is confirmed off if its BMC can be read; or it did not.
ShutDown ==
  /\ pc = "decide" /\ phase = "sleeping" /\ pc' = "visit"
  /\ ~Theirs /\ obs.cordon = "ours"
  /\ Leave("none")
  /\ \/ /\ mach' = "off" /\ NobodyKnows
        /\ off' \in {off, TRUE}
        /\ UNCHANGED <<trouble, troubled, handed>>
     \/ /\ mach # "off"
        /\ \/ mach = "dark" /\ SetTrouble("power")
           \/ UNCHANGED <<trouble, troubled, handed>>
        /\ UNCHANGED <<mach, knowVars, off>>
  /\ UNCHANGED <<cordon, visited, obs, darkOn, cold, darkAfter>>

-----------------------------------------------------------------------------
(***************************************************************************)
(* What may begin, once the phases are stepped.  A tick takes one decision *)
(* for demand; a visit begins last, and where nothing else happens.        *)
(***************************************************************************)

\* No phase was stepped in this tick.
Idle == pc = "decide" /\ phase = "none"

\* wake(): a cold boot, or a machine found powered.
StartWake ==
  /\ Idle /\ EndTick
  /\ ~obs.ready /\ ~Theirs
  /\ \E p \in Outcomes :
       /\ IF mach = "off" THEN PowersOn(p) ELSE UNCHANGED mach
       /\ IF p = "done" \/ mach # "off"
          THEN /\ phase' = "waking" /\ phaseSince' = 0
               /\ cold' = (mach = "off") /\ cycled' = FALSE /\ off' = FALSE
          ELSE UNCHANGED <<phase, phaseSince, wakeVars, off>>
  /\ UNCHANGED <<nodeVars, visitVars, darkAfter, darkOn, trouble, histVars>>

\* A stranded node: Ready, held, and in no operation.
Stranded == Idle /\ obs.ready /\ obs.cordon = "ours"

FinishWake ==
  /\ Stranded /\ EndTick
  /\ \E o \in Outcomes : cordon' = Noted(cordon, "none", o)
  /\ UNCHANGED <<visited, troubled, mach, phase, phaseSince, visitVars, wakeVars>>
  /\ UNCHANGED <<watchVars, histVars>>

FinishSleep ==
  /\ Stranded /\ EndTick
  /\ BeginSleep(cordon)
  /\ UNCHANGED <<visited, troubled, mach, cold, watchVars, histVars>>

ChooseToSleep ==
  /\ Idle /\ EndTick
  /\ obs.ready /\ obs.cordon = "none"
  /\ BeginSleep(cordon)
  /\ UNCHANGED <<visited, troubled, mach, cold, watchVars, histVars>>

\* Mutant: what the node itself says of its trouble is not read.
Overdue_MemoryOnly == ~obs.ready /\ obs.cordon = "ours" /\ trouble = "no"

\* _overdue(): asleep under our cordon, and handed to nobody.
Overdue ==
  /\ ~obs.ready /\ obs.cordon = "ours"
  /\ trouble = "no" /\ obs.trouble = "no"

\* Who will know that a visit powered the node on, its note having ended as o and the
\* power-on as p.
KnownBy(o, p) ==
  CASE p = "failed" -> "nobody"
    [] p # "failed" /\ o # "failed" -> "node"
    [] p = "done" /\ o = "failed" /\ darkAfter = Never -> "process"
    [] OTHER -> "nobody"

BeginsVisit ==
  /\ Idle \/ (pc = "visit" /\ phase = "none")
  /\ EndTick /\ Overdue
  /\ UNCHANGED <<cordon, troubled, wakeVars, darkAfter, darkOn, trouble, handed>>

Visiting(p) ==
  /\ phase' = "maintaining" /\ phaseSince' = 0 /\ poweredOn' = p
  /\ window' = Never /\ off' = FALSE

\* maintain(): on the node first, then the power-on, then in memory.
VisitPowersOn ==
  /\ BeginsVisit
  /\ mach = "off"
  /\ \E o \in Outcomes, p \in Outcomes :
       /\ visited' = Noted(visited, 0, o)
       /\ PowersOn(p)
       /\ known' = KnownBy(o, p)
       /\ sinceOn' = IF KnownBy(o, p) = "nobody" THEN Never ELSE 0
       /\ IF p = "done" THEN Visiting(TRUE)
                       ELSE UNCHANGED <<phase, phaseSince, visitVars, off>>

\* A machine found powered is not noted as visited: it would be spared for ever.
VisitFindsPowered ==
  /\ BeginsVisit
  /\ mach # "off"
  /\ Visiting(FALSE)
  /\ UNCHANGED <<visited, mach, knowVars>>

\* Nothing begins, a call that should tell fails, or another node is served first.
PassOver ==
  /\ Idle \/ pc = "visit"
  /\ EndTick
  /\ UNCHANGED <<nodeVars, mach, phase, phaseSince, visitVars, wakeVars, watchVars, histVars>>

-----------------------------------------------------------------------------
(***************************************************************************)
(* Everybody else.                                                         *)
(***************************************************************************)
memoryVars == <<phase, phaseSince, visitVars, wakeVars, watchVars, pc, obs>>

Boots == mach = "dark" /\ mach' = "up" /\ UNCHANGED <<nodeVars, memoryVars, histVars>>

\* A reboot into an update, or a machine that locks up.
GoesDark == mach = "up" /\ mach' = "dark" /\ UNCHANGED <<nodeVars, memoryVars, histVars>>

LosesPower ==
  /\ mach # "off" /\ mach' = "off"
  /\ NobodyKnows
  /\ UNCHANGED <<nodeVars, memoryVars, handed>>

\* A cordon or a request, and the end of one: an uncordon leaves no cordon, and a
\* request withdrawn may leave ours.  kubectl uncordon leaves none of ours either.
OperatorTakes ==
  /\ "operator" \in Actors
  /\ cordon # "theirs" /\ cordon' = "theirs"
  /\ UNCHANGED <<visited, troubled, mach, memoryVars, histVars>>

OperatorReturns ==
  /\ "operator" \in Actors
  /\ cordon' \in (IF cordon = "theirs" THEN {"none", "ours"} ELSE {"none"})
  /\ UNCHANGED <<visited, troubled, mach, memoryVars, histVars>>

OperatorPowersOn ==
  /\ "operator" \in Actors
  /\ cordon = "theirs" /\ mach = "off" /\ mach' = "dark"
  /\ UNCHANGED <<nodeVars, memoryVars, histVars>>

Restart ==
  /\ "restart" \in Actors
  /\ phase' = "none" /\ phaseSince' = 0 /\ window' = Never /\ poweredOn' = FALSE
  /\ darkAfter' = Never /\ darkOn' = Never /\ cold' = FALSE /\ cycled' = FALSE
  /\ off' = FALSE /\ trouble' = "no"
  /\ EndTick
  /\ handed' = (handed /\ troubled # "no") /\ Forgets
  /\ UNCHANGED <<nodeVars, mach>>

TimePasses ==
  /\ pc = "between"
  /\ phaseSince' = IF phase \in {"maintaining", "waking"} THEN Aged(phaseSince, VisitTimeout + 1)
                                                        ELSE phaseSince
  /\ visited' = Spent(visited)
  /\ window' = Aged(window, Window)
  /\ darkAfter' = Aged(darkAfter, VisitTimeout)
  /\ darkOn' = Aged(darkOn, WakeTimeout + 1)
  /\ sinceOn' = Spent(sinceOn)
  /\ known' = IF Spent(sinceOn) = Never THEN "nobody" ELSE known
  /\ UNCHANGED <<cordon, troubled, mach, phase, poweredOn, wakeVars, off, trouble>>
  /\ UNCHANGED <<pc, obs, handed>>

-----------------------------------------------------------------------------
CheckingDark == NotChecked \/ CheckAgain \/ CheckDark

VisitStep == TakeOver \/ VisitTimesOut \/ VisitUncordoned \/ VisitGoesOn \/ WindowOver

WakeStep == WakeWaits \/ WakeArrives \/ WakeFindsOff \/ WakeTimesOut \/ CutPower

SleepStep == SleepGoesOn \/ SleepAbandoned \/ ShutDown

Begins ==
  \/ StartWake \/ FinishWake \/ FinishSleep \/ ChooseToSleep
  \/ VisitPowersOn \/ VisitFindsPowered \/ PassOver

Controller ==
  \/ Observe \/ CheckingDark \/ NothingDecided \/ YieldToOperator
  \/ VisitStep \/ WakeStep \/ SleepStep \/ Begins

Environment ==
  \/ Boots \/ GoesDark \/ LosesPower
  \/ OperatorTakes \/ OperatorReturns \/ OperatorPowersOn
  \/ Restart \/ TimePasses

Next == Controller \/ Environment

Spec == Init /\ [][Next]_vars

\* An operation on a dark node is given up, in its own way.
OperationOver == VisitTimesOut \/ WakeTimesOut \/ CutPower \/ SleepAbandoned \/ ShutDown

\* run_forever() ticks for ever and time goes on.  Asked again and again, the demand
\* signal and the API server answer in the end, so that an operation which is over is
\* seen to be; that demand takes a visit over, or that a machine boots, is left to them.
FairSpec ==
  /\ Spec
  /\ WF_vars(Controller) /\ SF_vars(TimePasses)
  /\ SF_vars(OperationOver)

-----------------------------------------------------------------------------
(***************************************************************************)
(* Properties.                                                             *)
(***************************************************************************)

\* How long a machine that a visit powered on is safe, by who knows of the visit.
Grace == IF known = "node" THEN 2 * VisitTimeout ELSE VisitTimeout

\* Power is not cut to a machine that a visit started and that may still be updating
\* itself: not for two visit bounds from its power-on if the node has the note of it,
\* and not for one if only this process knows -- whatever demand, an earlier wake, a
\* takeover or a restart in between (_cycle_refusal(), _visit_until(), the takeover).
VisitGraceHonoured == [][CutPower => sinceOn = Never \/ sinceOn >= Grace]_vars

\* A node that was handed to a human is not powered on by a visit under them, in this
\* process or, if the note of it was written, the next (_overdue()).
HandedIsNotVisited == [][BeginsVisit => ~handed]_vars

\* What the note and the memory of a visit are worth.
KeptOnNode == known = "node" => visited # Never /\ visited <= sinceOn

KeptInMemory ==
  known = "process" =>
    \/ phase = "maintaining" /\ poweredOn /\ darkAfter = Never
    \/ darkAfter # Never /\ darkAfter <= sinceOn

VisitAccounted == sinceOn # Never => mach # "off" /\ KeptOnNode /\ KeptInMemory

ColdIsNoVisit == phase = "waking" /\ cold => sinceOn = Never

TroubleKnown ==
  handed => trouble # "no" \/ (troubled # "no" /\ (pc # "between" => obs.trouble # "no"))

\* A visit that matters is on record, a cold boot is no visit's, and trouble stays known
\* to whoever would visit.
VisitInv == VisitAccounted /\ ColdIsNoVisit /\ TroubleKnown

\* The types, and what is known of a visit, a cold boot and a trouble at any time.
Inv == TypeOK /\ VisitInv

\* A machine of ours that is powered and dark, is believed to be nothing else, and of
\* which nobody has been told.
Unexplained ==
  /\ cordon = "ours"
  /\ mach = "dark" /\ ~off
  /\ trouble = "no" /\ troubled = "no"

\* No node stays that way: whatever operations it is in, or goes through in turn, one of
\* their bounds or the check of a dark node hands it over (maintain(), _check_dark()).
\* A process restarted for ever inside its bounds may get to none of them.
PoweredIsExplained == (Unexplained ~> ~Unexplained) \/ []<><<Restart>>_vars

=============================================================================
