------------------------------- MODULE Sleep -------------------------------
(***************************************************************************)
(* One node on its way down: metalnap/controller.py, sleep(),              *)
(* _abandon_sleep(), confirm_off(), and the parts of _reconcile() that     *)
(* start, guard, resume and repair them, interleaved with everything that  *)
(* can happen to the node between two calls of one tick.                   *)
(*                                                                         *)
(* A tick first OBSERVES the node (`obs`, which is all the later steps     *)
(* know of its cordon, its Ready condition and the operator's request) and *)
(* then acts one call at a time.  The work queue, the machine, the kubelet *)
(* and a person act between any two of those calls; the process may be     *)
(* restarted between any two of them.                                      *)
(*                                                                         *)
(* Time.  A timestamp t of the code is represented by its age, now - t, in *)
(* units of a tick interval, capped one above the largest bound it is      *)
(* compared with: every comparison the code makes is decided the same way, *)
(* and no horizon bounds the runs.  Time passes between ticks.             *)
(***************************************************************************)
EXTENDS Naturals

CONSTANTS
  Units,            \* units of work that can be on the node
  Never,            \* "no such timestamp": None in the code
  DrainTimeout,     \* cfg.drain_timeout_s
  ShutdownTimeout,  \* cfg.shutdown_timeout_s
  SleepCooldown,    \* cfg.sleep_cooldown_s
  ShedDeadline,     \* cfg.ceiling_drain_deadline_s; 0 is "no deadline"
  MaxAttempts,      \* cfg.max_sleep_attempts
  Outcomes,         \* how a call may end: see Outcome
  Actors            \* who else acts: see Actor

\* A call is "done", has "failed" without effect, or had its effect and then
\* failed: its reply was "lost" and the caller sees an exception.
Outcome == {"done", "failed", "lost"}

\* Everything outside the controller that a run may switch on.
Actor == {"operator", "ceiling", "restart", "wedge", "ignore"}

ASSUME NeverAssumption == Never \notin Nat
ASSUME BoundsAssumption ==
  /\ DrainTimeout \in Nat /\ ShutdownTimeout \in Nat /\ SleepCooldown \in Nat
  /\ ShedDeadline \in Nat /\ MaxAttempts \in Nat
ASSUME SeamsAssumption ==
  /\ Outcomes \subseteq Outcome /\ "done" \in Outcomes
  /\ Actors \subseteq Actor
ASSUME UnitsAssumption == Never \notin Units

VARIABLES
  \* the node object, on the API server
  cordoned,   \* spec.unschedulable
  mark,       \* age of the ownership annotation, or Never
  maint,      \* the operator's maintenance request is on the node
  ready,      \* the Ready condition
  shutdown,   \* age of the "shutdown" note, or Never
  \* the shed anchor: a note on the node and this process's copy of it
  anchor,     \* its age, or Never
  noted,      \* it is on the node, where a restart leaves it
  \* the machine and the work on it
  mach, unit,
  \* the controller's memory of the node, st[name]
  phase, phaseSince, attempts,
  cooldown,   \* what is left of cooldown_until
  \* the tick in progress
  pc, obs, todo, target, forced,
  \* history, read by properties only
  asked,      \* age of the last shutdown request that took effect and is on record, made
              \* of a node held by us and not taken by a person since; or Never
  unheard,    \* its reply was lost, and the process has not found its note since
  meddled,    \* an operator touched the node since this tick observed it
  raced       \* `target` was given work after its own fresh check

nodeVars == <<cordoned, mark, maint, ready, shutdown>>
shedVars == <<anchor, noted>>
machVars == <<mach, unit>>
memVars  == <<phase, phaseSince, attempts, cooldown>>
tickVars == <<pc, obs, todo, target, forced>>
histVars == <<asked, unheard, meddled, raced>>
vars == <<nodeVars, shedVars, machVars, memVars, tickVars, histVars>>

UnitState == {"absent", "idle", "busy", "leaving"}
Machine   == {"up", "stopping", "hung", "off"}
Phase     == {"none", "sleeping", "powering_off"}
Step      == {"between", "ceiling", "decide", "list", "check", "release",
              "residual", "announce", "note", "softoff"}

\* The ages a timestamp compared with the bound b takes.
Ages(b) == (0 .. b + 1) \cup {Never}

\* A timestamp one interval later.
Aged(t, b) == IF t = Never \/ t = b + 1 THEN t ELSE t + 1

NoObs == [cordoned |-> FALSE, ours |-> FALSE, ready |-> FALSE, maint |-> FALSE]

\* Carrying our cordon, as the node stands and as the tick saw it: _ours().
HeldByUs == cordoned /\ mark # Never
SeenOurs == obs.cordoned /\ obs.ours

\* An operator's cordon, as the tick saw it: `held` in _reconcile().
SeenHeld == obs.cordoned /\ ~obs.ours

Shed == anchor # Never

NodeTyped ==
  /\ cordoned \in BOOLEAN /\ maint \in BOOLEAN /\ ready \in BOOLEAN
  /\ mark \in Ages(DrainTimeout)
  /\ shutdown \in Ages(ShutdownTimeout)

ShedTyped == anchor \in Ages(ShedDeadline) /\ noted \in BOOLEAN

MachineTyped == mach \in Machine /\ unit \in [Units -> UnitState]

\* A phase has a clock, within the bound of that phase; no phase has none.
PhaseTyped ==
  /\ phase \in Phase /\ phaseSince \in Nat
  /\ phase = "none" => phaseSince = 0
  /\ phase = "sleeping" => phaseSince <= DrainTimeout + 1
  /\ phase = "powering_off" => phaseSince <= ShutdownTimeout + 1

CountsTyped == attempts \in 0 .. (MaxAttempts + 1) /\ cooldown \in 0 .. SleepCooldown

TickTyped ==
  /\ pc \in Step
  /\ obs \in [cordoned : BOOLEAN, ours : BOOLEAN, ready : BOOLEAN, maint : BOOLEAN]
  /\ todo \in SUBSET Units /\ target \in Units \cup {Never}
  /\ forced \in BOOLEAN

HistTyped ==
  /\ asked \in Ages(ShutdownTimeout) /\ unheard \in BOOLEAN
  /\ meddled \in BOOLEAN /\ raced \in BOOLEAN

TypeOK ==
  /\ NodeTyped /\ ShedTyped /\ MachineTyped /\ PhaseTyped /\ CountsTyped
  /\ TickTyped /\ HistTyped

\* In service: up, Ready, uncordoned, with any mix of idle and running units.
Init ==
  /\ cordoned = FALSE /\ mark = Never /\ maint = FALSE /\ ready = TRUE
  /\ shutdown = Never
  /\ anchor = Never /\ noted = FALSE
  /\ mach = "up" /\ unit \in [Units -> {"absent", "idle", "busy"}]
  /\ phase = "none" /\ phaseSince = 0 /\ attempts = 0 /\ cooldown = 0
  /\ pc = "between" /\ obs = NoObs /\ todo = {} /\ target = Never
  /\ forced = FALSE
  /\ asked = Never /\ unheard = FALSE /\ meddled = FALSE /\ raced = FALSE

-----------------------------------------------------------------------------
(***************************************************************************)
(* Writes to the node, each with the outcome its caller sees.              *)
(***************************************************************************)

\* set_cordon(): the cordon and the ownership mark move in one patch.
WriteCordon(c, o) ==
  IF o = "failed"
  THEN UNCHANGED <<cordoned, mark>>
  ELSE cordoned' = c /\ mark' = IF c THEN 0 ELSE Never

\* _try_note(name, "shutdown", v): a failure is logged and passed over.
TryNoteShutdown(v, o) == shutdown' = IF o = "failed" THEN shutdown ELSE v

\* _forget_shed(): this process's copy goes; the note goes if it can be removed.
ForgetShed(o) ==
  IF noted /\ o = "failed"
  THEN UNCHANGED shedVars
  ELSE anchor' = Never /\ noted' = FALSE

\* Controller._set_cordon(name, False).  A node back in service is held down by
\* no ceiling: its anchor goes, unless the write raised first.
Uncordon ==
  \E o \in Outcomes, p \in Outcomes :
    /\ WriteCordon(FALSE, o)
    /\ IF o = "done" THEN ForgetShed(p) ELSE UNCHANGED shedVars

\* The end of what this tick does for the node.
EndTick ==
  /\ pc' = "between" /\ obs' = NoObs /\ todo' = {} /\ target' = Never
  /\ forced' = FALSE
  /\ meddled' = FALSE /\ raced' = FALSE /\ UNCHANGED <<asked, unheard>>

LeavePhase == phase' = "none" /\ phaseSince' = 0

\* _abandon_sleep(): out of the phase, backed off, and given back if the
\* uncordon goes through; a failed one is logged and not retried here.
AbandonSleep ==
  /\ LeavePhase /\ attempts' = 0 /\ cooldown' = SleepCooldown
  /\ Uncordon
  /\ UNCHANGED <<maint, ready, shutdown>>

\* Mutant: every start stamps the cordon anew.
NeedsCordon_Always == TRUE

\* Stamping a cordon that is already ours would restart its clock.
NeedsCordon == ~SeenOurs

\* sleep() on a node not in the phase: count the attempt, or give up; cordon
\* unless the cordon is already ours; drop a stale shutdown note.
StartSleep(shedding) ==
  /\ attempts' = IF attempts > MaxAttempts THEN attempts ELSE attempts + 1
  /\ \E o \in IF NeedsCordon THEN Outcomes ELSE {"done"}, p \in Outcomes :
       /\ IF NeedsCordon THEN WriteCordon(TRUE, o) ELSE UNCHANGED <<cordoned, mark>>
       /\ IF o = "done"
          THEN /\ phase' = "sleeping" /\ phaseSince' = 0
               /\ IF shutdown = Never THEN UNCHANGED shutdown
                                      ELSE TryNoteShutdown(Never, p)
          ELSE UNCHANGED <<phase, phaseSince, shutdown>>
  /\ UNCHANGED <<cooldown, maint, ready>>

BeginSleep ==
  /\ IF attempts + 1 > MaxAttempts /\ ~Shed
     THEN AbandonSleep
     ELSE StartSleep(Shed) /\ UNCHANGED shedVars
  /\ EndTick /\ UNCHANGED machVars

-----------------------------------------------------------------------------
(***************************************************************************)
(* The tick.                                                               *)
(***************************************************************************)

\* Mutant: a restart forgets that a shutdown is under way.
ShutdownInterrupted_Forgotten == FALSE

\* A restart interrupted a shutdown this node is held for.
ShutdownInterrupted == phase = "none" /\ shutdown # Never /\ HeldByUs

\* Observe, clear a mark that outlived its cordon, and resume a shutdown that
\* a restart interrupted.
Observe ==
  /\ pc = "between" /\ pc' = "ceiling"
  /\ obs' = [cordoned |-> cordoned, ours |-> HeldByUs, ready |-> ready,
             maint |-> maint]
  /\ \E o \in Outcomes :
       mark' = IF mark # Never /\ ~cordoned /\ o # "failed" THEN Never ELSE mark
  /\ IF ShutdownInterrupted
     THEN IF shutdown <= ShutdownTimeout
          THEN /\ phase' = "powering_off" /\ phaseSince' = shutdown
               /\ UNCHANGED shutdown
          ELSE /\ \E o \in Outcomes : TryNoteShutdown(Never, o)
               /\ UNCHANGED <<phase, phaseSince>>
     ELSE UNCHANGED <<phase, phaseSince, shutdown>>
  /\ unheard' = (unheard /\ ~ShutdownInterrupted)
  /\ UNCHANGED <<cordoned, maint, ready, shedVars, machVars, attempts, cooldown,
                 todo, target, forced, asked, meddled, raced>>

\* The node may carry an anchor: the ceiling counts it and it is ours.
MayKeepAnchor == SeenOurs /\ ~obs.maint

\* The ceiling leaves the node as it is: it carries no anchor, or keeps the one
\* it has and retries the note for it.
CeilingKeeps ==
  /\ pc = "ceiling" /\ pc' = "decide"
  /\ ~Shed \/ MayKeepAnchor
  /\ UNCHANGED anchor
  /\ \E o \in Outcomes : noted' = (noted \/ (Shed /\ o # "failed"))
  /\ UNCHANGED <<nodeVars, machVars, memVars, obs, todo, target, forced, histVars>>

\* It was released, or the node is no longer its to hold: the anchor goes.
CeilingForgets ==
  /\ pc = "ceiling" /\ pc' = "decide"
  /\ Shed
  /\ \E o \in Outcomes : ForgetShed(o)
  /\ UNCHANGED <<nodeVars, machVars, memVars, obs, todo, target, forced, histVars>>

\* A drain under way becomes a shed; its deadline starts here.
CeilingTakesDrain ==
  /\ "ceiling" \in Actors
  /\ pc = "ceiling" /\ pc' = "decide"
  /\ phase = "sleeping" /\ ~Shed /\ ~SeenHeld /\ ~obs.maint
  /\ anchor' = 0
  /\ \E o \in Outcomes : noted' = (o # "failed")
  /\ UNCHANGED <<nodeVars, machVars, memVars, obs, todo, target, forced, histVars>>

\* _start_shed(): the anchor first, then the ordinary sleep.  An anchor the node
\* already carries is kept: a restart lost the operation, not the deadline.
CeilingSheds ==
  /\ "ceiling" \in Actors
  /\ pc = "ceiling"
  /\ phase = "none" /\ obs.ready /\ ~SeenHeld /\ ~obs.maint
  /\ IF Shed
     THEN MayKeepAnchor /\ UNCHANGED shedVars
     ELSE anchor' = 0 /\ \E o \in Outcomes : noted' = (o # "failed")
  /\ StartSleep(TRUE)
  /\ IF phase' = "sleeping"
     THEN EndTick
     ELSE pc' = "decide" /\ UNCHANGED <<obs, todo, target, forced, histVars>>
  /\ UNCHANGED machVars

-----------------------------------------------------------------------------
(***************************************************************************)
(* In-flight operations, in the order their guards are tried.              *)
(***************************************************************************)

\* Mutant: only a request ends an operation, a cordon does not.
Yields_RequestOnly == obs.maint /\ phase = "sleeping"

\* An operator's cordon, or their request for the node, ends the operation where
\* it stands.  A shutdown already requested outlives a request, not a cordon.
Yields == SeenHeld \/ (obs.maint /\ phase = "sleeping")

YieldToOperator ==
  /\ pc = "decide" /\ phase # "none"
  /\ Yields
  /\ LeavePhase /\ EndTick
  /\ UNCHANGED <<nodeVars, shedVars, machVars, attempts, cooldown>>

\* Nothing is done for this node: demand is met; or the signal is down, when an
\* exception ends the tick or, with a ceiling in force, only sheds advance.
NothingDecided ==
  /\ pc = "decide"
  /\ EndTick
  /\ UNCHANGED <<nodeVars, shedVars, machVars, memVars>>

\* Uncordoned mid-drain: someone wants the node working.
DrainUncordoned ==
  /\ pc = "decide" /\ phase = "sleeping" /\ ~Yields
  /\ ~obs.cordoned
  /\ LeavePhase /\ attempts' = 0 /\ cooldown' = SleepCooldown
  /\ EndTick
  /\ UNCHANGED <<nodeVars, shedVars, machVars>>

\* Demand arrived mid-drain: the node is kept.
RescueDrain ==
  /\ pc = "decide" /\ phase = "sleeping" /\ ~Yields
  /\ obs.cordoned
  /\ LeavePhase /\ Uncordon
  /\ EndTick
  /\ UNCHANGED <<maint, ready, shutdown, attempts, cooldown, machVars>>

Draining == pc = "decide" /\ phase = "sleeping" /\ ~Yields /\ obs.cordoned

\* Mutant: the deadline is taken to have passed as soon as there is one.
Overdue_AtOnce == Shed /\ ShedDeadline > 0

\* _shed_overdue(): past the deadline, and the current reading still asks.
Overdue == Shed /\ ShedDeadline > 0 /\ anchor >= ShedDeadline

\* How long the drain has run: from the durable mark or the memory of it,
\* whichever is older.
DrainAge == IF SeenOurs /\ mark # Never /\ mark > phaseSince THEN mark ELSE phaseSince

\* Only an ordinary drain gives up waiting for work.
OutlastedDrain == ~Shed /\ DrainAge > DrainTimeout

Busy == {u \in Units : unit[u] = "busy"}

\* busy() found work, or could not tell, and the deadline is not being enforced.
WaitOnWork ==
  /\ Draining
  /\ \/ Outcomes # {"done"}                      \* could not tell
     \/ Busy # {} /\ ~OutlastedDrain
  /\ EndTick
  /\ UNCHANGED <<nodeVars, shedVars, machVars, memVars>>

\* The work outlasted the drain timeout, which only an ordinary drain has.
DrainTimedOut ==
  /\ Draining
  /\ Busy # {} /\ OutlastedDrain
  /\ AbandonSleep
  /\ EndTick
  /\ UNCHANGED machVars

\* Nothing here holds work -- or the shed is overdue, read so at this step.
NothingBusy ==
  /\ Draining
  /\ \E asks \in BOOLEAN :
       /\ forced' = (Overdue /\ asks)
       /\ Busy = {} \/ forced'
  /\ pc' = "list"
  /\ UNCHANGED <<nodeVars, shedVars, machVars, memVars, obs, todo, target, histVars>>

\* idle(): a listing, stale as soon as it is made.
ListIdle ==
  /\ pc = "list"
  /\ \E o \in Outcomes :
       IF o = "done"
       THEN /\ todo' = {u \in Units : unit[u] = "idle"}
            /\ pc' = IF todo' # {} THEN "check"
                     ELSE IF forced THEN "announce" ELSE "residual"
            /\ UNCHANGED <<obs, target, forced, histVars>>
       ELSE IF forced
            THEN pc' = "announce" /\ UNCHANGED <<obs, todo, target, forced, histVars>>
            ELSE EndTick
  /\ UNCHANGED <<nodeVars, shedVars, machVars, memVars>>

\* One listed unit is dealt with.  After the last, an ordinary drain looks again
\* next tick; an overdue shed goes on.
NextUnit(u) ==
  /\ todo' = todo \ {u} /\ target' = Never /\ raced' = FALSE
  /\ pc' = IF todo' # {} THEN "check" ELSE "announce"
  /\ UNCHANGED <<obs, forced, asked, unheard, meddled>>

ReadsIdle(u) == unit[u] = "idle"

\* holds_work(): read this unit again, immediately before releasing it.
CheckUnit(u) ==
  /\ pc = "check" /\ u \in todo
  /\ \E o \in Outcomes :
       IF o = "done" /\ ReadsIdle(u)
       THEN /\ pc' = "release" /\ target' = u
            /\ UNCHANGED <<obs, todo, forced, histVars>>
       ELSE IF forced THEN NextUnit(u) ELSE EndTick
  /\ UNCHANGED <<nodeVars, shedVars, machVars, memVars>>

\* release(): the teardown it starts is asynchronous.
ReleaseUnit(u) ==
  /\ pc = "release" /\ target = u
  /\ \E o \in Outcomes :
       /\ unit' = IF o # "failed" /\ unit[u] # "absent"
                  THEN [unit EXCEPT ![u] = "leaving"] ELSE unit
       /\ IF o = "done"
          THEN IF todo = {u} /\ ~forced THEN EndTick ELSE NextUnit(u)
          ELSE IF forced THEN NextUnit(u) ELSE EndTick
  /\ UNCHANGED <<nodeVars, shedVars, mach, memVars>>

\* Mutant: a unit whose teardown has begun counts as gone.
NothingLeft_TeardownIgnored == \A u \in Units : unit[u] \in {"absent", "leaving"}

NothingLeft == \A u \in Units : unit[u] = "absent"

\* residual(): any unit still present keeps the node up.
CheckResidual ==
  /\ pc = "residual"
  /\ \E o \in Outcomes :
       IF o = "done" /\ NothingLeft
       THEN pc' = "announce" /\ UNCHANGED <<obs, todo, target, forced, histVars>>
       ELSE EndTick
  /\ UNCHANGED <<nodeVars, shedVars, machVars, memVars>>

\* going_down(): a node that cannot be announced is not powered off.
Announce ==
  /\ pc = "announce"
  /\ \E o \in Outcomes :
       IF o = "done"
       THEN pc' = "note" /\ UNCHANGED <<obs, todo, target, forced, histVars>>
       ELSE EndTick
  /\ UNCHANGED <<nodeVars, shedVars, machVars, memVars>>

\* The shutdown goes on record before it is asked for.
NoteShutdown ==
  /\ pc = "note" /\ pc' = "softoff"
  /\ \E o \in Outcomes : TryNoteShutdown(0, o)
  /\ UNCHANGED <<cordoned, mark, maint, ready, shedVars, machVars, memVars,
                 obs, todo, target, forced, histVars>>

\* What a running machine does with a soft-off.
Obeys == IF mach # "up" THEN {mach}
         ELSE {"stopping"} \cup (IF "ignore" \in Actors THEN {"up"} ELSE {})

\* soft_off(): an exception leaves the phase as it was, whatever the BMC did, and
\* the drain looks at the node again next tick.
SoftOff ==
  /\ pc = "softoff"
  /\ \E o \in Outcomes :
       /\ IF o = "failed"
          THEN UNCHANGED <<mach, asked, unheard>>
          ELSE /\ mach' \in Obeys
               /\ asked' = IF HeldByUs THEN shutdown ELSE Never
               /\ unheard' = (o = "lost" /\ asked' # Never)
       /\ IF o = "done"
          THEN phase' = "powering_off" /\ phaseSince' = 0
          ELSE UNCHANGED <<phase, phaseSince>>
  /\ pc' = "between" /\ obs' = NoObs /\ todo' = {} /\ target' = Never
  /\ forced' = FALSE /\ meddled' = FALSE /\ raced' = FALSE
  /\ UNCHANGED <<nodeVars, shedVars, unit, attempts, cooldown>>

\* Mutant: the BMC alone is believed.
ReadsDown_PowerOnly == mach = "off"

\* Off AND NotReady, or off for as long as a shutdown may take.
ReadsDown == mach = "off" /\ (phaseSince > ShutdownTimeout \/ ~obs.ready)

\* Mutant: a shutdown that was ignored starts the count of attempts over.
AttemptsLeft_Reset(down) == 0

\* Only a confirmed power-off ends the count.
AttemptsLeft(down) == IF down THEN 0 ELSE attempts

\* confirm_off(): off and NotReady ends the phase; a shutdown that outlasts its
\* bound is reported and left, its attempt still counted.
ConfirmOff ==
  /\ pc = "decide" /\ phase = "powering_off" /\ ~SeenHeld
  /\ \E o \in Outcomes, p \in Outcomes :
       LET down == o = "done" /\ ReadsDown
       IN  /\ IF down \/ phaseSince > ShutdownTimeout
              THEN LeavePhase /\ TryNoteShutdown(Never, p)
              ELSE UNCHANGED <<phase, phaseSince, shutdown>>
           /\ attempts' = AttemptsLeft(down)
  /\ EndTick
  /\ UNCHANGED <<cordoned, mark, maint, ready, shedVars, machVars, cooldown>>

-----------------------------------------------------------------------------
(***************************************************************************)
(* A node in no operation.                                                 *)
(***************************************************************************)

\* Ready, cordoned by us and in no operation: neither asleep nor in service.
Stranded == pc = "decide" /\ phase = "none" /\ obs.ready /\ SeenOurs /\ ~obs.maint

FinishWake ==
  /\ Stranded
  /\ Uncordon
  /\ EndTick
  /\ UNCHANGED <<maint, ready, shutdown, memVars, machVars>>

FinishSleep == Stranded /\ BeginSleep

\* In service, idle for the whole sleep window and not backed off.
ChooseToSleep ==
  /\ pc = "decide" /\ phase = "none" /\ obs.ready /\ ~obs.cordoned /\ ~obs.maint
  /\ Busy = {} /\ cooldown = 0
  /\ BeginSleep

Controller ==
  \/ Observe \/ CeilingKeeps \/ CeilingForgets \/ CeilingTakesDrain \/ CeilingSheds
  \/ YieldToOperator \/ NothingDecided \/ DrainUncordoned \/ RescueDrain
  \/ WaitOnWork \/ DrainTimedOut \/ NothingBusy \/ ListIdle
  \/ \E u \in Units : CheckUnit(u) \/ ReleaseUnit(u)
  \/ CheckResidual \/ Announce \/ NoteShutdown \/ SoftOff \/ ConfirmOff
  \/ FinishWake \/ FinishSleep \/ ChooseToSleep

-----------------------------------------------------------------------------
(***************************************************************************)
(* Everything else.                                                        *)
(***************************************************************************)

\* The scheduler places a unit on a node that accepts work.
Arrive(u) ==
  /\ unit[u] = "absent" /\ mach = "up" /\ ready /\ ~cordoned
  /\ unit' = [unit EXCEPT ![u] = "idle"]
  /\ UNCHANGED <<nodeVars, shedVars, mach, memVars, tickVars, histVars>>

\* A cordon keeps new units away, not work away from a unit already there.
Dispatch(u) ==
  /\ unit[u] = "idle" /\ mach = "up"
  /\ unit' = [unit EXCEPT ![u] = "busy"]
  /\ raced' = (raced \/ (pc = "release" /\ target = u))
  /\ UNCHANGED <<nodeVars, shedVars, mach, memVars, tickVars, asked, unheard, meddled>>

\* A unit exits after it ran its work, or once its teardown is done.
Depart(u) ==
  /\ unit[u] \in {"busy", "leaving"}
  /\ unit' = [unit EXCEPT ![u] = "absent"]
  /\ UNCHANGED <<nodeVars, shedVars, mach, memVars, tickVars, histVars>>

PowersOff ==
  /\ mach = "stopping" /\ mach' = "off"
  /\ unit' = [u \in Units |-> "absent"]
  /\ UNCHANGED <<nodeVars, shedVars, memVars, tickVars, histVars>>

Wedges ==
  /\ "wedge" \in Actors
  /\ mach \in {"up", "stopping"} /\ mach' = "hung"
  /\ UNCHANGED <<nodeVars, shedVars, unit, memVars, tickVars, histVars>>

\* The kubelet's report catches up with the machine, late.
KubeletReports ==
  /\ ready # (mach = "up") /\ ready' = (mach = "up")
  /\ UNCHANGED <<cordoned, mark, maint, shutdown, shedVars, machVars, memVars,
                 tickVars, histVars>>

Meddle == meddled' = (pc # "between") /\ UNCHANGED raced

OperatorCordons ==
  /\ "operator" \in Actors
  /\ ~cordoned /\ cordoned' = TRUE
  /\ Meddle /\ UNCHANGED <<asked, unheard>>
  /\ UNCHANGED <<mark, maint, ready, shutdown, shedVars, machVars, memVars, tickVars>>

\* `kubectl uncordon` knows nothing of the ownership mark.
OperatorUncordons ==
  /\ "operator" \in Actors
  /\ cordoned /\ cordoned' = FALSE
  /\ Meddle /\ asked' = Never /\ unheard' = FALSE
  /\ UNCHANGED <<mark, maint, ready, shutdown, shedVars, machVars, memVars, tickVars>>

OperatorAsksOrReturns ==
  /\ "operator" \in Actors
  /\ maint' = ~maint
  /\ Meddle /\ UNCHANGED <<asked, unheard>>
  /\ UNCHANGED <<cordoned, mark, ready, shutdown, shedVars, machVars, memVars, tickVars>>

\* A person switches a dark machine on, or power-cycles a wedged one.
OperatorPowersOn ==
  /\ "operator" \in Actors
  /\ mach \in {"off", "hung"} /\ mach' = "up"
  /\ unit' = [u \in Units |-> "absent"]
  /\ Meddle /\ asked' = Never /\ unheard' = FALSE
  /\ UNCHANGED <<nodeVars, shedVars, memVars, tickVars>>

\* The process is restarted: its memory goes, the node keeps its notes.
Restart ==
  /\ "restart" \in Actors
  /\ LeavePhase /\ attempts' = 0 /\ cooldown' = 0
  /\ anchor' = IF noted THEN anchor ELSE Never
  /\ EndTick
  /\ UNCHANGED <<nodeVars, noted, machVars>>

TimePasses ==
  /\ pc = "between"
  /\ mark' = Aged(mark, DrainTimeout)
  /\ shutdown' = Aged(shutdown, ShutdownTimeout)
  /\ anchor' = Aged(anchor, ShedDeadline)
  /\ phaseSince' = CASE phase = "sleeping"     -> Aged(phaseSince, DrainTimeout)
                     [] phase = "powering_off" -> Aged(phaseSince, ShutdownTimeout)
                     [] OTHER                  -> phaseSince
  /\ cooldown' = IF cooldown = 0 THEN 0 ELSE cooldown - 1
  /\ asked' = Aged(asked, ShutdownTimeout)
  /\ unheard' = (unheard /\ asked < ShutdownTimeout)
  /\ UNCHANGED <<cordoned, maint, ready, noted, machVars, phase, attempts,
                 tickVars, meddled, raced>>

Operator == \/ OperatorCordons \/ OperatorUncordons
            \/ OperatorAsksOrReturns \/ OperatorPowersOn

Environment ==
  \/ \E u \in Units : Arrive(u) \/ Dispatch(u) \/ Depart(u)
  \/ PowersOff \/ Wedges \/ KubeletReports
  \/ Operator \/ Restart \/ TimePasses

Next == Controller \/ Environment

Spec == Init /\ [][Next]_vars

(***************************************************************************)
(* Fairness.  run_forever() ticks for ever, time passes, and what has      *)
(* begun outside -- a teardown, a shutdown, the kubelet's next report --   *)
(* comes to its end.  A decision that keeps being due is taken in the end, *)
(* with its calls succeeding: strong fairness, because a restart, a failed *)
(* call or a demand signal that is down may take it away again.  Nobody    *)
(* else is made to act.                                                    *)
(***************************************************************************)
Advance == FinishSleep \/ DrainTimedOut \/ NothingBusy \/ ConfirmOff

Fairness ==
  /\ WF_vars(Controller)
  /\ SF_vars(TimePasses)
  /\ SF_vars(phase = "none" /\ (CeilingKeeps \/ CeilingForgets))
  /\ SF_vars(phase = "sleeping" /\ Observe)
  /\ SF_vars(phase = "sleeping" /\ (CeilingKeeps \/ CeilingForgets))
  /\ SF_vars(Advance)
  /\ SF_vars(FinishSleep /\ (phase' = "sleeping" \/ ~cordoned'))
  /\ SF_vars(DrainTimedOut /\ ~cordoned')
  /\ WF_vars(KubeletReports)
  /\ WF_vars(PowersOff \/ \E u \in Units : unit[u] = "leaving" /\ Depart(u))

FairSpec == Spec /\ Fairness

-----------------------------------------------------------------------------
(***************************************************************************)
(* Safety.  At pc = "softoff" the next call asks the machine to shut down. *)
(***************************************************************************)

\* NEVER interrupt running work: nothing is left on a node about to be shut
\* down, unless its shed outlasted the deadline -- or a person let work back
\* onto it after this tick observed it.
DrainedBeforeShutdown ==
  pc = "softoff" /\ ~forced /\ ~meddled => \A u \in Units : unit[u] = "absent"

\* A node about to be shut down is one this controller holds and nobody asked
\* for, as far as the tick's observation can tell.
ShutdownOnlyWhenHeld ==
  pc = "softoff" /\ ~meddled => HeldByUs /\ ~maint

\* Work still running on a node about to be shut down has outlasted a shed's
\* deadline, which a restart in the middle of the drain does not bring closer.
ForcedOnlyPastDeadline ==
  pc = "softoff" /\ ~meddled /\ Busy # {} => Shed /\ ShedDeadline > 0 /\ anchor >= ShedDeadline

\* A shutdown that is on record is not asked for again while it may still be in
\* progress: not by the stranded repair, and not by a new process, which finds the
\* note whether or not its predecessor heard the reply.  What may ask again is the
\* drain itself, in the process that did not hear the reply.
NoSecondShutdown ==
  pc = "softoff" => asked = Never \/ asked > ShutdownTimeout \/ unheard

\* ... and, with the same exception, the machine going down is not put back into
\* service under it, unless by a person.
ShutdownUndisturbed ==
  [][cordoned /\ ~cordoned' /\ asked # Never /\ asked' # Never
       => asked > ShutdownTimeout \/ unheard]_vars

\* release() ends no work that the fresh check of the same unit could have seen:
\* only work that landed after it.
ReleasesNoSeenWork ==
  [][\A u \in Units : unit[u] = "busy" /\ unit'[u] = "leaving" => raced]_vars

\* An operator's cordon that the tick saw is neither lifted nor claimed by it.
SeenHoldRespected ==
  [][cordoned /\ mark = Never /\ pc # "between" /\ ~meddled /\ ~meddled'
       => UNCHANGED <<cordoned, mark>>]_vars

\* The clocks that bound a drain run on through retries, repairs and restarts:
\* while a node stays held, its mark and its anchor only grow older.
ClocksNeverRewind ==
  [][/\ (cordoned /\ ~meddled /\ mark # Never /\ mark' # Never => mark' >= mark)
     /\ (anchor # Never /\ anchor' # Never => anchor' >= anchor)]_vars

\* A shed may not leave by the ways an ordinary drain gives its node back: the
\* drain timeout and the attempt bound.
ShedNotAbandoned ==
  [][Shed /\ cordoned /\ ~cordoned' => UNCHANGED cooldown]_vars

(***************************************************************************)
(* Why they hold: what is known at each step of a tick.                    *)
(***************************************************************************)

\* The steps of a drain that found nothing to wait for, and the last of them.
Deep == {"list", "check", "release", "residual", "announce", "note", "softoff"}
Last == {"announce", "note", "softoff"}

\* The node is still as the tick observed it.
AsSeen == (cordoned <=> obs.cordoned) /\ (HeldByUs <=> obs.ours) /\ (maint <=> obs.maint)

\* Until a call of its own changes the node, nothing but a person does; and the
\* calls that change it either end the tick or begin a sleep that failed to begin.
TracksNode ==
  /\ pc # "between" /\ ~meddled /\ (phase # "none" \/ pc = "ceiling") => AsSeen
  /\ pc # "between" /\ ~meddled /\ cordoned =>
       IF mark = Never THEN SeenHeld ELSE SeenOurs \/ mark = 0

\* A drain that goes this deep was ours to carry out, and stays so.
DrainsOurs == pc \in Deep => phase = "sleeping" /\ SeenOurs /\ ~obs.maint

\* Its last steps are reached with nothing left on the node, or by force.
NothingRemains ==
  /\ pc \in Last /\ ~forced /\ ~meddled => \A u \in Units : unit[u] = "absent"
  /\ pc = "release" => target \in todo

\* Force is decided within the tick, on an anchor that does not move in it.
ForceIsDue ==
  forced => pc \in Deep /\ Shed /\ ShedDeadline > 0 /\ anchor >= ShedDeadline

\* A unit checked and not released yet has no work it did not get since.
CheckedIdle ==
  IF pc = "release" THEN raced \/ unit[target] # "busy" ELSE ~raced

TickInv == TracksNode /\ DrainsOurs /\ NothingRemains /\ ForceIsDue /\ CheckedIdle

\* A machine seen NotReady that is going off, or off, does not report Ready again.
SeenNotReady ==
  mach \in {"stopping", "off"} /\ pc # "between" /\ ~obs.ready => ~ready

\* A request that is on record, still in progress for all anyone knows.
OnRecord == asked # Never /\ asked <= ShutdownTimeout

\* No note on the node is older than the request.
NoteNoOlder == OnRecord /\ shutdown # Never => shutdown <= asked

\* While a shutdown that is on record may be in progress, and the process heard of it
\* or found its note, the node stays ours and in no drain.  It is known to be off; or
\* the note is there, the phase if there is one is no older than the request, and a
\* restart's next tick finds the note.
ShutdownFollowed ==
  OnRecord /\ ~unheard =>
    /\ HeldByUs /\ (pc # "between" => SeenOurs)
    /\ phase # "sleeping"
    /\ \/ mach = "off" /\ ~ready /\ ~obs.ready
       \/ /\ shutdown # Never
          /\ phase = "none" => pc = "between"
          /\ phase = "powering_off" => phaseSince <= asked

\* The types, what each step of a tick still knows after whatever was done by others
\* between its calls, and what is known of a shutdown: inductive, and what the
\* safety theorems rest on.
Inv == TypeOK /\ TickInv /\ SeenNotReady /\ NoteNoOlder /\ ShutdownFollowed

-----------------------------------------------------------------------------
(***************************************************************************)
(* Liveness.                                                               *)
(***************************************************************************)

\* In neither desired state: powered, and serving nothing, on our account.
Idling == HeldByUs /\ ready /\ ~Shed /\ ~maint

\* A node whose work never ends is handed back in the end, one restart at a
\* time or not: the drain timeout is measured from the mark on the node.
HungDrainReturned == (Idling /\ Busy # {}) ~> (~Idling \/ Busy = {})

\* A held node ends up in service or down while calls succeed -- unless the process
\* is restarted for ever -- a shutdown it ignores every time included: the attempts
\* are bounded.
HeldNodeSettles ==
  (Idling ~> (~Idling \/ mach = "off")) \/ []<><<Restart>>_vars
==============================================================================
