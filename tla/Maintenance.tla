---------------------------- MODULE Maintenance ----------------------------
(***************************************************************************)
(* One node an operator asks for: metalnap/controller.py,                  *)
(* _maintenance_requests() and _take_up_maintenance(), the parts of        *)
(* _reconcile() that let go of an operation for a request and see a        *)
(* shutdown through first, and `metalnap maintenance` of cli.py, which     *)
(* reads the node and then patches it.                                     *)
(*                                                                         *)
(* A request is an annotation, and so is the record that it was taken up;  *)
(* people and the controller write both.  The promise is a power-on once   *)
(* per request, whoever is restarted and whatever call fails, because the  *)
(* person who asked will switch the machine off and work inside it.        *)
(*                                                                         *)
(* The node carries our cordon throughout: how it enters and leaves        *)
(* service is the subject of Sleep and Wake.  Timestamps are ages, and     *)
(* calls end as they do in Sleep.                                          *)
(***************************************************************************)
EXTENDS Naturals

CONSTANTS
  Never,            \* "no such timestamp"
  PowerOnBound,     \* cfg.wake_timeout_s, which bounds the retries of a power-on
  ShutdownTimeout,  \* cfg.shutdown_timeout_s
  Outcomes,         \* how a call may end: "done", "failed" or "lost"
  Actors            \* "restart" of the process, a "second" person at a terminal

ASSUME NeverAssumption == Never \notin Nat
ASSUME BoundsAssumption == PowerOnBound \in Nat /\ ShutdownTimeout \in Nat
ASSUME SeamsAssumption ==
  /\ Outcomes \subseteq {"done", "failed", "lost"} /\ "done" \in Outcomes
  /\ Actors \subseteq {"restart", "second"}

VARIABLES
  \* the node object
  maint,        \* metalnap.io/maintenance
  started,      \* metalnap.io/maintenance-started: the request is taken up
  ready,
  shutdown,     \* age of the "shutdown" note, or Never
  \* the machine
  mach,
  \* the controller's memory, st[name]
  phase, phaseSince,
  failedAt,     \* age of maintenance_power_failed_at, or Never
  \* the tick in progress
  pc, obs,
  stepped,      \* the phase the node was in as this tick stepped through the phases
  power,        \* what the take-up knows of the chassis
  \* a `metalnap maintenance start` that has read the node and not patched it yet
  cli,
  \* history, read by properties only
  tookUp,       \* this request was served, on record: found powered, or powered on
  switchedOff,  \* a person switched the machine off since
  asked         \* age of the last shutdown that is on record, until someone powers
                \* the machine; or Never

nodeVars == <<maint, started, ready, shutdown>>
memVars  == <<phase, phaseSince, failedAt>>
tickVars == <<pc, obs, stepped, power>>
histVars == <<tookUp, switchedOff, asked>>
vars == <<nodeVars, mach, memVars, tickVars, cli, histVars>>

Machine == {"up", "stopping", "off"}
Phase   == {"none", "waking", "sleeping", "powering_off"}
Step    == {"between", "requests", "decide", "takeup", "record", "poweron", "withdraw"}

Ages(b) == (0 .. b + 1) \cup {Never}
Aged(t, b) == IF t = Never \/ t = b + 1 THEN t ELSE t + 1

NoObs == [maint |-> FALSE, started |-> FALSE, ready |-> FALSE]

NodeTyped ==
  /\ maint \in BOOLEAN /\ started \in BOOLEAN /\ ready \in BOOLEAN
  /\ shutdown \in Ages(ShutdownTimeout) /\ mach \in Machine

MemoryTyped ==
  /\ phase \in Phase /\ phaseSince \in 0 .. ShutdownTimeout + 1
  /\ phase # "powering_off" => phaseSince = 0
  /\ failedAt \in Ages(PowerOnBound)

TickTyped ==
  /\ pc \in Step /\ obs \in [maint : BOOLEAN, started : BOOLEAN, ready : BOOLEAN]
  /\ stepped \in Phase /\ power \in {"on", "off", Never}

HistTyped ==
  /\ cli \in {"idle", "new", "already"}
  /\ tookUp \in BOOLEAN /\ switchedOff \in BOOLEAN /\ asked \in Ages(ShutdownTimeout)

TypeOK == NodeTyped /\ MemoryTyped /\ TickTyped /\ HistTyped

\* Asleep, or powered and about to be: nobody has asked for it yet.
Init ==
  /\ maint = FALSE /\ started = FALSE /\ shutdown = Never
  /\ mach \in {"up", "off"} /\ ready = (mach = "up")
  /\ phase = "none" /\ phaseSince = 0 /\ failedAt = Never
  /\ pc = "between" /\ obs = NoObs /\ stepped = "none" /\ power = Never
  /\ cli = "idle"
  /\ tookUp = FALSE /\ switchedOff = FALSE /\ asked = Never

-----------------------------------------------------------------------------
(***************************************************************************)
(* The tick.                                                               *)
(***************************************************************************)

EndTick == pc' = "between" /\ obs' = NoObs /\ stepped' = "none" /\ power' = Never

LeavePhase == phase' = "none" /\ phaseSince' = 0

\* _try_note(name, key, v): a failure is logged and passed over.
Noted(old, v, o) == IF o = "failed" THEN old ELSE v

Observe ==
  /\ pc = "between" /\ pc' = "requests"
  /\ obs' = [maint |-> maint, started |-> started, ready |-> ready]
  /\ UNCHANGED <<nodeVars, mach, memVars, stepped, power, cli, histVars>>

\* _maintenance_requests(): the record goes with the request; and, as in Sleep, a
\* shutdown that a restart interrupted is resumed.
TidyUp ==
  /\ pc = "requests" /\ pc' = "decide"
  /\ failedAt' = IF obs.maint THEN failedAt ELSE Never
  /\ \E o \in Outcomes :
       started' = IF ~obs.maint /\ obs.started THEN Noted(started, FALSE, o) ELSE started
  /\ IF phase = "none" /\ shutdown # Never
     THEN IF shutdown <= ShutdownTimeout
          THEN phase' = "powering_off" /\ phaseSince' = shutdown /\ UNCHANGED shutdown
          ELSE /\ \E o \in Outcomes : shutdown' = Noted(shutdown, Never, o)
               /\ UNCHANGED <<phase, phaseSince>>
     ELSE UNCHANGED <<phase, phaseSince, shutdown>>
  /\ UNCHANGED <<maint, ready, mach, obs, stepped, power, cli, histVars>>

\* On to the maintenance requests, remembering the operation that was stepped.
ToTakeUp ==
  /\ pc = "decide" /\ pc' = "takeup" /\ stepped' = phase
  /\ UNCHANGED <<obs, power, cli, failedAt, maint, started, ready>>

\* Asked for mid-operation: it is let go of where it stands.
YieldToRequest ==
  /\ ToTakeUp
  /\ phase \in {"waking", "sleeping"} /\ obs.maint
  /\ LeavePhase
  /\ UNCHANGED <<shutdown, mach, histVars>>

\* No operation, or one that waits or is over without a shutdown.
StepPhase ==
  /\ ToTakeUp
  /\ phase # "powering_off" /\ (phase # "none" => ~obs.maint)
  /\ LeavePhase \/ UNCHANGED <<phase, phaseSince>>
  /\ UNCHANGED <<shutdown, mach, histVars>>

\* The end of a drain: the note, then the soft-off.
ShutDown ==
  /\ ToTakeUp
  /\ phase = "sleeping" /\ ~obs.maint
  /\ \E o \in Outcomes, p \in Outcomes :
       /\ shutdown' = Noted(shutdown, 0, o)
       /\ mach' \in IF p # "failed" /\ mach = "up" THEN {"stopping", "up"} ELSE {mach}
       /\ IF p = "done"
          THEN /\ phase' = "powering_off" /\ phaseSince' = 0
               /\ asked' = IF shutdown' = 0 THEN 0 ELSE Never
          ELSE UNCHANGED <<phase, phaseSince, asked>>
  /\ UNCHANGED <<tookUp, switchedOff>>

\* No demand signal: the tick is over, or a ceiling is in force and only what is
\* its own goes on.
NothingDecided ==
  /\ pc = "decide"
  /\ \/ EndTick /\ UNCHANGED <<cli, failedAt, maint, started, ready>>
     \/ ToTakeUp /\ phase = "powering_off"
  /\ UNCHANGED <<phase, phaseSince, shutdown, mach, histVars>>

\* confirm_off(): a request does not interrupt it.
ConfirmOff ==
  /\ ToTakeUp
  /\ phase = "powering_off"
  /\ \E o \in Outcomes, p \in Outcomes :
       IF phaseSince > ShutdownTimeout \/ (o = "done" /\ mach = "off" /\ ~obs.ready)
       THEN LeavePhase /\ shutdown' = Noted(shutdown, Never, p)
       ELSE UNCHANGED <<phase, phaseSince, shutdown>>
  /\ UNCHANGED <<mach, histVars>>

-----------------------------------------------------------------------------
(***************************************************************************)
(* _take_up_maintenance().                                                 *)
(***************************************************************************)

\* Mutant: a request is taken up whatever the node is doing.
ShutdownSettled_Any == TRUE

\* Not while a shutdown of ours is settling, nor on the tick one ends.
ShutdownSettled == phase # "powering_off" /\ stepped # "powering_off"

Due == obs.maint /\ ~obs.started /\ ShutdownSettled

\* Nothing to take up; or another node was powered on in this tick and this one
\* is not up; or its chassis could not be read.
PassOver ==
  /\ pc = "takeup"
  /\ Due => ~obs.ready
  /\ EndTick
  /\ UNCHANGED <<nodeVars, mach, memVars, cli, histVars>>

\* Ready is on; anything else is asked of the chassis.
ReadPower ==
  /\ pc = "takeup" /\ Due
  /\ pc' = "record"
  /\ power' = IF ~obs.ready /\ mach = "off" THEN "off" ELSE "on"
  /\ UNCHANGED <<nodeVars, mach, memVars, obs, stepped, cli, histVars>>

\* On record BEFORE the power-on, and no record means no power-on.
Record ==
  /\ pc = "record"
  /\ \E o \in Outcomes :
       /\ started' = Noted(started, TRUE, o)
       /\ IF o = "done" /\ power = "off"
          THEN pc' = "poweron" /\ UNCHANGED <<obs, stepped, power>>
          ELSE EndTick
       /\ tookUp' = (tookUp \/ (o = "done" /\ power # "off"))
  /\ UNCHANGED <<maint, ready, shutdown, mach, memVars, cli, switchedOff, asked>>

\* Mutant: every failure is the first.
FirstFailure_Anew == 0

\* s.setdefault("maintenance_power_failed_at", now)
FirstFailure == IF failedAt = Never THEN 0 ELSE failedAt

\* The power-on, and what a failed one leaves behind: off the record again, to be
\* retried -- or on it for good, after a whole wake timeout of failures.
PowerOn ==
  /\ pc = "poweron"
  /\ \E o \in Outcomes :
       /\ mach' = IF o # "failed" THEN "up" ELSE mach
       /\ asked' = IF o # "failed" THEN Never ELSE asked
       /\ tookUp' = (tookUp \/ (o = "done" /\ started))
       /\ CASE o = "done" -> failedAt' = Never /\ EndTick
            [] o # "done" /\ FirstFailure >= PowerOnBound -> failedAt' = Never /\ EndTick
            [] OTHER -> /\ failedAt' = FirstFailure /\ pc' = "withdraw"
                        /\ UNCHANGED <<obs, stepped, power>>
  /\ UNCHANGED <<nodeVars, phase, phaseSince, cli, switchedOff>>

Withdraw ==
  /\ pc = "withdraw"
  /\ \E o \in Outcomes : started' = Noted(started, FALSE, o)
  /\ EndTick
  /\ UNCHANGED <<maint, ready, shutdown, mach, memVars, cli, histVars>>

\* What the tick may begin on a node nobody asked for: a wake, or the sleep of a
\* stranded one.
BeginOperation ==
  /\ pc = "takeup" /\ ~obs.maint /\ phase = "none" /\ stepped = "none"
  /\ IF obs.ready
     THEN phase' = "sleeping" /\ UNCHANGED <<mach, asked>>
          /\ \E o \in Outcomes :
               shutdown' = IF shutdown = Never THEN Never ELSE Noted(shutdown, Never, o)
     ELSE /\ \E o \in Outcomes :
               /\ mach' = IF mach = "off" /\ o # "failed" THEN "up" ELSE mach
               /\ asked' = IF mach = "off" /\ o # "failed" THEN Never ELSE asked
               /\ phase' = IF o = "done" THEN "waking" ELSE phase
          /\ UNCHANGED shutdown
  /\ EndTick
  /\ UNCHANGED <<maint, started, ready, phaseSince, failedAt, cli, tookUp, switchedOff>>

Advance == YieldToRequest \/ StepPhase \/ ShutDown \/ ConfirmOff

Controller ==
  \/ Observe \/ TidyUp \/ NothingDecided \/ Advance
  \/ PassOver \/ ReadPower \/ Record \/ PowerOn \/ Withdraw \/ BeginOperation

-----------------------------------------------------------------------------
(***************************************************************************)
(* People.  Unless there is a "second", nobody acts between the two steps  *)
(* of a command.                                                           *)
(***************************************************************************)

AtTerminal == cli = "idle" \/ "second" \in Actors

\* A request made of a node that had none begins its history.
NewRequest == tookUp' = FALSE /\ switchedOff' = FALSE

\* `maintenance start` reads which nodes are asked for already ...
StartReads ==
  /\ cli = "idle" /\ cli' = IF maint THEN "already" ELSE "new"
  /\ UNCHANGED <<nodeVars, mach, memVars, tickVars, histVars>>

\* Mutant: the record of a node asked for already is cleared with the rest.
ClearsRecord_Always == TRUE

\* Clearing it would power on a machine somebody has switched off.
ClearsRecord == cli = "new"

\* ... and then patches the node.
StartPatches ==
  /\ cli # "idle" /\ cli' = "idle"
  /\ maint' = TRUE
  /\ started' = IF ClearsRecord THEN FALSE ELSE started
  /\ IF maint THEN UNCHANGED <<tookUp, switchedOff>> ELSE NewRequest
  /\ UNCHANGED <<ready, shutdown, mach, memVars, tickVars, asked>>

\* The documented `kubectl annotate` sets the request alone ...
KubectlAsks ==
  /\ AtTerminal
  /\ ~maint /\ maint' = TRUE
  /\ NewRequest
  /\ UNCHANGED <<started, ready, shutdown, mach, memVars, tickVars, cli, asked>>

\* ... and the one that gives a node back removes both, as `maintenance stop` does.
GiveBack ==
  /\ AtTerminal
  /\ maint /\ maint' = FALSE /\ started' = FALSE
  /\ NewRequest
  /\ UNCHANGED <<ready, shutdown, mach, memVars, tickVars, cli, asked>>

\* Removing the record by hand asks for another power-on.
AskAgain ==
  /\ AtTerminal
  /\ maint /\ started /\ started' = FALSE
  /\ NewRequest
  /\ UNCHANGED <<maint, ready, shutdown, mach, memVars, tickVars, cli, asked>>

SwitchOff ==
  /\ maint /\ mach = "up" /\ mach' = "off"
  /\ switchedOff' = tookUp /\ asked' = Never
  /\ UNCHANGED <<nodeVars, memVars, tickVars, cli, tookUp>>

SwitchOn ==
  /\ maint /\ mach = "off" /\ mach' = "up"
  /\ switchedOff' = FALSE /\ asked' = Never
  /\ UNCHANGED <<nodeVars, memVars, tickVars, cli, tookUp>>

Person == \/ StartReads \/ StartPatches \/ KubectlAsks \/ GiveBack \/ AskAgain
          \/ SwitchOff \/ SwitchOn

-----------------------------------------------------------------------------
PowersOff ==
  /\ mach = "stopping" /\ mach' = "off"
  /\ UNCHANGED <<nodeVars, memVars, tickVars, cli, histVars>>

KubeletReports ==
  /\ ready # (mach = "up") /\ ready' = (mach = "up")
  /\ UNCHANGED <<maint, started, shutdown, mach, memVars, tickVars, cli, histVars>>

Restart ==
  /\ "restart" \in Actors
  /\ LeavePhase /\ failedAt' = Never
  /\ EndTick
  /\ UNCHANGED <<nodeVars, mach, cli, histVars>>

TimePasses ==
  /\ pc = "between"
  /\ shutdown' = Aged(shutdown, ShutdownTimeout)
  /\ phaseSince' = IF phase = "powering_off" THEN Aged(phaseSince, ShutdownTimeout)
                                             ELSE phaseSince
  /\ failedAt' = Aged(failedAt, PowerOnBound)
  /\ asked' = Aged(asked, ShutdownTimeout)
  /\ UNCHANGED <<maint, started, ready, mach, phase, tickVars, cli, tookUp, switchedOff>>

Next == Controller \/ Person \/ PowersOff \/ KubeletReports \/ Restart \/ TimePasses

Spec == Init /\ [][Next]_vars

(***************************************************************************)
(* Fairness.  Ticks and time go on; the demand signal is read, a request   *)
(* that stands unrecorded gets its turn and the API server answers, each   *)
(* in the end.  The BMC never has to.                                      *)
(***************************************************************************)
FairSpec ==
  /\ Spec
  /\ WF_vars(Controller) /\ SF_vars(TimePasses)
  /\ SF_vars(Advance) /\ SF_vars(ReadPower)
  /\ SF_vars(Record /\ (tookUp' \/ pc' = "poweron"))

-----------------------------------------------------------------------------
(***************************************************************************)
(* Safety.                                                                 *)
(***************************************************************************)

\* The screwdriver rule: a machine that a person switched off, after their request
\* had been served, is not powered on again by the controller -- not by a retry,
\* another process, the tidying up of an earlier request, or a wake.  (Two people
\* at two terminals are not protected from each other.)
PersonsPowerOffStands ==
  [][switchedOff /\ mach = "off" /\ mach' = "up" => SwitchOn]_vars

\* A node is not recorded as powered on the word of a Ready condition that a
\* shutdown of ours, on record and within its bound, is about to take away.
NotTakenUpGoingDown ==
  pc = "record" /\ obs.ready => asked = Never \/ asked > ShutdownTimeout

(***************************************************************************)
(* Why they hold.                                                          *)
(***************************************************************************)

Served == tookUp /\ maint

\* A request that was served is on record, and a tick that did not see the record
\* did not see a request that was served.
ServedIsOnRecord ==
  /\ switchedOff => Served
  /\ Served => started
  /\ pc # "between" /\ ~(obs.maint /\ obs.started) => ~Served
  /\ pc \in {"record", "poweron", "withdraw"} => obs.maint /\ ~obs.started
  /\ cli = "new" => ~maint

\* A shutdown of ours, while it may be going on, is the node's phase; or, after a
\* restart, about to be again; or over, and seen to be.
ShutdownIsFollowed ==
  /\ pc \in {"record", "poweron", "withdraw"} => phase # "powering_off"
  /\ asked # Never /\ pc \in {"requests", "decide"} /\ ~obs.ready /\ mach # "up" => ~ready
  /\ asked # Never /\ asked <= ShutdownTimeout =>
       \/ phase = "powering_off" /\ phaseSince = asked /\ shutdown = asked
       \/ phase = "none" /\ shutdown = asked /\ pc \in {"between", "requests"}
       \/ mach = "off" /\ ~ready /\ (pc # "between" => ~obs.ready)

MaintInv == ServedIsOnRecord /\ ShutdownIsFollowed

\* The types, a request served is on record, and a shutdown is the phase until over.
Inv == TypeOK /\ MaintInv

(***************************************************************************)
(* Liveness.                                                               *)
(***************************************************************************)

\* Retries are bounded: a request that stands is on record for good in the end,
\* taken up or given up on, unless the process is restarted, or the person asks
\* again, for ever.
RequestSettles ==
  <>[]maint => \/ <>[]started
               \/ []<><<Restart>>_vars \/ []<><<AskAgain>>_vars
=============================================================================
