-------------------------------- MODULE Wake --------------------------------
(***************************************************************************)
(* One node on its way up: metalnap/controller.py, wake(),                 *)
(* _wake_timed_out(), _cycle_refusal(), _give_up_wake(), warm(), and the   *)
(* parts of _reconcile() that begin, guard, repair and report a wake.      *)
(*                                                                         *)
(* The node starts dark, put to sleep by this controller or fallen over on *)
(* its own.  A machine may ignore the power-on, lock up while it boots or  *)
(* in service, lose its power again, or run on while its kubelet is cut    *)
(* off; a wake has to tell these apart from a BMC that reads "on" or "off" *)
(* and a Ready condition, and may cut power once per cooldown.             *)
(*                                                                         *)
(* A wake reads the node a second time (`fresh`) in the tick, because it   *)
(* finishes with an uncordon or a power cycle; every call after a read is  *)
(* a step of its own.  Timestamps are ages, as in Sleep.                   *)
(***************************************************************************)
EXTENDS Naturals

CONSTANTS
  Never,          \* "no such timestamp" (None), and a backoff that never ends
  WakeTimeout,    \* cfg.wake_timeout_s
  CycleCooldown,  \* cfg.power_cycle_cooldown_s; 0 disables the cycle
  VisitGrace,     \* how long after a visit a dark node may be updating itself
  Outcomes,       \* how a call may end: "done", "failed" or "lost", as in Sleep
  Actors          \* who else acts: see Actor

Outcome == {"done", "failed", "lost"}
Actor == {"operator", "ceiling", "restart", "deaf", "wedge", "flaky", "cutoff"}

ASSUME NeverAssumption == Never \notin Nat
ASSUME BoundsAssumption ==
  WakeTimeout \in Nat /\ CycleCooldown \in Nat /\ VisitGrace \in Nat
ASSUME SeamsAssumption ==
  Outcomes \subseteq Outcome /\ "done" \in Outcomes /\ Actors \subseteq Actor

VARIABLES
  \* the node object
  cordoned, ours,  \* the cordon, and whether it carries our mark
  maint, ready,
  record,          \* age of the power-cycled note, or Never
  visited,         \* age of the last visit's note, or Never
  troubled,        \* the trouble note is on the node
  \* the machine, and work the queue lists on the node
  mach, running,
  \* the controller's memory, st[name]
  phase, phaseSince,
  booting, coldStart, confirmed, cycled,
  backoff,         \* what is left of wake_backoff_until, or Never
  waitedOn,        \* {backoff_record}, or {} if there is none
  trouble,
  \* the tick in progress
  pc, obs,
  fresh,           \* the second reading ...
  recordRead,      \* ... and {the record} it showed, or {} if the node could not be read
  \* history, read by properties only
  lastCycle,       \* age of the last power cycle this controller asked for
  rearmed,         \* its record was deleted by an operator since
  meddled,         \* an operator touched the node since it was last read
  raced            \* work landed on the node since busy() was asked

nodeVars == <<cordoned, ours, maint, ready, record, visited, troubled>>
machVars == <<mach, running>>
flagVars == <<booting, coldStart, confirmed, cycled>>
failVars == <<backoff, waitedOn, trouble>>
memVars  == <<phase, phaseSince, flagVars, failVars>>
tickVars == <<pc, obs, fresh, recordRead>>
histVars == <<lastCycle, rearmed, meddled, raced>>
vars == <<nodeVars, machVars, memVars, tickVars, histVars>>

Machine == {"off", "booting", "up", "wedged"}
Phase   == {"none", "waking", "warming"}
Step    == {"between", "decide", "step", "timeout", "refuse", "record", "cycle"}

Ages(b) == (0 .. b + 1) \cup {Never}
Aged(t, b) == IF t = Never \/ t = b + 1 THEN t ELSE t + 1

Larger(a, b) == IF a > b THEN a ELSE b
LongestBackoff == Larger(WakeTimeout, Larger(CycleCooldown, VisitGrace))

\* One read of the node object.
Reading == [cordoned : BOOLEAN, ours : BOOLEAN, ready : BOOLEAN, maint : BOOLEAN]
NoReading == [cordoned |-> FALSE, ours |-> FALSE, ready |-> FALSE, maint |-> FALSE]
NodeNow == [cordoned |-> cordoned, ours |-> cordoned /\ ours, ready |-> ready,
            maint |-> maint]

\* One record as it was read, if one reading was made.
Records == {{}} \cup {{r} : r \in Ages(CycleCooldown)}

\* A person has the node, as one reading shows it.
Held(r)  == r.cordoned /\ ~r.ours
Taken(r) == r.maint \/ Held(r)

NodeTyped ==
  /\ cordoned \in BOOLEAN /\ ours \in BOOLEAN /\ maint \in BOOLEAN
  /\ ready \in BOOLEAN /\ troubled \in BOOLEAN
  /\ record \in Ages(CycleCooldown) /\ visited \in Ages(VisitGrace)

MachineTyped == mach \in Machine /\ running \in BOOLEAN

PhaseTyped ==
  /\ phase \in Phase /\ phaseSince \in 0 .. WakeTimeout + 1
  /\ phase # "waking" => phaseSince = 0

FlagsTyped ==
  /\ booting \in BOOLEAN /\ coldStart \in BOOLEAN
  /\ confirmed \in BOOLEAN /\ cycled \in BOOLEAN
  /\ phase # "waking" => ~booting /\ ~coldStart /\ ~confirmed /\ ~cycled

FailTyped ==
  /\ backoff \in 0 .. LongestBackoff \cup {Never}
  /\ waitedOn \in Records
  /\ trouble \in BOOLEAN

TickTyped ==
  /\ pc \in Step /\ obs \in Reading /\ fresh \in Reading
  /\ recordRead \in Records
  /\ pc \notin {"between", "decide"} => phase = "waking"

HistTyped ==
  /\ lastCycle \in Ages(CycleCooldown)
  /\ rearmed \in BOOLEAN /\ meddled \in BOOLEAN /\ raced \in BOOLEAN

TypeOK ==
  /\ NodeTyped /\ MachineTyped /\ PhaseTyped /\ FlagsTyped
  /\ FailTyped /\ TickTyped /\ HistTyped

\* Dark: put down by us and off, or crashed in service with its cordon open.
Init ==
  /\ \/ cordoned = TRUE /\ ours = TRUE /\ mach = "off" /\ running = FALSE
     \/ cordoned = FALSE /\ ours = FALSE /\ mach \in {"off", "wedged"} /\ running \in BOOLEAN
  /\ maint = FALSE /\ ready = FALSE /\ troubled = FALSE
  /\ record = Never /\ visited \in {Never, 0}
  /\ phase = "none" /\ phaseSince = 0
  /\ booting = FALSE /\ coldStart = FALSE /\ confirmed = FALSE /\ cycled = FALSE
  /\ backoff = 0 /\ waitedOn = {} /\ trouble = FALSE
  /\ pc = "between" /\ obs = NoReading /\ fresh = NoReading /\ recordRead = {}
  /\ lastCycle = Never /\ rearmed = FALSE /\ meddled = FALSE /\ raced = FALSE

-----------------------------------------------------------------------------
(***************************************************************************)
(* Writes, and the ways out of a wake.                                     *)
(***************************************************************************)

EndTick ==
  /\ pc' = "between" /\ obs' = NoReading /\ fresh' = NoReading /\ recordRead' = {}
  /\ meddled' = FALSE /\ raced' = FALSE

\* The wake is over.  What it remembered is read by no other phase, and the next
\* wake starts by resetting it, so it goes here.
LeaveFor(p) ==
  /\ phase' = p /\ phaseSince' = 0
  /\ booting' = FALSE /\ coldStart' = FALSE /\ confirmed' = FALSE /\ cycled' = FALSE

\* _try_note(name, "trouble", v): a failed write is passed over.
TryNoteTrouble(v, o) == troubled' = IF o = "failed" THEN troubled ELSE v

\* Mutant: demand is pointed elsewhere, and nobody is told.
GiveUp_Silent(wait, rec, alert) ==
  /\ LeaveFor("none")
  /\ backoff' = wait /\ waitedOn' = rec
  /\ EndTick
  /\ UNCHANGED <<cordoned, ours, maint, ready, visited, trouble, troubled>>

\* _give_up_wake(): stop, point demand elsewhere until `wait` has passed, and
\* remember which record the backoff waits out, if the node could be read.
GiveUp(wait, rec, alert) ==
  /\ LeaveFor("none")
  /\ backoff' = wait /\ waitedOn' = rec
  /\ trouble' = (trouble \/ alert)
  /\ \E o \in Outcomes :
       IF alert THEN TryNoteTrouble(TRUE, o) ELSE UNCHANGED troubled
  /\ EndTick
  /\ UNCHANGED <<cordoned, ours, maint, ready, visited>>

\* What is left of `span` since a timestamp of this age.
Left(span, age) == IF age >= span THEN 0 ELSE span - age

-----------------------------------------------------------------------------
(***************************************************************************)
(* The tick.                                                               *)
(***************************************************************************)

\* Deleting the record re-arms the cycle: a backoff that waits it out is lifted.
Rearmed(rec) == waitedOn \notin {{}, {rec}}

\* Mutant: a note that could not be written is never written again.
Untold_Forgotten(recovered) == FALSE

\* A failure this process knows of and the node does not say.
Untold(recovered) == trouble /\ ~recovered /\ ~troubled

\* The reading the tick works from, a mark that outlived its cordon gone from it,
\* and what the reading says of a failure on record.
Observe ==
  /\ pc = "between" /\ pc' = "decide"
  /\ obs' = NodeNow /\ meddled' = FALSE
  /\ \E o \in Outcomes : ours' = (ours /\ (cordoned \/ o = "failed"))
  /\ LET recovered == ready \/ Taken(NodeNow)
         lifted    == ready \/ Rearmed(record)
     IN  /\ trouble' = (trouble /\ ~recovered)
         /\ \E o \in Outcomes :
              IF recovered /\ troubled THEN TryNoteTrouble(FALSE, o)
              ELSE IF Untold(recovered) THEN TryNoteTrouble(TRUE, o)
              ELSE UNCHANGED troubled
         /\ backoff' = IF lifted THEN 0 ELSE backoff
         /\ waitedOn' = IF lifted THEN {} ELSE waitedOn
  /\ UNCHANGED <<cordoned, maint, ready, record, visited, machVars, phase, phaseSince,
                 flagVars, fresh, recordRead, lastCycle, rearmed, raced>>

\* Nothing is done for this node: nobody wants it, or the signal is down.
NothingDecided ==
  /\ pc = "decide"
  /\ EndTick
  /\ UNCHANGED <<nodeVars, machVars, memVars, lastCycle, rearmed>>

\* A person's cordon ends any operation, their request a wake.
YieldToOperator ==
  /\ pc = "decide"
  /\ (phase # "none" /\ Held(obs)) \/ (phase = "waking" /\ obs.maint)
  /\ LeaveFor("none") /\ EndTick
  /\ UNCHANGED <<nodeVars, machVars, failVars, lastCycle, rearmed>>

\* wake() on a node in no operation: power it on, unless it is on already.  One
\* that could not be asked is passed over for a wake timeout.
BeginWake ==
  /\ pc = "decide" /\ phase = "none"
  /\ ~(obs.ready /\ ~obs.cordoned) /\ ~Taken(obs) /\ backoff = 0
  /\ ~(obs.ready /\ obs.ours)                  \* the stranded repair's
  /\ \E o \in Outcomes, p \in Outcomes :
       LET off     == mach = "off"
           started == o = "done" /\ (off => p = "done")
       IN  /\ mach' \in IF off /\ o = "done" /\ p # "failed"
                        THEN {"booting"} \cup (IF "deaf" \in Actors THEN {"off"} ELSE {})
                        ELSE {mach}
           /\ IF started
              THEN /\ phase' = "waking" /\ phaseSince' = 0
                   /\ booting' = off /\ coldStart' = off
                   /\ confirmed' = FALSE /\ cycled' = FALSE
                   /\ UNCHANGED backoff
              ELSE /\ backoff' = WakeTimeout
                   /\ UNCHANGED <<phase, phaseSince, flagVars>>
  /\ EndTick
  /\ UNCHANGED <<nodeVars, running, waitedOn, trouble, lastCycle, rearmed>>

\* A wake in progress reads the node again, and goes by that from there on.
ReadAgain ==
  /\ pc = "decide" /\ phase = "waking" /\ ~Taken(obs)
  /\ pc' = "step"
  /\ \E o \in Outcomes : IF o = "done" THEN fresh' = NodeNow /\ recordRead' = {record}
                                      ELSE UNCHANGED <<fresh, recordRead>>
  /\ obs' = NoReading /\ meddled' = FALSE
  /\ UNCHANGED <<nodeVars, machVars, memVars, lastCycle, rearmed, raced>>

\* Mutant: the tick's first reading is trusted, and that had nobody's hand on it.
TakenSince_Stale == FALSE

TakenSince == Taken(fresh)

\* Ready, and a person's since the tick began.
LeaveToOperator ==
  /\ pc = "step" /\ fresh.ready /\ TakenSince
  /\ LeaveFor("none") /\ EndTick
  /\ UNCHANGED <<nodeVars, machVars, failVars, lastCycle, rearmed>>

\* Ready, into a ceiling that has no room for it: left cordoned.
ArriveWithoutRoom ==
  /\ "ceiling" \in Actors
  /\ pc = "step" /\ fresh.ready /\ ~TakenSince
  /\ LeaveFor("none") /\ EndTick
  /\ UNCHANGED <<nodeVars, machVars, failVars, lastCycle, rearmed>>

\* Ready: uncordon first, warm up after.  A failed uncordon is tried again.
CompleteWake ==
  /\ pc = "step" /\ fresh.ready /\ ~TakenSince
  /\ \E o \in Outcomes, p \in Outcomes :
       /\ IF o = "failed" THEN UNCHANGED <<cordoned, ours>>
                          ELSE cordoned' = FALSE /\ ours' = FALSE
       /\ IF o = "done"
          THEN LeaveFor(IF p = "done" THEN "warming" ELSE "none")
          ELSE UNCHANGED <<phase, phaseSince, flagVars>>
  /\ EndTick
  /\ UNCHANGED <<maint, ready, record, visited, troubled, machVars, failVars, lastCycle, rearmed>>

\* A cold boot is confirmed by the chassis once, or given up.
NotPoweredOn ==
  /\ pc = "step" /\ ~fresh.ready
  /\ booting /\ ~confirmed /\ mach = "off"
  /\ GiveUp(WakeTimeout, recordRead, TRUE)
  /\ UNCHANGED <<record, machVars, lastCycle, rearmed>>

ConfirmPower ==
  /\ pc = "step" /\ ~fresh.ready
  /\ \E o \in Outcomes :
       confirmed' = IF booting /\ ~confirmed /\ o = "done" /\ mach # "off" THEN TRUE ELSE confirmed
  /\ booting /\ ~confirmed /\ mach = "off" => Outcomes # {"done"}
  /\ pc' = "timeout"
  /\ UNCHANGED <<nodeVars, machVars, phase, phaseSince, booting, coldStart, cycled, failVars,
                 obs, fresh, recordRead, lastCycle, rearmed, meddled, raced>>

-----------------------------------------------------------------------------
(***************************************************************************)
(* _wake_timed_out() and _cycle_refusal().                                 *)
(***************************************************************************)

InTime ==
  /\ pc = "timeout" /\ phaseSince <= WakeTimeout
  /\ EndTick
  /\ UNCHANGED <<nodeVars, machVars, memVars, lastCycle, rearmed>>

\* No verdict on a node that could not be read, nor on one a person has.
TimedOutUndecided ==
  /\ pc = "timeout" /\ phaseSince > WakeTimeout
  /\ IF recordRead # {}
     THEN TakenSince /\ LeaveFor("none")
     ELSE booting' = FALSE /\ UNCHANGED <<phase, phaseSince, coldStart, confirmed, cycled>>
  /\ EndTick
  /\ UNCHANGED <<nodeVars, machVars, failVars, lastCycle, rearmed>>

TimedOutUnreadable ==
  /\ pc = "timeout" /\ phaseSince > WakeTimeout /\ recordRead # {} /\ ~TakenSince
  /\ Outcomes # {"done"}
  /\ GiveUp(WakeTimeout, recordRead, TRUE)
  /\ UNCHANGED <<record, machVars, lastCycle, rearmed>>

\* Off: the next wake tries again, unless it was seen to come on.
TimedOutOff ==
  /\ pc = "timeout" /\ phaseSince > WakeTimeout /\ recordRead # {} /\ ~TakenSince
  /\ mach = "off"
  /\ IF confirmed
     THEN GiveUp(WakeTimeout, recordRead, TRUE)
     ELSE /\ LeaveFor("none") /\ EndTick
          /\ UNCHANGED <<cordoned, ours, maint, ready, visited, troubled, failVars>>
  /\ UNCHANGED <<record, machVars, lastCycle, rearmed>>

TimedOutOn ==
  /\ pc = "timeout" /\ phaseSince > WakeTimeout /\ recordRead # {} /\ ~TakenSince
  /\ mach # "off"
  /\ booting' = FALSE /\ pc' = "refuse"
  /\ UNCHANGED <<nodeVars, machVars, phase, phaseSince, coldStart, confirmed, cycled, failVars,
                 obs, fresh, recordRead, lastCycle, rearmed, meddled, raced>>

\* Mutant: only this process's memory bounds the cycle.
RecentlyCycled_MemoryOnly == FALSE

\* The record on the node is the only bound.
RecentlyCycled == \E r \in recordRead : r # Never /\ r < CycleCooldown

\* Dark since a visit, and not found off: it may be updating itself.
MayBeUpdating == visited # Never /\ visited < VisitGrace /\ ~coldStart

\* How long the next attempt waits, and whether a person is told.
RefuseAfterCycle ==
  /\ cycled
  /\ \E r \in recordRead :
       GiveUp(IF r = Never THEN WakeTimeout ELSE Left(CycleCooldown, r), recordRead, TRUE)

RefuseRecent ==
  /\ ~cycled /\ RecentlyCycled
  /\ \E r \in recordRead : GiveUp(Left(CycleCooldown, r), recordRead, TRUE)

RefuseUpdating ==
  /\ ~cycled /\ ~RecentlyCycled /\ MayBeUpdating
  /\ GiveUp(Left(VisitGrace, visited), recordRead, FALSE)

SeesNoWork(o) == o = "done" /\ ~running

RefuseBusy ==
  /\ ~cycled /\ ~RecentlyCycled /\ ~MayBeUpdating
  /\ \E o \in Outcomes : ~SeesNoWork(o)
  /\ GiveUp(WakeTimeout, recordRead, TRUE)

Refuse ==
  /\ pc = "refuse"
  /\ \/ "ceiling" \in Actors /\ GiveUp(WakeTimeout, recordRead, TRUE)  \* over the limit
     \/ CycleCooldown = 0 /\ GiveUp(Never, recordRead, TRUE)           \* disabled
     \/ CycleCooldown > 0 /\ (RefuseAfterCycle \/ RefuseRecent \/ RefuseUpdating \/ RefuseBusy)
  /\ UNCHANGED <<record, machVars, lastCycle, rearmed>>

Allow ==
  /\ pc = "refuse" /\ pc' = "record"
  /\ CycleCooldown > 0 /\ ~cycled /\ ~RecentlyCycled /\ ~MayBeUpdating
  /\ \E o \in Outcomes : SeesNoWork(o)
  /\ raced' = FALSE
  /\ UNCHANGED <<nodeVars, machVars, memVars, obs, fresh, recordRead, lastCycle, rearmed, meddled>>

\* Mutant: a record that could not be written stops nothing.
OnRecord_Anyway(o) == TRUE

OnRecord(o) == o = "done"

\* On record BEFORE the cycle, and no record means no cycle.
RecordCycle ==
  /\ pc = "record"
  /\ \E o \in Outcomes :
       /\ record' = IF o = "failed" THEN record ELSE 0
       /\ rearmed' = (rearmed /\ o = "failed")
       /\ IF OnRecord(o)
          THEN /\ pc' = "cycle"
               /\ UNCHANGED <<cordoned, ours, maint, ready, visited, troubled, memVars,
                              obs, fresh, recordRead, meddled, raced>>
          ELSE GiveUp(WakeTimeout, recordRead, TRUE)
  /\ UNCHANGED <<machVars, lastCycle>>

\* The power is cut and comes back: a machine that was off stays off.
Cycle(o) ==
  IF o = "failed"
  THEN UNCHANGED <<machVars, lastCycle>>
  ELSE /\ mach' = IF mach = "off" THEN "off" ELSE "booting"
       /\ running' = FALSE /\ lastCycle' = 0

CyclePower ==
  /\ pc = "cycle"
  /\ \E o \in Outcomes :
       /\ Cycle(o)
       /\ IF o = "done"
          THEN /\ cycled' = TRUE /\ phaseSince' = 0
               /\ EndTick
               /\ UNCHANGED <<cordoned, ours, maint, ready, visited, troubled, phase, booting,
                              coldStart, confirmed, failVars>>
          ELSE GiveUp(CycleCooldown, {0}, TRUE)
  /\ UNCHANGED <<record, rearmed>>

-----------------------------------------------------------------------------
\* Ready, ours and in no operation, and needed: the repair completes the wake.
FinishWake ==
  /\ pc = "decide" /\ phase = "none" /\ obs.ready /\ obs.ours /\ ~obs.maint
  /\ \E o \in Outcomes :
       IF o = "failed" THEN UNCHANGED <<cordoned, ours>>
                       ELSE cordoned' = FALSE /\ ours' = FALSE
  /\ EndTick
  /\ UNCHANGED <<maint, ready, record, visited, troubled, machVars, memVars, lastCycle, rearmed>>

\* warm(): the node is in service already; finished or out of time, it is over.
WarmUp ==
  /\ pc = "decide" /\ phase = "warming" /\ ~Held(obs)
  /\ LeaveFor("none") \/ UNCHANGED <<phase, phaseSince, flagVars>>
  /\ EndTick
  /\ UNCHANGED <<nodeVars, machVars, failVars, lastCycle, rearmed>>

Controller ==
  \/ Observe \/ NothingDecided \/ YieldToOperator \/ BeginWake \/ ReadAgain
  \/ LeaveToOperator \/ ArriveWithoutRoom \/ CompleteWake \/ NotPoweredOn \/ ConfirmPower
  \/ InTime \/ TimedOutUndecided \/ TimedOutUnreadable \/ TimedOutOff \/ TimedOutOn
  \/ Refuse \/ Allow \/ RecordCycle \/ CyclePower \/ FinishWake \/ WarmUp

-----------------------------------------------------------------------------
(***************************************************************************)
(* Everything else.                                                        *)
(***************************************************************************)

Boots == mach = "booting" /\ mach' = "up" /\ UNCHANGED running

LocksUp == "wedge" \in Actors /\ mach \in {"booting", "up"} /\ mach' = "wedged" /\ UNCHANGED running

LosesPower == "flaky" \in Actors /\ mach # "off" /\ mach' = "off" /\ running' = FALSE

\* The queue's own records of work outlive the machine that ran it.
WorkEnds == running /\ running' = FALSE /\ UNCHANGED mach

MachineMoves ==
  /\ Boots \/ LocksUp \/ LosesPower \/ WorkEnds
  /\ UNCHANGED <<nodeVars, memVars, tickVars, histVars>>

WorkStarts ==
  /\ ready /\ ~cordoned /\ mach = "up" /\ ~running
  /\ running' = TRUE /\ raced' = (pc \in {"record", "cycle"})
  /\ UNCHANGED <<nodeVars, mach, memVars, tickVars, lastCycle, rearmed, meddled>>

\* A report, or the lack of one: a kubelet cut off reads NotReady on a node that runs.
KubeletReports ==
  /\ ready' \in {mach = "up"} \cup (IF "cutoff" \in Actors THEN {FALSE} ELSE {})
  /\ ready' # ready
  /\ UNCHANGED <<cordoned, ours, maint, record, visited, troubled, machVars, memVars, tickVars,
                 histVars>>

OperatorActs ==
  /\ "operator" \in Actors
  /\ \/ ~cordoned /\ cordoned' = TRUE /\ UNCHANGED <<maint, record, rearmed>>
     \/ cordoned /\ cordoned' = FALSE /\ UNCHANGED <<maint, record, rearmed>>
     \/ maint' = ~maint /\ UNCHANGED <<cordoned, record, rearmed>>
     \/ record # Never /\ record' = Never /\ rearmed' = TRUE /\ UNCHANGED <<cordoned, maint>>
  /\ meddled' = TRUE
  /\ UNCHANGED <<ours, ready, visited, troubled, machVars, memVars, tickVars, lastCycle, raced>>

Restart ==
  /\ "restart" \in Actors
  /\ LeaveFor("none")
  /\ backoff' = 0 /\ waitedOn' = {} /\ trouble' = FALSE
  /\ EndTick
  /\ UNCHANGED <<nodeVars, machVars, lastCycle, rearmed>>

TimePasses ==
  /\ pc = "between"
  /\ record' = Aged(record, CycleCooldown)
  /\ visited' = Aged(visited, VisitGrace)
  /\ phaseSince' = IF phase = "waking" /\ phaseSince <= WakeTimeout THEN phaseSince + 1
                                                                    ELSE phaseSince
  /\ backoff' = IF backoff \in {0, Never} THEN backoff ELSE backoff - 1
  /\ waitedOn' = IF backoff' = 0 THEN {} ELSE {Aged(r, CycleCooldown) : r \in waitedOn}
  /\ lastCycle' = Aged(lastCycle, CycleCooldown)
  /\ UNCHANGED <<cordoned, ours, maint, ready, troubled, machVars, phase, flagVars, trouble,
                 tickVars, rearmed, meddled, raced>>

Environment == \/ MachineMoves \/ WorkStarts \/ KubeletReports
               \/ OperatorActs \/ Restart \/ TimePasses

Next == Controller \/ Environment

Spec == Init /\ [][Next]_vars

(***************************************************************************)
(* Fairness.  run_forever() ticks for ever, time passes, and the kubelet's *)
(* next report follows the machine.  Demand goes on wanting the node, so a *)
(* wake that is due is begun and carried on in the end, with its calls     *)
(* succeeding: strong fairness, because a failed call, a signal that is    *)
(* down or a machine that comes and goes takes the chance away again.      *)
(* Nothing makes work end, or a boot get anywhere.                         *)
(***************************************************************************)
Advance == \/ (CompleteWake /\ ~cordoned') \/ (WarmUp /\ phase' = "none")
           \/ NotPoweredOn \/ TimedOutOff \/ TimedOutOn
           \/ (TimedOutUndecided /\ phase' = "none")
           \/ Refuse \/ Allow \/ RecordCycle \/ CyclePower

Fairness ==
  /\ WF_vars(Controller)
  /\ SF_vars(TimePasses)
  /\ SF_vars(Observe /\ (troubled' <=> trouble'))
  /\ SF_vars(BeginWake /\ phase' = "waking")
  /\ SF_vars(ReadAgain /\ recordRead' # {})
  /\ SF_vars(NotPoweredOn \/ (ConfirmPower /\ ~confirmed /\ confirmed'))
  /\ SF_vars(Advance)
  /\ WF_vars(KubeletReports /\ ready' = (mach = "up"))

FairSpec == Spec /\ Fairness

-----------------------------------------------------------------------------
(***************************************************************************)
(* Safety.                                                                 *)
(***************************************************************************)

\* "Escalate once, then hand it to a human": about to put a cycle on record, the
\* controller made none within the cooldown -- in this wake, an earlier one or an
\* earlier process -- but one whose record an operator has deleted since.
OneCyclePerCooldown ==
  pc = "record" => lastCycle = Never \/ lastCycle >= CycleCooldown \/ rearmed

\* A cycle that happened is on record, whatever calls failed around it: the bound
\* a new process reads is never weaker than what was done.
CycleIsOnRecord ==
  lastCycle # Never /\ ~rearmed => record # Never /\ record <= lastCycle

\* NEVER interrupt running work, by power either: a node about to be cycled runs
\* nothing but what landed on it since the work queue was asked.
SeenWorkSpared == pc = "cycle" => ~running \/ raced

\* A node that was a person's when it was last read is neither put into service
\* nor cycled on that reading.
TakenNodeLeftAlone ==
  [][Taken(NodeNow) /\ ~meddled /\ ~meddled' => UNCHANGED cordoned /\ pc # "cycle"]_vars

(***************************************************************************)
(* Liveness.                                                               *)
(***************************************************************************)

\* No silent outage: a node that is wanted and dark is back, or reported as in
\* trouble, or in a person's hands in the end -- deaf to its power-on,
\* run down by its power, or cut off with work on it.  (A process restarted time
\* after time within every wake timeout never reaches a verdict.)
OutageIsReported ==
  (~ready /\ ~Taken(NodeNow)) ~> (ready \/ trouble \/ Taken(NodeNow))

\* ... and what is known of it reaches the node, where a new process finds it.
TroubleReachesNode ==
  trouble ~> (troubled \/ ready \/ Taken(NodeNow))

-----------------------------------------------------------------------------
(***************************************************************************)
(* Why these hold: what a reading is still good for, steps later.          *)
(***************************************************************************)

\* The record is as it was read, or an operator has deleted it.
RecordAsRead ==
  pc \in {"step", "timeout", "refuse", "record"} =>
    \A r \in recordRead : r = record \/ (rearmed /\ record = Never)

NothingReadYet == pc \in {"between", "decide"} => recordRead = {}

\* Only a readable node gets as far as a cycle, and only past the bound.
PastBound ==
  /\ pc \in {"refuse", "record"} => recordRead # {}
  /\ pc = "record" => ~RecentlyCycled
  /\ pc = "cycle" /\ ~rearmed => record = 0

\* Work seen by nobody is work that came since the queue was asked.
WorkAsAsked == pc \in {"record", "cycle"} => ~running \/ raced

\* Whose the node is, by the latest reading of it, until an operator acts.
AsLastRead ==
  /\ pc = "decide" /\ ~meddled => (Taken(obs) <=> Taken(NodeNow))
  /\ recordRead # {} /\ ~meddled => (TakenSince <=> Taken(NodeNow))
  /\ recordRead = {} => ~fresh.ready
  /\ pc \in {"refuse", "record", "cycle"} => recordRead # {} /\ ~TakenSince

WakeInv ==
  /\ CycleIsOnRecord /\ NothingReadYet /\ RecordAsRead
  /\ PastBound /\ WorkAsAsked /\ AsLastRead

\* The types, and what each step of a wake may still rely on.
Inv == TypeOK /\ WakeInv
=============================================================================
