------------------------------- MODULE Pool -------------------------------
(***************************************************************************)
(* The pool under demand and under a capacity ceiling:                     *)
(* metalnap/controller.py, _reconcile() as one tick over all the nodes,    *)
(* with _ceiling_section(), _apply_hold(), _settle_anchors(), _shed_pass() *)
(* and what they call.                                                     *)
(*                                                                         *)
(* A tick observes the nodes and acts on the ceiling (`BeginTick`), reads  *)
(* the demand (`ReadDemand`), advances each operation in flight by one     *)
(* step, in list order, and takes one decision.  The work queue, the       *)
(* machines and people act between any two of these.  What one operation   *)
(* does to its own node call by call is in Sleep, Wake and Visit; here an  *)
(* operation is its effect on the node, and the question is what the       *)
(* operations of several nodes do to the pool.                             *)
(*                                                                         *)
(* A node is its position in the configured list: 1 is woken first.        *)
(* A timestamp is its age in ticks, capped at the bound it is compared     *)
(* with.                                                                   *)
(***************************************************************************)
EXTENDS Sizing

CONSTANTS
  N,              \* nodes in the list
  MaxJobs,        \* bound: jobs waiting or running at one time
  None,           \* Python's None
  Failed,         \* a ceiling reading that could not be taken
  Readings,       \* the ceiling readings a run may see
  Hold,           \* cfg.ceiling_release_hold_s
  ShedDeadline,   \* cfg.ceiling_drain_deadline_s; 0 is "no deadline"
  SleepCooldown,  \* cfg.sleep_cooldown_s
  WakeSustain,    \* cfg.wake_sustain_s
  SleepSustain,   \* cfg.sleep_sustain_s
  JobSize,        \* what a job asks for, per resource
  Capacity,       \* what each node can allocate, per resource
  Default,        \* what a node holds where none reports, per resource
  HeadroomPct,    \* cfg.headroom_requested_pct; 0 is "not configured"
  Saturations,    \* what the signal may say of saturated units
  Fits,           \* how the fit check may end: see Fit
  Actors          \* who else acts: see Actor

Node == 1 .. N

\* Everything a run may switch on: a person uncordons a draining node, the
\* process is restarted, a cordon fails, the demand signal fails, the headroom
\* reading fails, scheduled visits come due.
Actor == {"operator", "restart", "cordon", "demand", "headroom", "visit"}

\* The waiting work could run on a node, could not, or the check failed.
Fit == {"yes", "no", "unknown"}

ASSUME SizeAssumption == N \in Nat \ {0} /\ MaxJobs \in Nat
ASSUME NoneAssumption == None \notin Int /\ Failed \notin Int /\ Failed # None
ASSUME ReadingAssumption == Readings \subseteq (0 .. N - 1) \cup {None, Failed}
ASSUME WindowAssumption ==
  /\ Hold \in Nat \ {0} /\ ShedDeadline \in Nat /\ SleepCooldown \in Nat
  /\ WakeSustain \in Nat /\ SleepSustain \in Nat
ASSUME ResourceAssumption ==
  /\ IsFiniteSet(DOMAIN JobSize)
  /\ \A r \in DOMAIN JobSize : JobSize[r] \in Nat
  /\ Capacity \in [Node -> [DOMAIN JobSize -> Nat]]
  /\ Default \in [DOMAIN JobSize -> Nat] /\ HeadroomPct \in 0 .. 100
ASSUME SignalAssumption ==
  /\ Saturations \subseteq Nat /\ Saturations # {}
  /\ Fits \subseteq Fit /\ Fits # {}
ASSUME ActorAssumption == Actors \subseteq Actor

VARIABLES
  \* the machines and the work queue
  mach,      \* off, boot, on (Ready), stopping (asked to go, still Ready)
  busy,      \* the node carries work
  pending,   \* jobs waiting
  \* the node objects
  cord,      \* none, ours, or outlived: our mark without its cordon
  shedAt,    \* age of the shed anchor, or None
  \* the controller's memory of each node
  phase, booting, spared,
  \* the controller's memory of the pool
  window,    \* window[a]: the reading taken a ticks ago, None if it has none
  down,      \* age of the ceiling signal's outage, or None
  high, highLast, low,   \* ages of want_high_since, _last, want_low_since
  joined,    \* a node joined service in the last tick that got that far
  \* the tick in progress
  t

envVars  == <<mach, busy, pending>>
nodeVars == <<cord, shedAt>>
memVars  == <<phase, booting, spared>>
ceilVars == <<window, down>>
timeVars == <<high, highLast, low>>
vars == <<envVars, nodeVars, memVars, ceilVars, timeVars, joined, t>>

Machine == {"off", "boot", "on", "stopping"}
Phase   == {"none", "waking", "maintaining", "sleeping", "powering_off"}

-----------------------------------------------------------------------------
\* Small arithmetic.

Least(a, b)    == IF a <= b THEN a ELSE b
Greatest(a, b) == IF a >= b THEN a ELSE b

\* An age one tick later.
Older(age, bound) == IF age = None THEN None ELSE Least(age + 1, bound)

\* The first k of S in the order Before.
FirstBy(S, k, Before(_, _)) ==
  {n \in S : Cardinality({m \in S : Before(m, n)}) < k}

-----------------------------------------------------------------------------
\* _classify(): the nodes the ceiling counts, from the phases `ph` and the
\* anchors `sh` as they stand and the readiness `rd` the tick observed.

Classify(ph, sh, rd) ==
  LET still == {n \in Node : \/ ph[n] = "sleeping"
                             \/ n \in rd /\ ph[n] # "powering_off"}
  IN [selectable |-> still,
      heldDown   |-> {n \in still : sh[n] # None},
      drains     |-> {n \in still : sh[n] = None /\ ph[n] = "sleeping"},
      up         |-> {n \in still : sh[n] = None /\ ph[n] # "sleeping"},
      booting    |-> {n \in Node \ rd : ph[n] \in {"waking", "maintaining"}},
      goingDown  |-> {n \in rd : ph[n] = "powering_off"},
      dark       |-> {n \in Node \ rd : sh[n] # None /\ ph[n] = "none"}]

\* Mutant: a machine is counted once it is up.
Powered_Up(cutting) ==
  LET v == Classify(phase, shedAt, t.ready)
  IN Cardinality(v.selectable \cup (IF cutting THEN v.goingDown ELSE {}))

\* _PoolView.powered().
Powered(cutting) ==
  LET v == Classify(phase, shedAt, t.ready)
  IN Cardinality(v.selectable \cup v.booting \cup
                 (IF cutting THEN v.goingDown ELSE {}))

\* The tick in progress: what it observed, and what it concluded so far.
NoTick == [pc |-> "between", ready |-> {}, ours |-> {}, awake |-> {},
           limit |-> None, cur |-> None, asked |-> {}, working |-> {},
           begun |-> {}, flight |-> {}, todo |-> {}, inUse |-> {},
           want |-> 0, wantUnguarded |-> 0, known |-> TRUE, measured |-> FALSE,
           joined |-> FALSE]

Engaged == t.limit # None

-----------------------------------------------------------------------------
\* The work queue and the machines.

Arrive ==
  /\ pending + Cardinality({n \in Node : busy[n]}) < MaxJobs
  /\ pending' = pending + 1
  /\ UNCHANGED <<mach, busy, nodeVars, memVars, ceilVars, timeVars, joined, t>>

\* The scheduler: one job to a node, on a node that is Ready and schedulable.
Place(n) ==
  /\ pending > 0 /\ mach[n] = "on" /\ cord[n] # "ours" /\ ~busy[n]
  /\ pending' = pending - 1
  /\ busy' = [busy EXCEPT ![n] = TRUE]
  /\ UNCHANGED <<mach, nodeVars, memVars, ceilVars, timeVars, joined, t>>

Finish(n) ==
  /\ busy[n]
  /\ busy' = [busy EXCEPT ![n] = FALSE]
  /\ UNCHANGED <<mach, pending, nodeVars, memVars, ceilVars, timeVars, joined, t>>

BootDone(n) ==
  /\ mach[n] = "boot"
  /\ mach' = [mach EXCEPT ![n] = "on"]
  /\ UNCHANGED <<busy, pending, nodeVars, memVars, ceilVars, timeVars, joined, t>>

HaltDone(n) ==
  /\ mach[n] = "stopping"
  /\ mach' = [mach EXCEPT ![n] = "off"]
  /\ busy' = [busy EXCEPT ![n] = FALSE]
  /\ UNCHANGED <<pending, nodeVars, memVars, ceilVars, timeVars, joined, t>>

\* kubectl uncordon: the ownership mark stays behind.
OperatorUncordons(n) ==
  /\ "operator" \in Actors
  /\ cord[n] = "ours" /\ mach[n] = "on" /\ phase[n] = "sleeping"
  /\ cord' = [cord EXCEPT ![n] = "outlived"]
  /\ UNCHANGED <<envVars, shedAt, memVars, ceilVars, timeVars, joined, t>>

\* Only the notes survive.  A shutdown under way is one of them: the next tick
\* takes it up again before it reads a phase.
Restart ==
  /\ "restart" \in Actors
  /\ phase' = [n \in Node |-> IF phase[n] = "powering_off" THEN phase[n] ELSE "none"]
  /\ booting' = [n \in Node |-> FALSE] /\ spared' = [n \in Node |-> 0]
  /\ window' = [a \in 0 .. Hold - 1 |-> None] /\ down' = None
  /\ high' = None /\ highLast' = None /\ low' = None
  /\ joined' = FALSE /\ t' = NoTick
  /\ UNCHANGED <<envVars, nodeVars>>

-----------------------------------------------------------------------------
\* The ceiling.

\* The trailing window with this tick's reading in it; an outage empties it.
Trailing(reading) ==
  [a \in 0 .. Hold - 1 |->
     IF reading = Failed THEN None
     ELSE IF a = 0 THEN reading ELSE window[a - 1]]

OutageAge(reading) ==
  IF reading # Failed THEN None
  ELSE IF down = None THEN 0 ELSE Least(down + 1, Hold + 1)

\* The effective limit: the least reading in the window, None if it has none.
Effective(w) ==
  LET seen == {w[a] : a \in DOMAIN w} \ {None}
  IN IF seen = {} THEN None ELSE Min(seen)

\* Mutant: an outage takes the anchors with it.
Holding_NoGrace(limit, age) == limit # None

\* Nodes the ceiling holds down stay so: it binds, or its outage is short.
Holding(limit, age) == limit # None \/ (age # None /\ age <= Hold)

\* Mutant: a node spared already is taken for one put back.
PutBack_Again(n) ==
  /\ cord[n] # "ours"
  /\ \/ phase[n] = "sleeping" \/ cord[n] = "outlived" \/ shedAt[n] # None
     \/ spared[n] > 0

\* An uncordoned node that was on its way down: someone put it back.
PutBack(n) ==
  /\ cord[n] # "ours"
  /\ phase[n] = "sleeping" \/ cord[n] = "outlived" \/ shedAt[n] # None

\* A tick begins: observe the nodes, read the ceiling, settle the anchors.
BeginTick(reading) ==
  LET rd      == {n \in Node : mach[n] \in {"on", "stopping"}}
      limit   == Effective(Trailing(reading))
      age     == OutageAge(reading)
      holding == Holding(limit, age)
  IN /\ t.pc = "between"
     /\ window' = Trailing(reading) /\ down' = age
     /\ spared' = [n \in Node |-> IF holding /\ PutBack(n) THEN SleepCooldown
                                  ELSE Greatest(spared[n] - 1, 0)]
     /\ shedAt' = [n \in Node |-> IF holding /\ cord[n] = "ours"
                                  THEN Older(shedAt[n], ShedDeadline) ELSE None]
     /\ cord' = [n \in Node |-> IF cord[n] = "ours" THEN "ours" ELSE "none"]
     /\ high' = Older(high, WakeSustain)
     /\ highLast' = Older(highLast, WakeSustain + 1)
     /\ low' = Older(low, SleepSustain)
     /\ t' = [NoTick EXCEPT
                !.pc = IF limit = None THEN "demand" ELSE "shed", !.ready = rd,
                !.ours = {n \in Node : cord[n] = "ours"},
                !.awake = {n \in rd : cord[n] # "ours"},
                !.limit = limit,
                !.cur = IF reading = Failed THEN None ELSE reading]
     /\ UNCHANGED <<envVars, phase, booting, joined>>

\* Mutant: what it costs to lose a node goes before the work it carries.
ShedKey_CostFirst(n) ==
  (IF busy[n] THEN 1 ELSE 0)
  + (IF phase[n] = "sleeping" THEN 0 ELSE IF n \in t.ours THEN 2 ELSE 4)

\* _shed_order(): no work before work, leaving before idle capacity before
\* capacity in service, the end of the list before its beginning.
ShedKey(n) ==
  (IF busy[n] THEN 3 ELSE 0)
  + (IF phase[n] = "sleeping" THEN 0 ELSE IF n \in t.ours THEN 1 ELSE 2)
GoesBefore(m, n) ==
  ShedKey(m) < ShedKey(n) \/ (ShedKey(m) = ShedKey(n) /\ m > n)

\* _choose(): who is shed beyond those already going.
Picks(v, required) ==
  FirstBy({n \in v.drains \cup v.up : spared[n] = 0},
          required - Cardinality(v.heldDown), GoesBefore)

\* _choose(): who stops being shed because fewer must go than are.
Unshed(v, required) == v.heldDown \ FirstBy(v.heldDown, required, GoesBefore)

\* Of those, whose work was read to put them in order.
Asked(v, required) ==
  IF required > Cardinality(v.heldDown)
  THEN {n \in v.drains \cup v.up : spared[n] = 0}
  ELSE IF required < Cardinality(v.heldDown) THEN v.heldDown ELSE {}

InListOrder(m, n) == m < n

\* _carry_out(): of the dark nodes, those the ceiling no longer holds down.
Surplus(dark, kept) ==
  FirstBy(dark, Cardinality(dark) - Greatest(N - t.limit - kept, 0), InListOrder)

\* A limit binds: choose what must go and start it.  Cordoning a node of
\* `failing` fails; its anchor is on record by then.
Shed(failing) ==
  LET v        == Classify(phase, shedAt, t.ready)
      required == Cardinality(v.selectable) - t.limit
      picks    == Picks(v, required)
      unshed   == Unshed(v, required)
      starts   == {n \in picks \cup (v.heldDown \ unshed) : phase[n] # "sleeping"}
      missed   == {n \in starts \cap failing : n \notin t.ours}
      begun    == starts \ missed
      ph       == [n \in Node |-> IF n \in begun THEN "sleeping"
                                  ELSE IF n \in missed THEN "none" ELSE phase[n]]
      sh       == [n \in Node |-> IF n \in unshed THEN None
                                  ELSE IF n \in picks THEN 0 ELSE shedAt[n]]
      kept     == Cardinality(v.heldDown \cup picks) - Cardinality(unshed)
      surplus  == Surplus(Classify(ph, sh, t.ready).dark, kept)
  IN /\ t.pc = "shed"
     /\ phase' = ph
     /\ booting' = [n \in Node |-> booting[n] /\ ~(n \in starts /\ phase[n] = "waking")]
     /\ shedAt' = [n \in Node |-> IF n \in surplus THEN None ELSE sh[n]]
     /\ cord' = [n \in Node |-> IF n \in begun THEN "ours" ELSE cord[n]]
     /\ t' = [t EXCEPT !.pc = "demand", !.begun = begun,
                       !.awake = @ \ begun, !.ours = @ \cup begun,
                       !.asked = Asked(v, required),
                       !.working = {n \in Asked(v, required) : busy[n]}]
     /\ UNCHANGED <<envVars, spared, ceilVars, timeVars, joined>>

-----------------------------------------------------------------------------
\* Demand.

InFlight == {n \in Node : phase[n] # "none"}

\* Awake nodes carrying work; a node the shed asked about is not asked again.
InUse == {n \in t.awake : IF n \in t.asked THEN n \in t.working ELSE busy[n]}

\* What waits and what the nodes `S` carry, in resources.
Resource == DOMAIN JobSize
Shortfall == [r \in Resource |-> pending * JobSize[r]]
Load == [n \in Node |-> [r \in Resource |-> IF busy[n] THEN JobSize[r] ELSE 0]]


\* Whole nodes the waiting work needs.
Backlog ==
  NodesFor(Shortfall, [r \in Resource |-> NodeCapacity(r, Node, Capacity, Default)])

\* The nodes demand accounts for, before the fit guard and after it.
Unguarded(saturated) ==
  Least(N, Greatest(Cardinality(InUse) + Backlog, saturated))

Guarded(saturated, fit) ==
  IF Backlog = 0 \/ saturated > 0 \/ fit = "yes" THEN Unguarded(saturated)
  ELSE IF fit = "no" THEN Cardinality(InUse) ELSE Cardinality(t.awake)

\* What headroom asks for.  A reading that raised, or was no finite amount, asks
\* for nothing: the tick decides without it.
Floor(measured) ==
  IF measured
  THEN Least(N, HeadroomFloor(Load, Capacity, t.awake, t.awake \ InUse,
                              Resource, HeadroomPct))
  ELSE 0

\* The headroom floor goes in after the guard, and the ceiling caps it all.
Clamped(want, measured) ==
  LET asked == Greatest(want, Floor(measured))
  IN IF Engaged THEN Least(asked, t.limit) ELSE asked

ReadDemand(saturated, fit, measured) ==
  /\ t.pc = "demand"
  /\ t' = [t EXCEPT !.pc = "phases", !.asked = {}, !.working = {},
                    !.inUse = InUse, !.flight = InFlight, !.todo = InFlight,
                    !.want = Clamped(Guarded(saturated, fit), measured),
                    !.wantUnguarded = Clamped(Unguarded(saturated), measured),
                    !.measured = measured]
  /\ UNCHANGED <<envVars, nodeVars, memVars, ceilVars, timeVars, joined>>

\* The demand signal fails: without a ceiling the tick ends there, with one
\* only the sheds go on.
DemandUnknown ==
  /\ "demand" \in Actors
  /\ t.pc = "demand"
  /\ t' = IF Engaged
          THEN [t EXCEPT !.pc = "phases", !.asked = {}, !.working = {},
                         !.inUse = {}, !.known = FALSE, !.flight = InFlight, !.todo = InFlight]
          ELSE NoTick
  /\ UNCHANGED <<envVars, nodeVars, memVars, ceilVars, timeVars, joined>>

-----------------------------------------------------------------------------
\* The operations in flight, one step each, in list order.

Turn(n) == t.pc = "phases" /\ n \in t.todo /\ \A m \in t.todo : n <= m

\* Mutant: a shed waits for a demand signal as everything else does.
Waits_ForDemand(n) == n \in t.begun \/ ~t.known

\* Begun a moment ago, or waiting for a demand signal.
Waits(n) ==
  \/ n \in t.begun
  \/ ~t.known /\ ~(phase[n] \in {"sleeping", "powering_off"} /\ shedAt[n] # None)

Goes(n) == Turn(n) /\ ~Waits(n)

\* Mutant: demand exactly met is short of a node.
Short_Met == t.want >= Cardinality(t.awake)

\* More nodes are wanted than are in service.
Short == t.want > Cardinality(t.awake)

\* The node has had its turn, and is in service now or not.
Done(n)   == [t EXCEPT !.todo = @ \ {n}]
Joins(n)  == [t EXCEPT !.todo = @ \ {n}, !.awake = @ \cup {n}, !.joined = TRUE]

SkipNode(n) ==
  /\ Turn(n) /\ Waits(n)
  /\ t' = Done(n)
  /\ UNCHANGED <<envVars, nodeVars, memVars, ceilVars, timeVars, joined>>

\* _set_cordon(n, False): the anchor goes with the cordon.
Uncordon(n) ==
  /\ cord' = [cord EXCEPT ![n] = "none"]
  /\ shedAt' = [shedAt EXCEPT ![n] = None]

\* Demand takes a visit over: into service, or, still booting, as a wake.
TakeOverReady(n) ==
  /\ Goes(n) /\ phase[n] = "maintaining" /\ Short /\ n \in t.ready
  /\ Uncordon(n)
  /\ phase' = [phase EXCEPT ![n] = "none"]
  /\ t' = Joins(n)
  /\ UNCHANGED <<envVars, booting, spared, ceilVars, timeVars, joined>>

TakeOverBooting(n) ==
  /\ Goes(n) /\ phase[n] = "maintaining" /\ Short /\ n \notin t.ready
  /\ phase' = [phase EXCEPT ![n] = "waking"]
  /\ t' = Done(n)
  /\ UNCHANGED <<envVars, nodeVars, booting, spared, ceilVars, timeVars, joined>>

\* maintain(): uncordoned, it is in service and let go of; booting, or held up
\* for its window; then on to the sleep path.
VisitIsUndone(n) ==
  /\ Goes(n) /\ phase[n] = "maintaining" /\ ~Short /\ n \in t.ready \ t.ours
  /\ phase' = [phase EXCEPT ![n] = "none"]
  /\ t' = Done(n)
  /\ UNCHANGED <<envVars, nodeVars, booting, spared, ceilVars, timeVars, joined>>

VisitHolds(n) ==
  /\ Goes(n) /\ phase[n] = "maintaining" /\ ~Short /\ n \notin t.ready \ t.ours
  /\ t' = Done(n)
  /\ UNCHANGED <<envVars, nodeVars, memVars, ceilVars, timeVars, joined>>

VisitEnds(n) ==
  /\ Goes(n) /\ phase[n] = "maintaining" /\ ~Short /\ n \in t.ready \cap t.ours
  /\ phase' = [phase EXCEPT ![n] = "sleeping"]
  /\ t' = Done(n)
  /\ UNCHANGED <<envVars, nodeVars, booting, spared, ceilVars, timeVars, joined>>

\* wake(), on a fresh read of the node.
WakeWaits(n) ==
  /\ Goes(n) /\ phase[n] = "waking" /\ mach[n] = "boot"
  /\ t' = Done(n)
  /\ UNCHANGED <<envVars, nodeVars, memVars, ceilVars, timeVars, joined>>

WakeArrives(n) ==
  /\ Goes(n) /\ phase[n] = "waking" /\ mach[n] = "on"
  /\ Engaged => Cardinality(t.awake) < t.limit
  /\ Uncordon(n)
  /\ phase' = [phase EXCEPT ![n] = "none"]
  /\ booting' = [booting EXCEPT ![n] = FALSE]
  /\ t' = Joins(n)
  /\ UNCHANGED <<envVars, spared, ceilVars, timeVars, joined>>

\* Arrived into a ceiling with no room for it: left stranded, for the shed.
WakeHasNoRoom(n) ==
  /\ Goes(n) /\ phase[n] = "waking" /\ mach[n] = "on"
  /\ Engaged /\ Cardinality(t.awake) >= t.limit
  /\ phase' = [phase EXCEPT ![n] = "none"]
  /\ booting' = [booting EXCEPT ![n] = FALSE]
  /\ t' = Done(n)
  /\ UNCHANGED <<envVars, nodeVars, spared, ceilVars, timeVars, joined>>

\* The sleep, as this tick saw the node.
SleepIsUndone(n) ==
  /\ Goes(n) /\ phase[n] = "sleeping" /\ n \notin t.ours
  /\ phase' = [phase EXCEPT ![n] = "none"]
  /\ t' = Done(n)
  /\ UNCHANGED <<envVars, nodeVars, booting, spared, ceilVars, timeVars, joined>>

Rescue(n) ==
  /\ Goes(n) /\ phase[n] = "sleeping" /\ n \in t.ours /\ Short
  /\ phase' = [phase EXCEPT ![n] = "none"]
  /\ Uncordon(n)
  /\ t' = Joins(n)
  /\ UNCHANGED <<envVars, booting, spared, ceilVars, timeVars, joined>>

Drains(n) == Goes(n) /\ phase[n] = "sleeping" /\ n \in t.ours /\ ~Short

\* Mutant: a node whose power is being cut already still asks for another.
Overdue_CountsGoing(n) ==
  /\ shedAt[n] # None /\ ShedDeadline > 0 /\ shedAt[n] >= ShedDeadline
  /\ t.cur # None /\ t.cur < Powered(TRUE)

\* _shed_overdue(): past the deadline, and the reading in hand asks for it.
Overdue(n) ==
  /\ shedAt[n] # None /\ ShedDeadline > 0 /\ shedAt[n] >= ShedDeadline
  /\ t.cur # None /\ t.cur < Powered(FALSE)

SleepWaits(n) ==
  /\ Drains(n) /\ busy[n] /\ ~Overdue(n)
  /\ t' = Done(n)
  /\ UNCHANGED <<envVars, nodeVars, memVars, ceilVars, timeVars, joined>>

\* _abandon_sleep() at the drain timeout, which a shed does not have.
SleepAbandoned(n) ==
  /\ Drains(n) /\ busy[n] /\ shedAt[n] = None
  /\ phase' = [phase EXCEPT ![n] = "none"]
  /\ Uncordon(n)
  /\ t' = Done(n)
  /\ UNCHANGED <<envVars, booting, spared, ceilVars, timeVars, joined>>

ShutDown(n) ==
  /\ Drains(n) /\ (busy[n] => Overdue(n))
  /\ mach' = [mach EXCEPT ![n] = "stopping"]
  /\ phase' = [phase EXCEPT ![n] = "powering_off"]
  /\ t' = Done(n)
  /\ UNCHANGED <<busy, pending, nodeVars, booting, spared, ceilVars, timeVars, joined>>

\* Mutant: the BMC alone is believed.
IsDown_PowerOnly(n) == mach[n] = "off"

IsDown(n) == mach[n] = "off" /\ n \notin t.ready

\* confirm_off(): off, and no longer reported Ready.
ConfirmOff(n) ==
  /\ Goes(n) /\ phase[n] = "powering_off"
  /\ phase' = [phase EXCEPT ![n] = IF IsDown(n) THEN "none" ELSE @]
  /\ t' = Done(n)
  /\ UNCHANGED <<envVars, nodeVars, booting, spared, ceilVars, timeVars, joined>>

\* Every operation has had its step, and nothing else is decided on a guess.
TickCutShort ==
  /\ t.pc = "phases" /\ t.todo = {} /\ ~t.known
  /\ t' = NoTick /\ joined' = t.joined
  /\ UNCHANGED <<envVars, nodeVars, memVars, ceilVars, timeVars>>

-----------------------------------------------------------------------------
\* One decision.

Deciding == t.pc = "phases" /\ t.todo = {} /\ t.known

\* Mutant: looked for among the nodes in service.
Stranded_Awake == (t.awake \cap t.ours) \ t.flight

\* Up, cordoned by us and in no operation: neither asleep nor in service.
Stranded == (t.ready \cap t.ours) \ t.flight

TickEnds == t' = NoTick /\ joined' = t.joined

\* The stranded repair takes the tick, and goes by demand before the fit guard.
NeedsMore == Cardinality(t.awake) < t.wantUnguarded

RepairUp(n) ==
  /\ Deciding /\ n \in Stranded /\ \A m \in Stranded : n <= m
  /\ NeedsMore
  /\ Uncordon(n)
  /\ t' = NoTick /\ joined' = TRUE
  /\ UNCHANGED <<envVars, memVars, ceilVars, timeVars>>

RepairDown(n) ==
  /\ Deciding /\ n \in Stranded /\ \A m \in Stranded : n <= m
  /\ ~NeedsMore
  /\ phase' = [phase EXCEPT ![n] = "sleeping"]
  /\ cord' = [cord EXCEPT ![n] = "ours"]
  /\ TickEnds
  /\ UNCHANGED <<envVars, shedAt, booting, spared, ceilVars, timeVars>>

Decides == Deciding /\ Stranded = {}
ToVisits == t' = [t EXCEPT !.pc = "visit", !.cur = None, !.inUse = {},
                           !.begun = {}, !.flight = {},
                           !.wantUnguarded = 0, !.measured = FALSE]

\* Mutant: only what has arrived is counted.
Coming_None == {}

\* Capacity on its way: booting, on a power-on of ours.
Coming == {n \in Node : phase[n] = "waking" /\ booting[n]}

HighSince == IF high = None THEN 0 ELSE high
LowSince  == IF low = None THEN 0 ELSE low

\* Demand is unmet: the timers of a wake.
WantMore == Decides /\ Short /\ high' = HighSince /\ highLast' = 0 /\ low' = None

\* The node a wake would take: the first that is neither awake nor in flight.
Candidate(n) ==
  LET free == Node \ (t.awake \cup t.flight)
  IN n \in free /\ \A m \in free : n <= m

MayWake ==
  /\ HighSince >= WakeSustain
  /\ t.want > Cardinality(t.awake) + Cardinality(Coming)
  /\ ~joined
  /\ Engaged => Powered(TRUE) < t.limit

BeginWake(n) ==
  /\ WantMore /\ MayWake /\ Candidate(n)
  /\ mach' = [mach EXCEPT ![n] = IF @ = "off" THEN "boot" ELSE @]
  /\ booting' = [booting EXCEPT ![n] = mach[n] = "off"]
  /\ phase' = [phase EXCEPT ![n] = "waking"]
  /\ shedAt' = [shedAt EXCEPT ![n] = None]
  /\ ToVisits
  /\ UNCHANGED <<busy, pending, cord, spared, ceilVars, joined>>

HoldWake ==
  /\ WantMore
  /\ ~(MayWake /\ \E n \in Node : Candidate(n))
  /\ ToVisits
  /\ UNCHANGED <<envVars, nodeVars, memVars, ceilVars, joined>>

\* More are awake than wanted: the timers of a sleep.
WantLess ==
  /\ Decides /\ t.want < Cardinality(t.awake)
  /\ low' = LowSince /\ high' = None /\ highLast' = None

\* An idle node whose own windows (idle, minimum uptime, backoff) are over.
BeginSleep(n) ==
  /\ WantLess /\ LowSince >= SleepSustain
  /\ n \in t.awake \ (t.flight \cup t.inUse)
  /\ phase' = [phase EXCEPT ![n] = "sleeping"]
  /\ cord' = [cord EXCEPT ![n] = "ours"]
  /\ ToVisits
  /\ UNCHANGED <<envVars, shedAt, booting, spared, ceilVars, joined>>

\* No node's windows are over.
HoldSleep ==
  /\ WantLess
  /\ ToVisits
  /\ UNCHANGED <<envVars, nodeVars, memVars, ceilVars, joined>>

\* Demand exactly met: the sleep starts over, the evidence for a wake is kept
\* for one more window.
DemandMet ==
  /\ Decides /\ t.want = Cardinality(t.awake)
  /\ low' = None
  /\ LET stale == highLast # None /\ highLast > WakeSustain
     IN /\ high' = IF stale THEN None ELSE high
        /\ highLast' = IF stale THEN None ELSE highLast
  /\ ToVisits
  /\ UNCHANGED <<envVars, nodeVars, memVars, ceilVars, joined>>

\* _maybe_maintain(), last: with room, demand met, nothing else in flight.
MayVisit ==
  /\ Engaged => Powered(TRUE) + 1 <= t.limit
  /\ ~Short /\ InFlight = {}

BeginVisit(n) ==
  /\ "visit" \in Actors
  /\ t.pc = "visit" /\ MayVisit
  /\ n \in t.ours \ t.ready
  /\ mach' = [mach EXCEPT ![n] = IF @ = "off" THEN "boot" ELSE @]
  /\ booting' = [booting EXCEPT ![n] = mach[n] = "off"]
  /\ phase' = [phase EXCEPT ![n] = "maintaining"]
  /\ TickEnds
  /\ UNCHANGED <<busy, pending, nodeVars, spared, ceilVars, timeVars>>

NoVisit ==
  /\ t.pc = "visit"
  /\ TickEnds
  /\ UNCHANGED <<envVars, nodeVars, memVars, ceilVars, timeVars>>

-----------------------------------------------------------------------------
Init ==
  /\ \E up \in SUBSET Node :
       /\ mach = [n \in Node |-> IF n \in up THEN "on" ELSE "off"]
       /\ cord = [n \in Node |-> IF n \in up THEN "none" ELSE "ours"]
  /\ busy = [n \in Node |-> FALSE] /\ pending = 0
  /\ shedAt = [n \in Node |-> None]
  /\ phase = [n \in Node |-> "none"] /\ booting = [n \in Node |-> FALSE]
  /\ spared = [n \in Node |-> 0]
  /\ window = [a \in 0 .. Hold - 1 |-> None] /\ down = None
  /\ high = None /\ highLast = None /\ low = None
  /\ joined = FALSE /\ t = NoTick

Environment(n) ==
  Place(n) \/ Finish(n) \/ BootDone(n) \/ HaltDone(n) \/ OperatorUncordons(n)

StepOf(n) ==
  \/ SkipNode(n)
  \/ TakeOverReady(n) \/ TakeOverBooting(n)
  \/ VisitIsUndone(n) \/ VisitHolds(n) \/ VisitEnds(n)
  \/ WakeWaits(n) \/ WakeArrives(n) \/ WakeHasNoRoom(n)
  \/ SleepIsUndone(n) \/ Rescue(n) \/ SleepWaits(n) \/ SleepAbandoned(n)
  \/ ShutDown(n) \/ ConfirmOff(n)

Decision(n) ==
  \/ RepairUp(n) \/ RepairDown(n) \/ BeginWake(n) \/ BeginSleep(n) \/ BeginVisit(n)

Failing  == IF "cordon" \in Actors THEN SUBSET Node ELSE {{}}
Measured == IF "headroom" \in Actors THEN BOOLEAN ELSE {TRUE}

Tick ==
  \/ \E r \in Readings : BeginTick(r)
  \/ \E f \in Failing : Shed(f)
  \/ \E u \in Saturations, f \in Fits, m \in Measured : ReadDemand(u, f, m)
  \/ DemandUnknown
  \/ \E n \in Node : StepOf(n) \/ Decision(n)
  \/ TickCutShort \/ HoldWake \/ HoldSleep \/ DemandMet \/ NoVisit

Next == Tick \/ Arrive \/ Restart \/ \E n \in Node : Environment(n)

Spec == Init /\ [][Next]_vars

\* The loop ticks, the scheduler places what it can, machines do as told, and
\* the windows of a node that stays idle run out.
Fairness ==
  /\ WF_vars(Tick)
  /\ \A n \in Node :
       /\ WF_vars(Place(n)) /\ WF_vars(BootDone(n)) /\ WF_vars(HaltDone(n))
       /\ SF_vars(BeginSleep(n))

FairSpec == Spec /\ Fairness
-----------------------------------------------------------------------------
\* Invariants.

StateTyped ==
  /\ mach \in [Node -> Machine] /\ busy \in [Node -> BOOLEAN]
  /\ pending \in 0 .. MaxJobs
  /\ cord \in [Node -> {"none", "ours", "outlived"}]
  /\ shedAt \in [Node -> (0 .. ShedDeadline) \cup {None}]
  /\ phase \in [Node -> Phase] /\ booting \in [Node -> BOOLEAN]
  /\ spared \in [Node -> 0 .. SleepCooldown]
  /\ window \in [0 .. Hold - 1 -> (0 .. N - 1) \cup {None}]
  /\ down \in (0 .. Hold + 1) \cup {None}
  /\ high \in (0 .. WakeSustain) \cup {None}
  /\ highLast \in (0 .. WakeSustain + 1) \cup {None}
  /\ low \in (0 .. SleepSustain) \cup {None}

TickTyped ==
  /\ DOMAIN t = DOMAIN NoTick
  /\ t.pc \in {"between", "shed", "demand", "phases", "visit"}
  /\ t.ready \subseteq Node /\ t.ours \subseteq Node /\ t.awake \subseteq Node
  /\ t.todo \subseteq Node /\ t.flight \subseteq Node
  /\ t.limit \in (0 .. N - 1) \cup {None} /\ t.cur \in (0 .. N - 1) \cup {None}
  /\ t.want \in Nat /\ t.wantUnguarded \in Nat

TypeOK == StateTyped /\ TickTyped

\* What the phases and the tick's observation say of a machine is so, so far as
\* the controller relies on it: an operation never outlives what it is about.
Accounted ==
  \A n \in Node :
    /\ mach[n] = "stopping" => phase[n] = "powering_off"
    /\ phase[n] \in {"waking", "maintaining"} => mach[n] \in {"boot", "on"}
    /\ phase[n] = "sleeping" => mach[n] = "on"
    /\ phase[n] = "powering_off" => mach[n] \in {"stopping", "off"}

Observed ==
  t.pc # "between" =>
    \A n \in Node :
      /\ phase[n] = "sleeping" => n \in t.ready
      /\ mach[n] = "stopping" => n \in t.ready
      /\ n \in t.ready /\ phase[n] # "powering_off" => mach[n] = "on"

\* The operations a tick steps through are all there are, and it counts no node
\* in service that was neither Ready when it looked nor one of them.
Followed ==
  /\ t.pc \in {"shed", "demand"} => t.awake \subseteq t.ready \ t.ours
  /\ t.pc = "phases" =>
       /\ t.todo \subseteq t.flight
       /\ t.awake \subseteq (t.ready \ t.ours) \cup t.flight
       /\ \A n \in Node : phase[n] # "none" => n \in t.flight

\* A tick that sheds has a limit, and had more machines Ready than it; it asks
\* nobody about work otherwise, and wants no more nodes than the limit.
Limited ==
  /\ t.pc = "shed" => Engaged
  /\ t.begun # {} => Engaged /\ Cardinality(t.ready) > t.limit
  /\ t.pc = "demand" /\ ~Engaged => t.asked = {}
  /\ t.pc = "phases" /\ t.known /\ Engaged => t.want <= t.limit

\* Nobody who was Ready is forgotten.  It is in service, or was held by us when
\* the tick looked; then it lost our cordon only to join, or when demand was
\* met; and had its turn in unmet demand, it joined or is going down.
Counted ==
  t.pc \in {"shed", "demand", "phases"} =>
    /\ t.ready \subseteq t.awake \cup t.ours
    /\ \A n \in t.ours \ t.awake : cord[n] = "none" => t.pc = "phases" /\ ~Short
    /\ t.pc = "phases" /\ t.known /\ Short =>
         \A n \in (t.ready \cap t.flight) \ (t.todo \cup t.begun) :
           n \in t.awake \/ phase[n] = "powering_off"

\* A visit is of a node we hold, unless the node came up after the tick looked
\* and is in service.
Held ==
  \A n \in Node :
    /\ phase[n] = "maintaining" /\ cord[n] # "ours" => mach[n] = "on"
    /\ t.pc # "between" /\ n \in t.ours \ t.ready /\ cord[n] # "ours" => mach[n] = "on"
    /\ t.pc \in {"shed", "demand", "phases"} /\ n \in t.ours /\ phase[n] = "maintaining"
         => cord[n] = "ours"

\* The nodes in service when the tick looked: what headroom is measured on.
Looked == t.ready \ t.ours

\* At the headroom threshold, were only the nodes of S awake: on the load this
\* tick read.
AtThreshold(S) ==
  \E r \in Resource :
    LET total == Total(Capacity, S, r)
    IN total > 0 /\ Full(Cardinality(t.inUse) * JobSize[r], total, HeadroomPct)

LeavesRoom(n) == ~AtThreshold(t.awake \ {n})

\* Where headroom was read: a pool at the threshold is wanted one node larger,
\* whatever joins while the tick goes on; and a tick that wants fewer nodes than
\* are awake, and saw none of them join, can spare any idle one of them.
Roomy ==
  t.pc = "phases" /\ t.known /\ ~Engaged /\ t.measured /\ HeadroomPct > 0 =>
    /\ AtThreshold(Looked) => t.want >= Least(N, Cardinality(Looked) + 1)
    /\ t.want < Cardinality(t.awake) /\ t.awake = Looked =>
         \A n \in t.awake \ t.inUse : LeavesRoom(n)

\* A job fits a node, and nothing but jobs makes demand: no headroom, no
\* saturated units.
OneToANode ==
  /\ HeadroomPct = 0 /\ Saturations = {0}
  /\ \A r \in Resource :
       LET one == NodeCapacity(r, Node, Capacity, Default)
       IN JobSize[r] = 0 \/ one = 0 \/ JobSize[r] <= one

\* More nodes than are awake are then wanted only for as many jobs.
Demanded ==
  /\ pending + Cardinality({n \in Node : busy[n]}) <= MaxJobs
  /\ OneToANode /\ t.pc = "phases" /\ t.known /\ ~Engaged
       => t.want <= MaxJobs \/ t.want <= Cardinality(t.awake)

\* Nobody uncordons a node that is then shut down, or no restart forgets a
\* node that boots.
BootsRemembered == "operator" \notin Actors \/ "restart" \notin Actors

\* A machine without our cordon is then up or known to be coming: in particular
\* one that became Ready after the tick looked.
Expected ==
  /\ "restart" \notin Actors =>
       \A n \in Node : mach[n] = "boot" /\ cord[n] # "ours"
                         => phase[n] = "waking" /\ booting[n]
  /\ "operator" \notin Actors =>
       \A n \in Node : /\ cord[n] # "ours" => mach[n] = "on"
                       /\ phase[n] = "sleeping" => cord[n] = "ours"
  /\ BootsRemembered /\ t.pc \in {"demand", "phases"} /\ ~Engaged =>
       \A n \in Node \ t.ready :
         mach[n] = "on" /\ cord[n] = "none"
           => n \in t.awake \/ (phase[n] = "waking" /\ booting[n])

\* The inductive invariant.  A machine that is stopping is one whose shutdown
\* is still followed, a drain and a wake are of a machine that is up, and the
\* tick's reading of a node is never of another life of it: it was Ready then
\* and has not been off and on since.  What the tick concluded -- its limit, who
\* is in service, how many are wanted -- is still true of the nodes when it acts
\* on it.
Inv ==
  /\ TypeOK /\ Accounted /\ Observed /\ Followed /\ Limited
  /\ Counted /\ Held /\ Roomy /\ Demanded /\ Expected

-----------------------------------------------------------------------------
\* Action properties.

PowersOn(n) == mach[n] = "off" /\ mach'[n] = "boot"
Wakes(n) == PowersOn(n) /\ phase'[n] = "waking"
NewShed(n) == shedAt[n] = None /\ shedAt'[n] # None

\* Drawing power as far as the controller can know: not off, and either in an
\* operation of its or Ready when this tick looked.
Drawing(m, ph, n) == m[n] # "off" /\ (ph[n] # "none" \/ n \in t.ready)

\* While a ceiling binds, no machine is powered on -- for demand or for a visit
\* -- that takes the machines drawing power over it: the ones draining, booting
\* and still going down count as much as those in service.
WithinBudget ==
  [][\A n \in Node : PowersOn(n) /\ Engaged =>
       Cardinality({m \in Node : Drawing(mach', phase', m)}) <= t.limit]_vars

\* No machine is powered on while one that was up when the tick looked is out
\* of service and not going down: drains are rescued, visits taken over and
\* stranded nodes returned first.
UpFirst ==
  [][\A n \in Node : Wakes(n) =>
       \A m \in t.ready : phase[m] = "powering_off" \/ m \in t.awake]_vars

\* Without a ceiling, no wake brings the machines in service or booting for it
\* over the number of jobs there can be, at one job to a node and no headroom
\* asked for: a node that boots, joins or drains is not ordered twice.
NoNeedlessMachine ==
  [][\A n \in Node : Wakes(n) /\ ~Engaged =>
       Cardinality({m \in Node : \/ mach'[m] = "on" /\ cord'[m] = "none"
                                 \/ phase'[m] = "waking" /\ booting'[m]})
         <= MaxJobs]_vars

\* A node carrying work is powered off only for a ceiling whose current reading
\* -- not the one held from earlier -- still asks for it: as many machines as
\* that reading allows are left, none of them going down already.
ForcedWithinReading ==
  [][\A n \in Node : busy[n] /\ mach[n] = "on" /\ mach'[n] = "stopping" =>
       /\ t.cur # None
       /\ Cardinality({m \in Node : mach'[m] \in {"boot", "on"}}) >= t.cur]_vars

\* What the ceiling may shed, and what this step leaves of it.
Sheddable(n) == phase[n] = "sleeping" \/ (n \in t.ready /\ phase[n] # "powering_off")
Left == {n \in Node : Sheddable(n) /\ shedAt'[n] = None}

\* The tick sheds, or some other step does what only that may.
Sheds == (t.pc = "shed" /\ t'.pc = "demand") \/ \E n \in Node : NewShed(n)

\* A shed is exact.  It leaves more nodes than the ceiling allows only where each
\* of them is spared, fewer only where it takes none at all; and it takes a node
\* carrying work only when every node without work that may be shed is.
ShedIsMeasured ==
  [][Sheds =>
       /\ Cardinality(Left) > t.limit => \A n \in Left : spared[n] > 0
       /\ Cardinality(Left) < t.limit => \A n \in Node : Sheddable(n) => n \in Left
       /\ \A n \in Node : NewShed(n) /\ busy[n] =>
            \A m \in Left : busy[m] \/ spared[m] > 0]_vars

\* An ordinary sleep is one of a node in service, without a ceiling.
PutToSleep(n) ==
  n \in t.awake /\ phase[n] = "none" /\ phase'[n] = "sleeping" /\ ~Engaged

\* Where headroom is asked for and was read, an ordinary sleep keeps it: the rest
\* of the awake pool stays below the threshold, on the load this tick read; or, a
\* node having joined meanwhile, there stay as many as were looked at, and one more
\* than that if those were at the threshold.
HeadroomKept ==
  [][\A n \in Node : PutToSleep(n) /\ HeadroomPct > 0 /\ t.measured =>
       \/ LeavesRoom(n)
       \/ Cardinality(t.awake \ {n})
            >= Cardinality(Looked) + (IF AtThreshold(Looked) THEN 1 ELSE 0)]_vars

\* The controller leaves alone, for its cooldown, a node a PERSON put back: a
\* node the ceiling spares had lost its cordon, not the attempt at one
\* (controller.py:2064-2068, README.md:629-635).
SparedIfPutBack ==
  [][\A n \in Node : spared[n] = 0 /\ spared'[n] > 0 =>
       cord[n] = "outlived" \/ phase[n] = "sleeping"]_vars

-----------------------------------------------------------------------------
\* Liveness.

Up == {n \in Node : mach[n] # "off"}

NobodyMeddles  == <>[][~ Restart /\ ~ \E n \in Node : OperatorUncordons(n)]_vars
DemandReadable == <>[][~ DemandUnknown]_vars
NobodySpared   == <>[](\A n \in Node : spared[n] = 0)
Unlimited      == <>[](window[0] = None /\ down = None)

\* A ceiling that stays at r is obeyed in the end, with a demand signal or
\* without one and though no job ends: at most r machines are not off.
CeilingObeyed ==
  \A r \in 0 .. N - 1 :
    NobodySpared /\ <>[](window[0] = r) => <>[](Cardinality(Up) <= r)

\* So is one that cannot be read every so often, as long as no outage of it
\* outlasts the hold and no work waits: the deadlines run through the outages.
FlapReachesDeadline ==
  \A r \in 0 .. N - 1 :
    /\ NobodySpared
    /\ <>[](pending = 0 /\ (window[0] = r \/ (down # None /\ down <= Hold)))
    /\ []<>(window[0] = r)
    => <>[](Cardinality(Up) <= r)

\* Once people leave the nodes alone and demand is read, no node is spared for
\* ever.
SparingEnds == NobodyMeddles /\ DemandReadable => NobodySpared

\* With no ceiling and a demand signal, waiting work is taken up, unless every
\* node is carrying work.
WorkServed ==
  Unlimited /\ DemandReadable /\ NobodyMeddles
    => []<>(pending = 0 \/ \A n \in Node : busy[n])

\* A pool with no work is powered off, in the end all of it.
IdlePoolSleeps ==
  /\ NobodyMeddles /\ DemandReadable
  /\ <>[](pending = 0 /\ \A n \in Node : ~busy[n])
  => <>[](Up = {})
=============================================================================
