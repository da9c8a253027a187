# A TLA+ model of metalnap

metalnap powers bare-metal Kubernetes nodes off when nobody needs them and on
again when somebody does. One process ticks once a minute. Each tick reads the
nodes, the demand and the capacity ceiling, advances the operations in flight
(a drain, a shutdown, a boot, a visit) by at most one step each, and then takes
at most one decision. Between any two of its calls the work queue places and
ends jobs, machines boot, hang and lose power, kubelets report late, people
cordon, power and ask for nodes, and the process itself may be restarted. The
memory of an operation in flight is lost with it; what must survive is written
on the node as annotations ("notes").

The promises are few and strong: running work is never interrupted (short of a
configured shed deadline), a person's hold on a machine outranks every decision
in flight, power is cut once and then a human is told, and no node is left in
between for ever. This directory states them as properties of models
translated from the code, model-checks them on small instances and proves the
safety ones for every value of the constants.

## 1. Inventory

All line numbers in the modules' comments and in `PROJECT.json` are those of
the repository this directory sits beside.

| component | source | state it keeps | operations |
|---|---|---|---|
| sleep | `controller.py` `sleep`, `_abandon_sleep`, `confirm_off` | `phase` (sleeping, powering_off), `phase_since`, `sleep_attempts`, `cooldown_until`; on the node: cordon + ownership mark with its time, `shutdown` and `shed` notes | begin (cordon), wait for work, drain timeout, list and release idle units, residual check, announce, note, soft-off, confirm, resume after a restart, stranded repair |
| wake | `wake`, `_wake_timed_out`, `_cycle_refusal`, `_give_up_wake`, `warm` | `phase` (waking, warming), `booting`, `cold_start`, `confirmed`, `power_cycled`, `wake_backoff_until`, `backoff_record`, `trouble`; on the node: `power-cycled`, `visited`, `trouble` notes | power on, fresh read, uncordon, confirm the power-on, time out, refuse or record and make one power cycle, give up, warm up |
| operator maintenance mode | `_maintenance_requests`, `_take_up_maintenance`, `cli.py` | `maintenance_power_failed_at`; on the node: `maintenance`, `maintenance-started` | ask, take up (record, then power on, or take back the record), give back, tidy up |
| status writer | `status.py` | `_pending`, `_thread`, `_written`, `error`; the ConfigMap | publish, start the thread, take, GET, conditional PUT, skip |
| scheduled visits | `maintain`, `_end_visit`, `_release_visit`, `_maybe_maintain` | `phase` (maintaining), `maintenance_at`, `maintenance_until`, `visit_powered_on`, `dark_after_visit`; on the node: `visited` | begin, cordon kept, end, sleep afterwards, be taken over by demand |
| capacity ceiling | `_read_ceiling`, `_apply_hold`, `_classify`, `_settle_anchors`, `_choose`, `_start_shed`, `_carry_out` | the hold window, the age of an outage, the effective limit, `ceiling_spared_until`; `shed` notes | read, hold, choose nodes to shed, anchor, spare, forget, gate wakes and visits |
| tick and sizing | `tick`, `_reconcile`, `_size`, `_headroom`, `signal/prometheus.py` | `want_high_since`, `want_low_since`, `idle_since`, `_joined_tick` | want from demand, clamps, sustain windows, one corrective action per tick |
| notification reconcile | `_asleep`, `_dark_trouble`, `_check_dark`, `notify/alertmanager.py` | silences and alerts at Alertmanager; `trouble`, `off`, `dark_on_since` | find, create and delete silences: mute a node put down, unmute any other, announce a shutdown, alert |
| node source, drain, power, warm-up | `kube.py`, `drain/arc.py`, `power/ipmi.py`, `warmup/pod.py` | the node object; the pods; the chassis | the calls the operations are made of |
| metrics, command line, configuration | `metrics.py`, `cli.py`, `config.py`, `__main__.py` | connection slots; nothing | serve, print, validate |

How they interact. `controller.py` calls everything; nothing calls it back.
State is shared in four places: the node object (controller, command line,
operators and kubelet all write it, with merge patches that do not compare
versions), the chassis (controller and people), the work on the node (queue and
controller), and the status slot (tick and writer thread, under one lock). The
hard behaviours are therefore

* an observation at the start of the tick that later calls act upon, while the
  world moves on (all modules);
* a call that had its effect though the caller saw an exception: an `ipmitool`
  or HTTP timeout. Every call ends in one of three ways in the models, `done`,
  `failed` (no effect) or `lost` (effect, exception);
* restarts between any two calls, with only notes surviving;
* deadlines that must not be restarted by any of that;
* several repair paths (stranded repair, resumed shutdown, trouble note) that
  see the same node in turn.

What makes each component correct is stated in section 3 with the properties;
`PROJECT.json` lists the hazards line by line with the property that answers
each, or with what is still missing. In one sentence each:

* *sleep*: power is cut only on a node with nothing left on it (or past a shed's
  own deadline), that is ours, once; and a node that is held ends up down or
  in service.
* *wake*: power is cycled at most once per cooldown, on record, never under a
  person or a visit; a wake that fails is reported.
* *maintenance mode*: a request is served once, for good, and not on a machine
  that is going down.
* *visits*: a machine that may be writing its firmware is left alone; a node
  handed to a human is not visited; none stays powered and dark unexplained.
* *ceiling*: what draws power stays within a limit that binds, sheds go as far as
  the limit asks and no further, reach their deadline through outages, and spare
  whom a person put back -- and nobody else.
* *demand*: work is served, one machine is powered on per node's worth of demand,
  what is up is used before what is off, and an idle pool is powered off.
* *notifications*: power is cut on a silenced node only; a node that is up,
  crashed, or needs a human is heard.
* *status*: the object never goes back in time, keeps what others wrote, and shows
  the latest report in the end.

## 2. The modules

| module | models | proofs | TLC |
|---|---|---|---|
| `Sleep` | one node on its way down, call by call | `SleepProofs` | `MCSleep` |
| `Wake` | one node on its way up, call by call | `WakeProofs` | `MCWake` |
| `Maintenance` | one node an operator asks for | `MaintenanceProofs` | `MCMaintenance` |
| `Visit` | one node asleep, and looked after | `VisitProofs` | `MCVisit` |
| `Pool` | all the nodes under demand and a ceiling: one tick after another | `PoolProofs` | `MCPool` |
| `Sizing` | whole nodes for an amount of work, and headroom: operators of `Pool` | `SizingProofs` | `MCPool` |
| `Notify` | the silences of one node at Alertmanager | `NotifyProofs` | `MCNotify` |
| `StatusWriter` | the status ConfigMap and its writer thread | `StatusProofs` | `MCStatus` |
| `Board` | what a reader of that ConfigMap may rely on; `StatusWriter` implements it | `StatusProofs` | `MCStatus` |

The four node modules follow one scheme. `pc` is the position inside the tick:
`"between"` ticks, or at the next call. `Observe` takes the tick's reading into
`obs`; each later action is the code between two external calls, with the
outcome of its call chosen from `Outcomes`. The other actors (`Actors`, a
constant, so that a run can leave some out) are actions enabled at every `pc`.
A process restart forgets the controller's memory and goes back to
`"between"`. A few variables are history, read by properties only; they are
marked so where they are declared. `Pool` and `Notify` keep the whole of the tick
in progress in one record `t`, whose field `pc` plays that part.

**Time.** A timestamp `t` is represented by its age `now - t` in ticks, capped
one above the largest bound it is compared with, so every comparison in the
code comes out as it would, and the models are finite without a horizon. Time
passes between ticks: the code reads the clock once or a few times per tick and
all its bounds are many ticks long.

**Sleep.** `Observe` → `YieldToOperator` / `NothingDecided` / `DrainUncordoned`
/ `RescueDrain` (the guards of `_reconcile`, in the code's order) → the drain:
`WaitOnWork`, `DrainTimedOut`, `NothingBusy`, `ListIdle`, `NextUnit`,
`CheckUnit`, `ReleaseUnit`, `CheckResidual`, `Announce`, `NoteShutdown`,
`SoftOff` → on later ticks `ConfirmOff`. A tick with no operation may begin one
(`ChooseToSleep`, `CeilingSheds`, `CeilingTakesDrain`) or repair a stranded node
(`FinishWake`, `FinishSleep`). A unit of work is absent, idle, busy or leaving.
The ceiling appears by what it does to this node: shed it, keep or forget its
anchor, in any tick; `Pool` says which node and when. Outside the module: the
sustain and idle windows and `min_uptime` (they delay a sleep the model may
begin at once), the logging counters, mutes and alerts (`Notify`), `dry_run`.

**Wake.** `BeginWake` → on later ticks `ReadAgain` (the second, fresh reading)
→ `LeaveToOperator`, `ArriveWithoutRoom`, `CompleteWake`, `ConfirmPower`,
`NotPoweredOn` or the timeout: `TimedOutUndecided`, `TimedOutUnreadable`,
`TimedOutOff`, `TimedOutOn` → `Refuse` or `Allow` → `RecordCycle` →
`CyclePower`; `WarmUp` after arrival. The machine may be deaf to the power-on,
lock up, lose power or lose only its kubelet. Outside: the takeover of a visit
and `_check_dark` (both in `Visit`; here the note of an earlier visit is in the
initial states), what text a reason has, the life of the warm-up pod; `power.state` and `power.on` at
the beginning are one step.

**Visit.** A node under our cordon, powered on from time to time so that it
updates itself. `Observe` (the reading and what it says of trouble) →
`_check_dark()`: `NotChecked`, `CheckAgain` or `CheckDark` → the step of the
phase: `TakeOver` by demand, `VisitTimesOut`, `VisitUncordoned`, `VisitGoesOn`,
`WindowOver` → at most one beginning: `VisitPowersOn` or `VisitFindsPowered`
(`_maybe_maintain()`, last in the tick), `StartWake`, the stranded repair, a
sleep. A visit starts a machine that may then be dark because it is writing its
firmware, because it is wedged or because it is still booting, and the model
lets it be dark or up at any time. A wake and a sleep are here by what each of
their steps may come to, call outcomes included, with the one power cycle as
an action of its own (`CutPower`); `Wake` and `Sleep` have them in full. A person's
cordon and a person's request are one value of `cordon`, told apart where the
code does (`asked` in `Observe`). A visit may be due at any tick that decides
nothing else.

Three history variables carry its properties: `sinceOn`, how long ago a visit
powered the machine on; `known`, who can still know that (the note on the node,
this process, nobody); and `handed`, whether a human has been told. A visit
whose note failed to be written is forgotten by a restart, and one whose note
and power-on both went wrong is known to nobody: `known` says so, and the grace
is claimed only while somebody knows.

**Maintenance.** A node under our cordon; a request and the record that it was
taken up; `TidyUp` (`_maintenance_requests`), the stepping of the phase, and
`_take_up_maintenance` as `ReadPower`, `Record`, `PowerOn`, `Withdraw`.
`metalnap maintenance start` is two steps, `StartReads` and `StartPatches`; the
documented `kubectl annotate` commands, and a person at the power switch, are
actors. With several nodes the code powers one per tick; here the node may be
passed over at any tick while it is not up. Unless `"second"` is in `Actors`
nobody acts between the two steps of a command.

**StatusWriter.** The tick's `Publish`, the thread's `Take`, `Skip`, `Get`,
`Put`, `Finish`, and the API server. A resourceVersion is represented by what it
decides, whether the object is unchanged since it was read (`intact`). Of the
replaces whose client gave up, one may still land (`LateLands`). A write ends
within a tick of its clock reading (a 5 s client timeout, a 60 s tick). The
thread is started by the first report, and the start may fail (`Started`).

**Board** is the abstract object: `Show` puts a report there that is no older
than the one before, `OthersWrite` changes the other keys, `GrowOld` ages it.
`StatusWriter` implements it with the object itself as the refinement mapping
(`age <- shownAge`): the GET and the PUT, the replaces that land late and the
restarts all come to one of these three, or to nothing.

**Pool.** `BeginTick` (observe, read the ceiling, settle the anchors) → `Shed`,
if a limit binds → `ReadDemand` or `DemandUnknown` → one step of each operation
in flight, in list order, by the actions of `StepOf` → one decision: `RepairUp` or
`RepairDown` of a stranded node, `BeginWake` or `HoldWake`, `BeginSleep` or
`HoldSleep`, `DemandMet` → `BeginVisit` or `NoVisit`. The scheduler, ending jobs,
machines and a person who uncordons a draining node act between any two of
these. `Classify`, `Powered`, `Picks`, `Unshed`, `Surplus`, `Coming`, `Trailing`
and so on are the code's helpers of those names, over the phases as they stand
and the readiness the tick observed. An operation is here by what it comes to:
its failing calls, its retries and its own timeouts are in `Sleep`, `Wake` and
`Visit`. In particular

* a boot ends Ready and a shutdown ends off, in the end; a machine that is going
  down reads Ready until it is off, which is the longest the kubelet may go on;
  wakes do not fail, back off or warm up;
* a shutdown under way survives a restart, since the note on the node puts the
  phase back before anything reads it (`Sleep` has that note and its failures);
* a node's own windows -- idle, minimum uptime, backoff -- are the choice between
  `BeginSleep` and `HoldSleep`; a node that is idle and not wanted for ever is
  slept (`SF`), not at once;
* a node's work is read as it is. A `busy()` that fails counts as work in the code
  (1565-1573), so with checks that fail `want` may be higher, a sleep may be
  put off, and an idle node may be shed after one that works: `NoNeedlessMachine`
  and the order in `ShedIsMeasured` are about checks that answer;
* a job fits one node; what waits and what runs is counted in jobs and converted
  to resources by `JobSize`. Saturation and the fit check say what they like;
* no operator's cordons or requests, which are exempt and only make the pool
  smaller; `mode` is `on`.

**Sizing** has `_size()` as `NodesFor` and `_headroom()` as `HeadroomFloor`, over
any set of resources. The code divides; the model multiplies out, so a pool
exactly at the threshold counts as full, as the code's epsilon makes it. A reading
that raises, or is no finite amount, is None in the code and no floor in the model
(`Floor`, with `"headroom"` in `Actors`); `t.measured` says whether the tick had one.

**Notify.** `Observe` (the reading, and what it says of trouble) → `DarkStands`,
`DarkRaises` or `DarkTakesBack` (`_check_dark()` by its outcomes; `Visit` has its
conditions) → `Find` → `Create` and `Delete`, one call at a time, each of which
may fail → the tick's decision. `Announce` makes the same calls from within
`sleep()`, with `CutPower` only after the last of them. A configuration is the set
of keys (one per label, each with the matchers) a node is silenced by; a restart
may bring another one. A request that failed may arrive later, a silence may
end at any time, and two silences may have one key. Outside: our own alert,
which no silence of ours matches, and maintenance mode, which is as a cordon
that is theirs.

The abstraction is of data rather than of control: names, reasons and readings are
members of small sets, and the guards, early returns and error paths of the mapped
lines are actions or disjuncts, but for those this section, the comments and section
6 name as left out.

## 3. What is checked

The runs, on a laptop with two workers, take from ten seconds to four minutes.
Deadlock is checked in every one. Each module's `Inv` is its inductive
invariant, type correctness included.

| run | instance | shows |
|---|---|---|
| `sleep` | one unit, all outcomes, operator, ceiling, restarts, a machine that ignores requests; bounds 1 | `DrainedBeforeShutdown`, `NoSecondShutdown`, `ShutdownUndisturbed`, `SeenHoldRespected`, `Inv` |
| `sleep_live` | calls succeed; work that never ends, wedges, sheds, restarts | `HungDrainReturned`, `HeldNodeSettles` |
| `wake` | all outcomes, operator, ceiling, restarts, wedges; cooldown 3 ticks | `OneCyclePerCooldown`, `TakenNodeLeftAlone`, `Inv` |
| `wake_live` | a deaf machine, one that loses power, one cut off | `OutageIsReported`, `TroubleReachesNode` |
| `visit` | all outcomes, operator, restarts; visit bound 1 (its grace is two), window 1, wake timeout 0 (one tick exceeds it) | `VisitGraceHonoured`, `HandedIsNotVisited`, `PoweredIsExplained`, `Inv` |
| `maintenance` | all outcomes, restarts; bounds 2 | `NotTakenUpGoingDown`, `PersonsPowerOffStands`, `RequestSettles`, `Inv` |
| `pool` | two nodes of different size, two jobs, visits, restarts; readings 1 and none, hold 2, other bounds 1, headroom 60 % whose reading may fail, the fit check yes or no | `WithinBudget`, `UpFirst`, `ForcedWithinReading`, `ShedIsMeasured`, `HeadroomKept`, `Inv` |
| `pool_live` | two nodes, one job, a person who uncordons a drain; readings 0, none and failed, the demand signal fails | `NoNeedlessMachine`, `CeilingObeyed`, `FlapReachesDeadline`, `SparingEnds`, `WorkServed`, `IdlePoolSleeps` |
| `notify` | two configurations, one with a key the other lacks, two silences of a key; restarts, expiry, late requests, an operator | `CutIsAnnounced`, `ReplacedFirst`, `LoudInTheEnd`, `MutedInTheEnd`, `Inv` |
| `status` | two reports, two values of other keys, refresh 2, all outcomes, a thread that may not start | `BoardSpec`, `LatestIsShown`, `Inv` |
| `pool_spared`, `status_thread` | small instances | the two divergences of section 5 |

**The bounds, and why they are enough.** A bound of one tick is met exactly
(age 1), exceeded (age 2, the cap) and not reached (age 0), so both sides of
each `<`, `<=` and `>=` of the code occur, and bounds of equal length make every
order of two timeouts possible, since each is started by its own event. Where
the relation of two bounds matters they differ: the cycle cooldown is longer
than a wake timeout, so a whole second wake fits inside it; the status refresh
is two ticks, so a report can be skipped and then rewritten. One unit of work
suffices for the drain because units interact only through "is any left": the
loop treats each alone, and the proofs are for any set of units. One attempt
(`MaxAttempts = 1`) makes the attempt bound reachable within every retry loop.

Two nodes give the pool every relation its counts speak of -- one in each of two
lists, both in one, one gone while the other comes -- and list order; a reading
of 1 sheds one of two, a reading of 0 both. Two ticks of hold make the effective
limit differ from the reading in hand. Node 2 is larger than node 1, so that it
matters which one headroom takes for idle; a job takes most of one resource, half
of a second and asks for a third that no node reports, so sizing has a maximum
to take, a fraction to round and a resource to ignore. `pool_live` has a smaller
instance and readings that fail because its properties follow whole behaviours.
The safety theorems of section 4 hold for every value of all of these.

**Fairness, and why the code justifies it.** `run_forever()` ticks for ever and
catches every exception, so the controller's steps and the passing of time are
weakly fair. Calls that may fail are strongly fair in their success only where
the property needs it (an API server that answers infinitely often when asked
infinitely often), and nothing is assumed of what nobody controls: work need
not end, a boot need not get anywhere, a BMC need not power a machine on, a
kubelet only reports what is so. In `Pool` the tick is weakly fair as one action,
so which operation or decision comes next is the code's; the scheduler places a
job it can place, machines finish what they were told, and a node that stays
idle and unwanted runs out of its windows (`SF` of `BeginSleep`). Jobs need not
end, except where a property says they do, and a ceiling or a demand signal may
fail for ever. In `Notify` the calls to Alertmanager are strongly fair, since
every tick makes them again, and nothing else is: silences may expire, machines
crash and people act as they like. In `maintenance` the BMC may fail every
power-on; the request settles because the retries are bounded. In `visit` the
steps that give up on an operation whose bound is over are strongly fair: the
demand signal and the API server, asked at every tick, answer in the end, and a
controller that never could read demand rightly advances no visit. A process
restarted for ever inside each of its bounds may never reach a verdict; the
liveness properties that exclude this say so in their disjunct
`[]<><<Restart>>_vars` or the premise `ProcessLives`, and `HungDrainReturned` does
not need it because the drain's clock is on the node. The premises of `Pool`'s
liveness are named: `NobodyMeddles`, `DemandReadable`, `NobodySpared`,
`Unlimited`; section 5 says why a ceiling is claimed to be obeyed only when
nobody is spared.

Each property of a passing run has a mutant in `PROJECT.json`: a definition of
the model replaced by a plausible bug (a guard dropped, a clock reset, a note
written on the wrong side of its call), kept in the module next to the
definition it spoils under a name like `NothingLeft_TeardownIgnored`, which
makes TLC refute that property.

## 4. What is proved

All proofs are checked by TLAPS for every value of the constants that the named
assumptions of the modules allow (bounds are natural numbers, `Never` is not
one, outcomes include success). In each module an invariant `Inv` is shown
inductive, and the properties are read off it.

* `SleepProofs`. Type correctness; then `TickInv`, the invariant of a tick. The
  safety properties are about the moment before a call, several steps after the
  observation they depend on, so none of them is inductive. `TickInv` carries
  the observation along: until a person acts (`meddled`) the node is as it was
  seen; a drain this deep is ours and unasked-for; in its last steps nothing is
  left or force is due; a checked unit is idle or was raced. From it:
  `ShutdownIsDrained`, `ShutdownIsHeld`, `ForceIsLate`, `ReleaseIsChecked`,
  `HoldIsRespected`, `ClocksRunOn`, `ShedIsSeenThrough`. `ShutdownFollowed`,
  `NoteNoOlder` and `SeenNotReady` add the history of a shutdown across ticks. A
  request that took effect is on record once its note is (`asked`), whether or not
  its reply arrived; `unheard` says that the reply was lost and that no process has
  found the note since. Any other machine asked to go is followed, in memory or by
  the note on its node, until its bound is over: hence `ShutdownIsAskedOnce` and
  `ShutdownIsLeftAlone`, which make the one exception `unheard`. That exception is
  what the code does (section 5); without it both properties fail.
* `WakeProofs`. Type correctness; `WakeInv` says what a reading is still good
  for: the record is as it was read unless an operator deleted it, only a
  readable node past the bound gets to the cycle, and a cycle that happened is
  on record. From it `CyclesAreRecorded`, `CyclesAreApart` (two power cycles are
  a cooldown apart through any restarts and failures), `WorkIsSpared`,
  `TakenIsLeftAlone`.
* `MaintenanceProofs`. `ServedIsOnRecord` (a served request is on record, and a
  tick that did not see the record did not see a served request) and
  `ShutdownIsFollowed` (a shutdown of ours on record is the node's phase, or
  about to be again, or over) are inductive. From them `ScrewdriverRule` -- a
  machine a person switched off is not powered on under them -- assuming no
  second person acts inside a command, and `TakenUpForGood` without it.
* `VisitProofs`. Type correctness; `VisitInv`, which has three parts. A visit
  that powered its machine on is accounted for by whoever is said to know of it:
  a note no older than the power-on, or in memory the visit itself or a
  `dark_after_visit` no older than it. A wake that counts as a cold boot of its
  own is not of a machine a visit started -- this is what the takeover's
  forgetting of an earlier wake's flags is for. And trouble is known in memory or
  on the node to the tick that would visit. From it `UpdateIsSpared`, power is
  not cut inside the grace of a visit, and `HandedIsLeft`, no node is powered on
  under the human it was handed to.
* `SizingProofs`, about the operators of `Sizing` alone, for any amounts,
  capacities and nodes. `NodesForIsLeast`: the number of nodes is enough for every
  resource it is sized on, and the least that is. `NoOpinionLeavesRoom`: when the
  headroom floor has no opinion, any idle node may go and the others are below the
  threshold. `SleepIsNotRegretted`: and the floor of what is left then asks for no
  node more, while no more is requested. They rest on sums over a finite set
  (`TotalUnfold`, `TotalTyped`, `TotalRemove`, `TotalCounts`). The library's
  induction theorems take the formula as an operator, which these provers cannot
  instantiate; `SetInduction` is induction on a *set* of naturals, from their least
  element, and each of those lemmas is an instance of it over the cardinality of
  the set a sum is taken of.
* `PoolProofs`, for any number of nodes. The inductive invariant has two halves.
  *What is so of the machines.* `Accounted`: each phase is about a machine in the
  state the phase was begun for. `Observed`: what the tick saw Ready and is not on
  its way down is still up. `Followed`: the operations a tick steps through are
  all there are. `Held`: a visit is of a node we hold, or of one that came up
  since. With these the counts the code makes from phases and an old reading are
  counts of machines, and two theorems follow by comparing finite sets:
  `PoolWithinBudget`, that no power-on for demand or for a visit takes the machines
  drawing power over a limit that binds, and `PoolForcedWithinReading`, that work
  is ended only while more machines are up and staying than the reading in hand
  allows.
  *What the tick concluded, several steps before it acts on it.* `Limited`: it
  sheds, and wants no more than the limit, where a limit binds. `Counted`: nobody
  who was Ready is forgotten; whoever had its turn in unmet demand joined or is
  going down. `Roomy`: where headroom was read, a pool at the threshold is wanted
  one node larger, and a tick in which none joined and which wants fewer nodes than
  are awake can spare each idle one. `Demanded`: more than are awake are wanted only
  for as many jobs.
  `Expected`: a machine without our cordon is up or known to be coming. None of
  these is a property anybody promised; each is what one of the following needs
  at the moment of the decision.
    * `PoolUpFirst`, from `Counted`: no machine is powered on while one that was
      up is left out of service.
    * `PoolHeadroomKept`, from `Roomy` and `NoOpinionLeavesRoom`: in a tick that read
      headroom, an ordinary sleep leaves the rest below the threshold or, a node
      having joined since, as many nodes as were looked at, and one more if those
      were at the threshold. Section 5 says why no more can be said of such a tick,
      and of one whose reading failed. In the run's instance the rest is below the
      threshold in joining ticks too; that the second case is the code's, for more
      nodes, is the theorem's.
    * `PoolNoNeedlessMachine`, from `Demanded` and `Expected`: machines without our
      cordon, or coming, are never more than the jobs there may be. Two hypotheses
      on the constants: `OneToANode` (demand is jobs: no headroom, no saturated
      units, and a job fits a node) and `BootsRemembered` (not both an operator who
      uncordons drains and restarts: a process restarted while a node boots that
      an operator had uncordoned before its shutdown finds nothing that says it is
      coming, and orders another).
    * `PoolShedIsMeasured`: a shed is exact. It leaves as many as the ceiling allows;
      more only where each of those is spared; fewer only where it takes nobody; and work goes last. The argument is about `FirstBy`: `GoesBefore` is
      a strict order of the nodes (`ShedOrder`) in which any of them have a first
      and a last (`FirstToGo`, `LastToGo`); so the first k are k or all
      (`FirstAreFew`, `FirstAreMany`, `FirstAreAll`), and whoever goes before one
      of them is one of them (`FirstComeFirst`).
* `NotifyProofs`, for any configurations. `Replacing`: during the calls each wanted
  key is still to be made, or covered by a silence that stays, or was covered
  when the tick looked and ended since. From it `NotifyCutIsAnnounced` and
  `NotifyReplacedFirst`.
* `StatusProofs`. `WriterInv`: a replace that would still be accepted is
  current; what is believed written is there until a reply is lost; the newest
  report is on its way. From it `IdleIsCaughtUp`, and `WriterImplementsBoard`: the
  initial states map to the board's, and every step of the writer, of the API
  server and of everybody else to a step of the board or to none.

Every safety and every action property a passing run checks is so proved. Only
model-checked are the liveness properties (`HungDrainReturned`, `HeldNodeSettles`,
`OutageIsReported`, `TroubleReachesNode`, `PoweredIsExplained`, `LatestIsShown`,
`RequestSettles`, `LoudInTheEnd`, `MutedInTheEnd`, and those of `pool_live` but
`NoNeedlessMachine`): they need fairness and ENABLED, which are out of the
prover's reach.

## 5. Where the code and its documentation disagree

Two runs are expected to end in a counterexample; `PROJECT.json` quotes the
lines.

* `pool_spared`: a shed writes its anchor on the node before the cordon, so that a
  failure in between "is cleared, and the shed begins again"
  (`controller.py:2064`). The next tick takes the uncordoned node with its anchor
  for one a person put back, and leaves it alone for a whole `sleep_cooldown_s`.
* `status_thread`: "a failure is logged once per change and the next tick tries
  again" (`controller.py:2173`). `publish()` stores the thread before it starts it
  (`status.py:62`); one that fails to start is never started again, and the tick
  after it reports that all is well.

Observed while modelling, without a run that shows it:

* "whichever idle node it does pick was one whose absence the test already allowed"
  (`controller.py:1455`): the headroom floor is `len(awake)` as it was before the
  operations in flight are stepped (2467). A wake that arrives in the same tick
  appends its node to `awake` (2646), so the decision (2774) compares that floor
  with one node more, and takes a hold for a pool with a node too many. Three
  nodes of 3, 5 and 2 units at a threshold of 40 % suffice: the node of 5 is put
  to sleep in the tick the node of 2 joins, and the rest of the pool, newcomer
  included, is over the threshold. Hence the second case of `HeadroomKept`: of such a
  tick only the number of nodes is kept.
* A headroom reading that fails is no floor for its tick (1522, 2516): one that fails
  over a whole sleep window lets a node go that the floor would have held. The
  documentation says as much ("decides as if headroom were not configured",
  `README.md:237`), under the heading "It fails toward no change". `HeadroomKept` is
  therefore about ticks that read it (`t.measured`).
* "a second soft-off into a shutdown in progress" (`controller.py:870`) is what the
  phase `powering_off` is there to prevent, and the note written before the request
  covers a restart (845). A soft-off that was done with its reply lost raises at
  849, before that phase is set, and no tick reads the note while the phase is
  "sleeping" (2332). So the next tick asks a second time or, if demand is back
  (2630), returns to service a machine that is going down. A restart, or a drain let
  go of with its cordon in place, does find the note and follows the shutdown.
  `NoSecondShutdown` and `ShutdownUndisturbed` except the first case by `unheard`.
* A visit begun at the end of a tick for a node that became Ready and joined in
  that tick is released by the next one (1102, `VisitIsUndone`); and when demand
  takes over a visit of a node in service (2607), that node is in `awake` twice,
  which delays one wake by a tick.
* "enforce that where operations finish" (`controller.py:9`): `sleep()` sends the
  soft-off (849) on the reading its tick began with, where `wake()` reads again;
  an operator's cordon or request placed since does not stop it.
* A sleep begun on a stale reading (701) puts the controller's mark on an operator's
  cordon, which then reads as its own; 2405 says such a cordon is an operator's.
* "refuse to re-enter a sleep for a while" (643): an abandoned sleep whose uncordon
  fails (657) is begun again by the stranded repair (2691), which does not look
  at the backoff.
* "a shutdown already requested ... is seen through" (`README.md:378`): likewise a soft-off
  that was done with its reply lost leaves no settling shutdown; a request made
  then is recorded as served on the dying Ready condition (1327), and the machine
  goes dark on record.
* "unless it is what is already there" (`status.py:94`): after a replace whose
  reply was lost, `_written` names the report before it, and that report is
  skipped (107) as already there, until the refresh.
* "for `SLEEP_COOLDOWN_S`" (`README.md:629`): if a person uncordons a draining node
  and the demand signal is down, the loop skips the node (2575) and it keeps its
  phase; each tick then takes it for put back once more (1887) and renews its
  sparing, for as long as the signal is down. So `SparingEnds` assumes demand is
  read in the end, and `CeilingObeyed` that nobody is spared.
* A silence is made for `hours` and is never extended: one that ends while its node
  sleeps is made again by the next tick, with the node's alerts let through in
  between (`alertmanager.py:165`). So `MutedInTheEnd` assumes silences that last.
* A drain whose soft-off keeps failing is silenced by each announcement and
  unsilenced by the next tick's reconcile, in turn, until the drain succeeds or
  is given up; so `LoudInTheEnd` is about nodes that are not draining.

And smaller ones: `booting` is not cleared when an
operator's cordon ends a wake (`controller.py:2547`), so a later takeover of a
visit counts as capacity on its way; an operator who uncordons and cordons a
node between two ticks leaves our mark on it, and it reads as ours; a drain
blocked by a listing or an announcement that fails every time is not under the
drain timeout; the takeover of a visit (2607), the rescue of a drain (2635) and the
end of a visit (1169) write the cordon on the tick's reading, as sleep() does; a
wake's or a visit's power-on that was done with its reply lost leaves `off` set
(lines 332 and 1062 clear it only after the call), so that `_check_dark()` takes the
machine for off, and it stays muted if it wedges, until the next visit or demand
(`PoweredIsExplained` is about a node not believed off, and says `~off`); the
release of a visit to an operator's cordon (2547) does not note `dark_after_visit`,
as the other two ways out of a dark visit do; a maintenance record whose reply was lost strands its request,
although the log says "retrying next tick" (`controller.py:1345`); with a second
person at a terminal, the read and the patch of `maintenance start` are not
atomic and can clear a record written in between (`cli.py:365`).

## 6. Not modelled, and why

* Parsing of quantities, tolerations, pods, `ipmitool` output; pagination; the
  wording of logs and alerts: pure functions of one reading, covered by unit
  tests; the models take their results from small sets.
* `config.py`, `__main__.py`: their results are the CONSTANTS.
* The Helm chart and the examples: no run-time behaviour.
* `mode = off` and `dry_run`: the same control flow without its effects.
* `metrics.py`: the counters are a snapshot of the tick; the connection slots are
  taken and given back by three adjacent lines and share no state with the
  controller.
* `alert()` and `clear_alert()`: one POST each, made again every tick, with a time
  to live; nothing waits for them.
* The abstract node -- in service, held, off, a person's -- that the four node
  modules would refine: each module already states its promises about one node
  directly, and their histories (`sinceOn`, `tookUp`, a shutdown's age) are what
  the promises are about; an abstract node without them would promise less.

## 7. Plan

What would come next, in this order.

1. An operator in `Pool`: exempt nodes and requests, with the pool the ceiling
   counts changing under it; and wakes that fail and are tried elsewhere, so that
   `WorkServed` covers a broken machine.
2. A run of `pool` with three nodes and one job, for the order among equals.
3. The connection slots of the metrics listener.
