------------------------------ MODULE Notify ------------------------------
(***************************************************************************)
(* What Alertmanager is told of one node: metalnap/notify/alertmanager.py, *)
(* with the part of metalnap/controller.py that calls it -- the reconcile  *)
(* at the head of every tick and the announcement before power is cut.     *)
(*                                                                         *)
(* A silence matches one list of matchers, its key; the configuration is   *)
(* the set of keys a node is silenced by, and may be another one after a   *)
(* restart.  Each call to Alertmanager is a step: the node, people,        *)
(* expiry and requests that arrive late come between any two of them.      *)
(*                                                                         *)
(* Our own alert, which no silence of ours matches, is not here.  Of the   *)
(* operations only what they do to the node's phase, cordon and trouble    *)
(* is, and when they do it is left open; Sleep, Wake and Visit say when.   *)
(***************************************************************************)
EXTENDS Integers, FiniteSets

CONSTANTS
  Configs,   \* the configurations, each the set of keys it wants
  Copies,    \* bound: silences of one key at one time
  None,      \* no request of ours is still on its way
  Actors     \* what else happens: see Actor

\* Everything a run may switch on: a person takes the node, the process is
\* restarted, silences end, a request arrives after it was given up.
Actor == {"operator", "restart", "expiry", "late"}

ASSUME ConfigAssumption == Configs # {} /\ \A c \in Configs : c # {} /\ None \notin c
ASSUME ActorAssumption == Actors \subseteq Actor
ASSUME BoundAssumption == Copies \in Nat \ {0}

Key     == UNION Configs
Silence == Key \X (1 .. Copies)

\* "power" is trouble a power reading raised, and a later one takes back.
Trouble == {"no", "power", "human"}
Phase   == {"none", "sleeping", "powering_off", "waking"}

\* How a call ends.  "lost": the other side did it, and the call failed.
Outcome == {"done", "failed", "lost"}

VARIABLES
  ready, cord,     \* the kubelet; the cordon: none, ours, theirs
  note,            \* the trouble on the node
  phase, trouble,  \* the controller's memory of it
  wanted,          \* the configuration
  sil,             \* the active silences of this node
  late,            \* the key of a silence still on its way, or None
  t                \* the tick in progress

nodeVars == <<ready, cord, note>>
memVars  == <<phase, trouble>>
amVars   == <<sil, late>>
vars == <<nodeVars, memVars, wanted, amVars, t>>

NoTick == [pc |-> "between", why |-> "reconcile", ready |-> FALSE,
           cord |-> "none", note |-> "no",
           missing |-> {}, stale |-> {}, lapsed |-> {}]

KeyOf(s)   == s[1]
Covered(k) == \E s \in sil : KeyOf(s) = k

-----------------------------------------------------------------------------
\* What the tick concludes from its observation.

\* Mutant: the trouble a restart left on the node is not read.
Known_Memory == trouble

\* The trouble of the node, remembered or noted on it.
Known == IF trouble # "no" THEN trouble ELSE t.note

\* _asleep() and not _dark_trouble(): put down by us, and accounted for.  A node
\* in maintenance mode is as one that is theirs.
WantDown(rd, cd, ph, tr) ==
  /\ cd = "ours" /\ tr = "no"
  /\ IF rd THEN ph = "powering_off" ELSE ph # "sleeping"

\* The calls under way are going_down(), not back_up().
Muting == t.why = "announce" \/ WantDown(t.ready, t.cord, phase, Known)

\* Ready, or in a person's hands: the trouble is over.
Recovers(rd, cd) == rd \/ cd = "theirs"

-----------------------------------------------------------------------------
\* The reconcile, up to the calls.

Observe ==
  /\ t.pc = "between"
  /\ IF Recovers(ready, cord)
     THEN trouble' = "no" /\ note' = "no"
     ELSE UNCHANGED trouble /\ note' = IF trouble = "no" THEN note ELSE trouble
  /\ t' = [NoTick EXCEPT
             !.pc = IF ~ready /\ cord = "ours" THEN "dark" ELSE "find",
             !.ready = ready, !.cord = cord,
             !.note = IF Recovers(ready, cord) THEN "no" ELSE note]
  /\ UNCHANGED <<ready, cord, phase, wanted, sil, late>>

\* _check_dark(): an operation accounts for the node, it is known to be off, it
\* is given time still, its power cannot be read, or a human has been asked.
DarkStands ==
  /\ t.pc = "dark"
  /\ t' = [t EXCEPT !.pc = "find"]
  /\ UNCHANGED <<nodeVars, memVars, wanted, amVars>>

\* Its time is up, and it is powered or cannot be read.
DarkRaises ==
  /\ t.pc = "dark" /\ phase = "none" /\ Known = "no"
  /\ trouble' = "power" /\ note' = "power"
  /\ t' = [t EXCEPT !.pc = "find"]
  /\ UNCHANGED <<ready, cord, phase, wanted, amVars>>

\* It reads off after all.
DarkTakesBack ==
  /\ t.pc = "dark" /\ phase = "none" /\ Known = "power"
  /\ trouble' = "no"
  /\ note' = IF t.note = "no" THEN note ELSE "no"
  /\ t' = [t EXCEPT !.pc = "find", !.note = "no"]
  /\ UNCHANGED <<ready, cord, phase, wanted, amVars>>

-----------------------------------------------------------------------------
\* going_down() and back_up(), call by call.

\* Mutant: what could not be announced is put down all the same.
Raises_Cut ==
  t' = [t EXCEPT !.pc = IF t.why = "announce" THEN "cut" ELSE "decide",
                 !.missing = {}, !.stale = {}, !.lapsed = {}]

\* A call failed: the rest is left to the next tick, and the power alone.
Raises ==
  t' = IF t.why = "announce" THEN NoTick
       ELSE [t EXCEPT !.pc = "decide", !.note = "no",
                      !.missing = {}, !.stale = {}, !.lapsed = {}]

\* Mutant: a node that has a silence has all of them.
Missing_IfNone(found) == IF found = {} THEN wanted ELSE {}

Missing(found) == wanted \ {KeyOf(s) : s \in found}

\* `kept`: one silence of each key that is wanted and found.  The others are
\* another configuration's, or a second one of their key.
Keeps(found, kept) ==
  /\ \A s \in kept : KeyOf(s) \in wanted
  /\ \A s \in found : KeyOf(s) \in wanted =>
       \E r \in kept : KeyOf(r) = KeyOf(s)
  /\ \A r, s \in kept : KeyOf(r) = KeyOf(s) => r = s

Find ==
  /\ t.pc = "find"
  /\ \E kept \in SUBSET sil :
       /\ IF Muting THEN Keeps(sil, kept) ELSE kept = {}
       /\ t' = [t EXCEPT !.pc = "calls", !.stale = sil \ kept, !.lapsed = {},
                         !.missing = IF Muting THEN Missing(sil) ELSE {}]
  /\ UNCHANGED <<nodeVars, memVars, wanted, amVars>>

FindFails ==
  /\ t.pc = "find" /\ Raises
  /\ UNCHANGED <<nodeVars, memVars, wanted, amVars>>

\* One more silence of the key k, with an id of its own.
AddSilence(k) ==
  LET taken == sil \cup t.stale
  IN \E c \in 1 .. Copies :
       /\ <<k, c>> \notin taken /\ \A b \in 1 .. c - 1 : <<k, b>> \in taken
       /\ sil' = sil \cup {<<k, c>>}

\* POST /api/v2/silences.
Create(k) ==
  /\ t.pc = "calls" /\ k \in t.missing
  /\ AddSilence(k)
  /\ t' = [t EXCEPT !.missing = @ \ {k}]
  /\ UNCHANGED <<nodeVars, memVars, wanted, late>>

\* It fails, or times out on its way and is acted on later.
CreateFails(k) ==
  /\ t.pc = "calls" /\ k \in t.missing
  /\ UNCHANGED late \/ ("late" \in Actors /\ late = None /\ late' = k)
  /\ Raises
  /\ UNCHANGED <<nodeVars, memVars, wanted, sil>>

\* Mutant: the stale ones go first.
MayDelete_First == TRUE

\* Create before deleting.
MayDelete == t.missing = {}

\* DELETE /api/v2/silence/{id}.
Delete(s) ==
  /\ t.pc = "calls" /\ MayDelete /\ s \in t.stale
  /\ sil' = sil \ {s}
  /\ t' = [t EXCEPT !.stale = @ \ {s}]
  /\ UNCHANGED <<nodeVars, memVars, wanted, late>>

DeleteFails(s) ==
  /\ t.pc = "calls" /\ MayDelete /\ s \in t.stale
  /\ sil' \in {sil, sil \ {s}}
  /\ Raises
  /\ UNCHANGED <<nodeVars, memVars, wanted, late>>

CallsOver ==
  /\ t.pc = "calls" /\ t.missing = {} /\ t.stale = {}
  /\ t' = IF t.why = "announce" THEN [t EXCEPT !.pc = "cut"]
          ELSE [t EXCEPT !.pc = "decide", !.note = "no", !.lapsed = {}]
  /\ UNCHANGED <<nodeVars, memVars, wanted, amVars>>

-----------------------------------------------------------------------------
\* What the tick does to the node, on what it saw.

TickEnds == t' = NoTick /\ UNCHANGED <<ready, wanted, amVars>>
Deciding == t.pc = "decide"

NothingDecided ==
  /\ Deciding /\ TickEnds
  /\ UNCHANGED <<cord, note, memVars>>

YieldToOperator ==
  /\ Deciding /\ t.cord = "theirs" /\ phase # "none"
  /\ phase' = "none"
  /\ TickEnds /\ UNCHANGED <<cord, note, trouble>>

\* From service, or from a shutdown that was ignored.
BeginSleep ==
  /\ Deciding /\ phase = "none" /\ t.ready /\ t.cord # "theirs"
  /\ phase' = "sleeping" /\ cord' = "ours"
  /\ TickEnds /\ UNCHANGED <<note, trouble>>

\* Wanted again, worked on for too long, or finished after a wake.
ReturnToService ==
  /\ Deciding /\ t.cord # "theirs" /\ phase \in {"sleeping", "none"} /\ t.ready
  /\ phase' = "none" /\ cord' = "none"
  /\ TickEnds /\ UNCHANGED <<note, trouble>>

\* The drain is over.
Announce ==
  /\ Deciding /\ phase = "sleeping" /\ t.cord = "ours"
  /\ t' = [t EXCEPT !.pc = "find", !.why = "announce"]
  /\ UNCHANGED <<nodeVars, memVars, wanted, amVars>>

\* soft_off(): an exception leaves the phase as it was.
CutPower(o) ==
  /\ t.pc = "cut"
  /\ phase' = IF o = "done" THEN "powering_off" ELSE phase
  /\ TickEnds /\ UNCHANGED <<cord, note, trouble>>

\* confirm_off(): it is off, or nobody can say.
ShutdownOver ==
  /\ Deciding /\ phase = "powering_off"
  /\ phase' = "none"
  /\ TickEnds /\ UNCHANGED <<cord, note, trouble>>

\* It is neither off nor Ready when its time is up.  (One that is Ready still
\* goes on as if nothing had been asked: it is alerted on, not unmuted.)
ShutdownWedged ==
  /\ Deciding /\ phase = "powering_off" /\ ~t.ready
  /\ phase' = "none" /\ trouble' = "power" /\ note' = "power"
  /\ TickEnds /\ UNCHANGED cord

BeginWake ==
  /\ Deciding /\ phase = "none" /\ ~t.ready /\ t.cord = "ours"
  /\ phase' = "waking"
  /\ TickEnds /\ UNCHANGED <<cord, note, trouble>>

WakeArrives ==
  /\ Deciding /\ phase = "waking" /\ t.ready /\ t.cord # "theirs"
  /\ phase' = "none" /\ cord' = "none"
  /\ TickEnds /\ UNCHANGED <<note, trouble>>

\* _give_up_wake(), with an alert or, to try other nodes first, without.
WakeGivesUp(asks) ==
  /\ Deciding /\ phase = "waking" /\ ~t.ready
  /\ phase' = "none"
  /\ IF asks THEN trouble' = "human" /\ note' = "human" ELSE UNCHANGED <<trouble, note>>
  /\ TickEnds /\ UNCHANGED cord

-----------------------------------------------------------------------------
\* Everybody else.

Untouched == UNCHANGED <<memVars, wanted, amVars, t>>

\* The machine starts, stops or crashes, and the kubelet with it.
KubeletReports == ready' = ~ready /\ UNCHANGED <<cord, note>> /\ Untouched

OperatorTakes ==
  /\ "operator" \in Actors /\ cord' = "theirs"
  /\ UNCHANGED <<ready, note>> /\ Untouched

OperatorReturns ==
  /\ cord = "theirs" /\ cord' = "none"
  /\ UNCHANGED <<ready, note>> /\ Untouched

\* A new process, perhaps with another configuration.  A shutdown is on record
\* and is taken up again.
Restart ==
  /\ "restart" \in Actors
  /\ phase' = IF phase = "powering_off" THEN phase ELSE "none"
  /\ trouble' = "no"
  /\ wanted' \in Configs
  /\ t' = NoTick
  /\ UNCHANGED <<nodeVars, amVars>>

\* `endsAt`, or a person.
Expires(s) ==
  /\ "expiry" \in Actors /\ s \in sil
  /\ sil' = sil \ {s}
  /\ t' = [t EXCEPT !.lapsed = IF t.pc \in {"calls", "cut"} /\ Muting
                                THEN @ \cup ({KeyOf(s)} \cap wanted) ELSE @]
  /\ UNCHANGED <<nodeVars, memVars, wanted, late>>

ArrivesLate ==
  /\ late # None
  /\ AddSilence(late)
  /\ late' = None
  /\ UNCHANGED <<nodeVars, memVars, wanted, t>>

-----------------------------------------------------------------------------
Init ==
  /\ ready = TRUE /\ cord = "none" /\ note = "no"
  /\ phase = "none" /\ trouble = "no"
  /\ wanted \in Configs
  /\ sil = {} /\ late = None /\ t = NoTick

Reconcile ==
  \/ Observe \/ DarkStands \/ DarkRaises \/ DarkTakesBack
  \/ Find \/ FindFails \/ CallsOver
  \/ \E k \in Key : Create(k) \/ CreateFails(k)
  \/ \E s \in Silence : Delete(s) \/ DeleteFails(s)

Decide ==
  \/ NothingDecided \/ YieldToOperator \/ BeginSleep \/ ReturnToService \/ Announce
  \/ \E o \in Outcome : CutPower(o)
  \/ ShutdownOver \/ ShutdownWedged
  \/ BeginWake \/ WakeArrives \/ \E asks \in BOOLEAN : WakeGivesUp(asks)

Environment ==
  \/ KubeletReports \/ OperatorTakes \/ OperatorReturns \/ Restart \/ ArrivesLate
  \/ \E s \in Silence : Expires(s)

Next == Reconcile \/ Decide \/ Environment

Spec == Init /\ [][Next]_vars

\* The loop ticks, and Alertmanager does not refuse the same call for ever.
Fairness ==
  /\ WF_vars(Reconcile \/ Decide)
  /\ SF_vars(Find)
  /\ SF_vars(\E k \in Key : Create(k)) /\ SF_vars(\E s \in Silence : Delete(s))

FairSpec == Spec /\ Fairness

-----------------------------------------------------------------------------
TypeOK ==
  /\ cord \in {"none", "ours", "theirs"} /\ note \in Trouble
  /\ phase \in Phase /\ trouble \in Trouble
  /\ wanted \in Configs /\ sil \subseteq Silence /\ late \in Key \cup {None}
  /\ DOMAIN t = DOMAIN NoTick
  /\ t.pc \in {"between", "dark", "find", "calls", "decide", "cut"}
  /\ t.why \in {"reconcile", "announce"}
  /\ t.missing \subseteq wanted /\ t.stale \subseteq Silence

\* Every key is still to be silenced, is by a silence that is not about to be
\* deleted, or was when the tick looked.
Replacing ==
  t.pc \in {"calls", "cut"} /\ Muting =>
    \A k \in wanted : \/ k \in t.missing \cup t.lapsed
                      \/ \E s \in sil \ t.stale : KeyOf(s) = k

\* Power is next only when nothing is left to call.
Announced == t.pc = "cut" => t.why = "announce" /\ t.missing = {} /\ t.stale = {}

\* The inductive invariant.
Inv == TypeOK /\ Replacing /\ Announced

\* Power is never cut before every alert a sleep trips is silenced, whatever
\* call failed on the way: each key is, or was and ended since.
CutIsAnnounced ==
  [][phase = "sleeping" /\ phase' = "powering_off" =>
       \A k \in wanted : Covered(k) \/ k \in t.lapsed]_vars

\* No silence of a node that is down or going down is deleted -- one of an
\* earlier configuration, a second one -- until every one that is wanted is
\* there: a failure part-way leaves the node silenced too much, never too
\* little.
ReplacedFirst ==
  [][Muting /\ (\E s \in Silence : Delete(s) \/ DeleteFails(s)) =>
       \A k \in wanted : Covered(k)' \/ k \in t.lapsed]_vars

ProcessLives == <>[][~Restart]_vars

Meant == WantDown(ready, cord, phase, IF trouble # "no" THEN trouble ELSE note)

\* A node that is not meant to be down -- in service, crashed, a person's, or
\* one metalnap gave up on -- ends with no silence over it: not one of another
\* configuration, nor one whose request arrived late.  (A drain whose power-off
\* keeps failing is silenced and unsilenced in turn.)
LoudInTheEnd ==
  ProcessLives /\ <>[](~Meant /\ phase # "sleeping") => <>[](sil = {})

\* A node that stays down is silenced by every key in the end, once its
\* silences last.
MutedInTheEnd ==
  /\ ProcessLives /\ <>[]Meant
  /\ <>[][~ \E s \in Silence : Expires(s)]_vars
  => <>[](\A k \in wanted : Covered(k))

=============================================================================
