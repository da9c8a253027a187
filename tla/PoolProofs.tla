----------------------------- MODULE PoolProofs -----------------------------
(***************************************************************************)
(* Proofs about Pool, for any number of nodes and jobs, every window,      *)
(* deadline and capacity, and all actors.                                  *)
(*                                                                         *)
(* The counts the gates compare are taken from the phases as they stand    *)
(* and the readiness the tick observed.  Base says that these speak of the *)
(* machines as they are: then what Classify counts contains what draws     *)
(* power, and the two count properties follow from the gates.  The rest of *)
(* the invariant is about what a tick concluded: that it is still so when  *)
(* the tick acts on it is what the other four properties follow from.      *)
(***************************************************************************)
EXTENDS Pool, SizingProofs

\* The part of the invariant that is about one node at a time.
Base == TypeOK /\ Accounted /\ Observed /\ Followed

USE SizeAssumption, NoneAssumption, WindowAssumption, ReadingAssumption

\* The nodes are finitely many, and so is every set of them.
LEMMA NodesAreFinite ==
  /\ IsFiniteSet(Node) /\ Cardinality(Node) = N
  /\ \A S \in SUBSET Node : IsFiniteSet(S) /\ Cardinality(S) \in Nat
<1>1. IsFiniteSet(Node) /\ Cardinality(Node) = N
  BY FS_Interval DEF Node
<1> QED
  BY <1>1, FS_Subset, FS_CardinalityType

\* Headroom was read or was not.
LEMMA MeasuredOrNot == \A k \in Measured : k \in BOOLEAN
  BY DEF Measured

\* Between ticks nothing is known of the nodes.
LEMMA BetweenTicks ==
  /\ NoTick.pc = "between" /\ NoTick.limit = None /\ NoTick.cur = None
  /\ NoTick.ready = {} /\ NoTick.ours = {} /\ NoTick.awake = {}
  /\ NoTick.todo = {} /\ NoTick.flight = {} /\ NoTick.begun = {}
  /\ NoTick.want = 0 /\ NoTick.wantUnguarded = 0 /\ NoTick.asked = {}
  BY DEF NoTick

-----------------------------------------------------------------------------
\* What the steps of a tick do to what it concluded.  An operation in flight has
\* had its turn, and is in service or not.
LEMMA TurnEffect ==
  ASSUME TickTyped, NEW n \in Node, t' = Done(n) \/ t' = Joins(n)
  PROVE  /\ DOMAIN t' = DOMAIN t /\ t'.pc = t.pc /\ t'.ready = t.ready
         /\ t'.ours = t.ours /\ t'.flight = t.flight /\ t'.limit = t.limit
         /\ t'.cur = t.cur /\ t'.begun = t.begun /\ t'.asked = t.asked
         /\ t'.want = t.want /\ t'.wantUnguarded = t.wantUnguarded
         /\ t'.known = t.known /\ t'.inUse = t.inUse /\ t'.measured = t.measured
         /\ t'.todo = t.todo \ {n}
         /\ t' = Done(n) => t'.awake = t.awake /\ t'.joined = t.joined
         /\ t' = Joins(n) => t'.awake = t.awake \cup {n} /\ t'.joined = TRUE
         /\ \/ t'.awake = t.awake /\ t'.joined = t.joined
            \/ t'.awake = t.awake \cup {n} /\ t'.joined = TRUE
<1>1. CASE t' = Done(n)
  BY <1>1 DEF Done, Joins, TickTyped, NoTick
<1>2. CASE t' = Joins(n)
  BY <1>2 DEF Joins, Done, TickTyped, NoTick
<1> QED
  BY <1>1, <1>2

\* Reading demand fixes the operations to step through.
LEMMA ReadDemandEffect ==
  ASSUME TickTyped, NEW u, NEW f, NEW k, ReadDemand(u, f, k)
  PROVE  /\ t.pc = "demand" /\ t'.pc = "phases" /\ DOMAIN t' = DOMAIN NoTick
         /\ t'.ready = t.ready /\ t'.ours = t.ours /\ t'.awake = t.awake
         /\ t'.limit = t.limit /\ t'.cur = t.cur /\ t'.begun = t.begun
         /\ t'.todo = InFlight /\ t'.flight = InFlight /\ t'.inUse = InUse
         /\ t'.want = Clamped(Guarded(u, f), k) /\ t'.known = t.known
         /\ t'.wantUnguarded = Clamped(Unguarded(u), k) /\ t'.joined = t.joined
         /\ t'.measured = k
         /\ UNCHANGED <<mach, busy, pending, cord, shedAt, phase, booting, spared,
                        window, down, high, highLast, low>>
<1> DEFINE want == Clamped(Guarded(u, f), k)
           unguarded == Clamped(Unguarded(u), k)
<1>1. t' = [t EXCEPT !.pc = "phases", !.asked = {}, !.working = {},
                     !.inUse = InUse, !.flight = InFlight, !.todo = InFlight,
                     !.want = want, !.wantUnguarded = unguarded, !.measured = k]
  BY Zenon DEF ReadDemand
<1>2. /\ t.pc = "demand"
      /\ UNCHANGED <<mach, busy, pending, cord, shedAt, phase, booting, spared,
                     window, down, high, highLast, low>>
  BY DEF ReadDemand, envVars, nodeVars, memVars, ceilVars, timeVars
<1> HIDE DEF want, unguarded
<1>3. /\ t'.pc = "phases" /\ DOMAIN t' = DOMAIN NoTick
      /\ t'.ready = t.ready /\ t'.ours = t.ours /\ t'.awake = t.awake
      /\ t'.limit = t.limit /\ t'.cur = t.cur /\ t'.begun = t.begun
      /\ t'.todo = InFlight /\ t'.flight = InFlight /\ t'.inUse = InUse
      /\ t'.want = want /\ t'.known = t.known
      /\ t'.wantUnguarded = unguarded /\ t'.joined = t.joined /\ t'.measured = k
  BY <1>1 DEF TickTyped, NoTick
<1> QED
  BY <1>2, <1>3 DEF want, unguarded

\* The one decision taken, what it was about is over, but for the visits.
LEMMA ToVisitsEffect ==
  ASSUME TickTyped, ToVisits
  PROVE  /\ TickTyped' /\ t'.pc = "visit"
         /\ t'.ready = t.ready /\ t'.ours = t.ours /\ t'.awake = t.awake
         /\ t'.limit = t.limit /\ t'.todo = t.todo /\ t'.want = t.want
         /\ t'.known = t.known /\ t'.joined = t.joined /\ t'.asked = t.asked
         /\ t'.begun = {} /\ t'.flight = {} /\ t'.inUse = {}
  BY DEF ToVisits, TickTyped, NoTick

\* A tick begins with what it observed, and nothing concluded.
LEMMA BeginTickEffect ==
  ASSUME NEW reading, BeginTick(reading)
  PROVE  /\ t'.pc = IF t'.limit = None THEN "demand" ELSE "shed"
         /\ t'.ready = {n \in Node : mach[n] \in {"on", "stopping"}}
         /\ t'.ours = {n \in Node : cord[n] = "ours"}
         /\ t'.awake = {n \in t'.ready : cord[n] # "ours"}
         /\ t'.limit = Effective(Trailing(reading))
         /\ t'.cur = IF reading = Failed THEN None ELSE reading
         /\ t'.todo = {} /\ t'.flight = {} /\ t'.begun = {} /\ t'.asked = {}
         /\ t'.want = 0 /\ t'.wantUnguarded = 0
         /\ t'.known = TRUE /\ t'.joined = FALSE
         /\ DOMAIN t' = DOMAIN NoTick
         /\ cord' = [n \in Node |-> IF cord[n] = "ours" THEN "ours" ELSE "none"]
         /\ UNCHANGED <<mach, busy, pending, phase, booting, joined>>
<1> DEFINE lim == Effective(Trailing(reading))
<1>1. t' = [NoTick EXCEPT
              !.pc = IF lim = None THEN "demand" ELSE "shed",
              !.ready = {n \in Node : mach[n] \in {"on", "stopping"}},
              !.ours = {n \in Node : cord[n] = "ours"},
              !.awake = {n \in {m \in Node : mach[m] \in {"on", "stopping"}} : cord[n] # "ours"},
              !.limit = lim, !.cur = IF reading = Failed THEN None ELSE reading]
  BY Zenon DEF BeginTick
<1>2. /\ cord' = [n \in Node |-> IF cord[n] = "ours" THEN "ours" ELSE "none"]
      /\ UNCHANGED <<mach, busy, pending, phase, booting, joined>>
  BY Zenon DEF BeginTick, envVars
<1> HIDE DEF lim
<1>3. /\ t'.pc = IF t'.limit = None THEN "demand" ELSE "shed"
      /\ t'.ready = {n \in Node : mach[n] \in {"on", "stopping"}}
      /\ t'.ours = {n \in Node : cord[n] = "ours"}
      /\ t'.awake = {n \in t'.ready : cord[n] # "ours"}
      /\ t'.limit = lim /\ t'.cur = IF reading = Failed THEN None ELSE reading
      /\ t'.todo = {} /\ t'.flight = {} /\ t'.begun = {} /\ t'.asked = {}
      /\ t'.want = 0 /\ t'.wantUnguarded = 0
      /\ t'.known = TRUE /\ t'.joined = FALSE
      /\ DOMAIN t' = DOMAIN NoTick
  BY <1>1 DEF NoTick
<1> QED
  BY <1>2, <1>3 DEF lim

\* What a shed starts is up, and was seen to be; it starts something only where
\* more nodes count than the limit allows.
LEMMA ShedEffect ==
  ASSUME TypeOK, Observed, NEW failing, Shed(failing)
  PROVE  \E begun \in SUBSET Node, missed \in SUBSET Node :
           /\ \A n \in begun \cup missed : n \in t.ready /\ mach[n] = "on"
           /\ begun # {} /\ t.limit \in Nat =>
                Cardinality(Classify(phase, shedAt, t.ready).selectable) > t.limit
           /\ phase' = [n \in Node |-> IF n \in begun THEN "sleeping"
                                       ELSE IF n \in missed THEN "none" ELSE phase[n]]
           /\ cord' = [n \in Node |-> IF n \in begun THEN "ours" ELSE cord[n]]
           /\ shedAt' \in [Node -> (0 .. ShedDeadline) \cup {None}]
           /\ booting' \in [Node -> BOOLEAN]
           /\ \A n \in Node \ (begun \cup missed) : booting'[n] = booting[n]
           /\ UNCHANGED <<mach, busy, pending, spared, window, down, high, highLast,
                          low, joined>>
           /\ t.pc = "shed" /\ t'.pc = "demand" /\ DOMAIN t' = DOMAIN NoTick
           /\ t'.ready = t.ready /\ t'.limit = t.limit /\ t'.cur = t.cur
           /\ t'.begun = begun /\ t'.awake = t.awake \ begun
           /\ t'.ours = t.ours \cup begun
           /\ t'.todo = t.todo /\ t'.flight = t.flight /\ t'.want = t.want
           /\ t'.wantUnguarded = t.wantUnguarded /\ t'.known = t.known
           /\ t'.joined = t.joined
<1> DEFINE v == Classify(phase, shedAt, t.ready)
           required == Cardinality(v.selectable) - t.limit
           picks == Picks(v, required)
           unshed == Unshed(v, required)
           starts == {n \in picks \cup (v.heldDown \ unshed) : phase[n] # "sleeping"}
           missed == {n \in starts \cap failing : n \notin t.ours}
           begun == starts \ missed
           asked == Asked(v, required)
<1>1. picks \subseteq v.selectable /\ v.heldDown \subseteq v.selectable
  BY DEF Picks, FirstBy, Classify
<1>2. \A n \in starts : n \in Node /\ n \in t.ready /\ mach[n] = "on"
  BY <1>1 DEF Classify, Shed, TypeOK, StateTyped, TickTyped, Observed
<1>3. phase' = [n \in Node |-> IF n \in begun THEN "sleeping"
                               ELSE IF n \in missed THEN "none" ELSE phase[n]]
  BY Zenon DEF Shed
<1>4. t' = [t EXCEPT !.pc = "demand", !.begun = begun, !.awake = @ \ begun,
                     !.ours = @ \cup begun, !.asked = asked,
                     !.working = {n \in asked : busy[n]}]
  BY Zenon DEF Shed
<1>5. shedAt' \in [Node -> (0 .. ShedDeadline) \cup {None}]
  <2> DEFINE sh == [n \in Node |-> IF n \in unshed THEN None
                                   ELSE IF n \in picks THEN 0 ELSE shedAt[n]]
             ph == [n \in Node |-> IF n \in begun THEN "sleeping"
                                ELSE IF n \in missed THEN "none" ELSE phase[n]]
             kept == Cardinality(v.heldDown \cup picks) - Cardinality(unshed)
             surplus == Surplus(Classify(ph, sh, t.ready).dark, kept)
  <2>1. shedAt' = [n \in Node |-> IF n \in surplus THEN None ELSE sh[n]]
    BY Zenon DEF Shed
  <2>2. sh \in [Node -> (0 .. ShedDeadline) \cup {None}]
    BY DEF TypeOK, StateTyped
  <2> HIDE DEF sh, surplus
  <2> QED
    BY <2>1, <2>2
<1>6. cord' = [n \in Node |-> IF n \in begun THEN "ours" ELSE cord[n]]
  BY Zenon DEF Shed
<1>7. /\ booting' \in [Node -> BOOLEAN]
      /\ \A n \in Node \ (begun \cup missed) : booting'[n] = booting[n]
  <2>1. booting' = [n \in Node |-> booting[n] /\ ~(n \in starts /\ phase[n] = "waking")]
    BY Zenon DEF Shed
  <2>2. starts = begun \cup missed /\ booting \in [Node -> BOOLEAN]
    BY DEF TypeOK, StateTyped
  <2> HIDE DEF starts, missed, begun
  <2>3. booting' \in [Node -> BOOLEAN]
    BY <2>1
  <2>4. ASSUME NEW n \in Node \ (begun \cup missed) PROVE booting'[n] = booting[n]
    <3>1. booting[n] \in BOOLEAN /\ n \notin starts
      BY <2>2
    <3> QED
      BY <2>1, <3>1
  <2> QED
    BY <2>3, <2>4
<1>8. t.pc = "shed" /\ UNCHANGED <<mach, busy, pending, spared, window, down, high,
                                   highLast, low, joined>>
  BY Zenon DEF Shed, envVars, ceilVars, timeVars
<1>9. ASSUME t.limit \in Nat, begun # {}
      PROVE  Cardinality(v.selectable) > t.limit
  <2>1. PICK n \in Node : n \in picks \/ n \in FirstBy(v.heldDown, required, GoesBefore)
    BY <1>2, <1>9 DEF Unshed
  <2>2. v.selectable \subseteq Node /\ v.heldDown \subseteq Node
    BY DEF Classify
  <2>3. Cardinality(v.selectable) \in Nat /\ Cardinality(v.heldDown) \in Nat
    BY <2>2, NodesAreFinite
  <2> DEFINE before(S) == Cardinality({m \in S : GoesBefore(m, n)})
             spare == {m \in v.drains \cup v.up : spared[m] = 0}
  <2>4. before(v.heldDown) \in Nat /\ before(spare) \in Nat
    <3>1. /\ {m \in v.heldDown : GoesBefore(m, n)} \subseteq Node
          /\ {m \in spare : GoesBefore(m, n)} \subseteq Node
      BY DEF Classify
    <3> QED
      BY <3>1, NodesAreFinite
  <2>5. \/ before(spare) < required - Cardinality(v.heldDown)
        \/ before(v.heldDown) < required
    BY <2>1 DEF Picks, FirstBy
  <2> HIDE DEF before, v, picks, spare
  <2> QED
    BY <1>9, <2>3, <2>4, <2>5
<1>10. begun \subseteq starts /\ missed \subseteq starts
  OBVIOUS
<1> HIDE DEF v, required, picks, unshed, starts, missed, begun, asked
<1>11. \A n \in begun \cup missed : n \in Node /\ n \in t.ready /\ mach[n] = "on"
  BY <1>2, <1>10
<1>12. /\ t'.pc = "demand" /\ DOMAIN t' = DOMAIN NoTick
       /\ t'.ready = t.ready /\ t'.limit = t.limit /\ t'.cur = t.cur
       /\ t'.begun = begun /\ t'.awake = t.awake \ begun
       /\ t'.ours = t.ours \cup begun
       /\ t'.todo = t.todo /\ t'.flight = t.flight /\ t'.want = t.want
       /\ t'.wantUnguarded = t.wantUnguarded /\ t'.known = t.known
       /\ t'.joined = t.joined
  BY <1>4 DEF TypeOK, TickTyped, NoTick
<1>13. begun \in SUBSET Node /\ missed \in SUBSET Node
  BY <1>11
<1> QED
  <2> USE <1>13
  <2> WITNESS begun \in SUBSET Node, missed \in SUBSET Node
  <2> QED
    BY <1>3, <1>5, <1>6, <1>7, <1>8, <1>9, <1>11, <1>12 DEF required, v

-----------------------------------------------------------------------------
\* The invariant holds of a pool at rest.
LEMMA BaseInit == Init => Base
<1> SUFFICES ASSUME Init PROVE Base
  OBVIOUS
<1>1. PICK up \in SUBSET Node :
        /\ mach = [n \in Node |-> IF n \in up THEN "on" ELSE "off"]
        /\ cord = [n \in Node |-> IF n \in up THEN "none" ELSE "ours"]
  BY Zenon DEF Init
<1>2. TypeOK
  BY <1>1, BetweenTicks DEF Init, TypeOK, StateTyped, TickTyped, Machine, Phase
<1>3. Accounted /\ Observed /\ Followed
  BY <1>1, BetweenTicks DEF Init, Accounted, Observed, Followed
<1> QED
  BY <1>2, <1>3 DEF Base

\* The work queue, the machines and the person.
LEMMA BaseEnvironment ==
  ASSUME Base, NEW n \in Node,
         Arrive \/ Place(n) \/ Finish(n) \/ BootDone(n) \/ HaltDone(n)
           \/ OperatorUncordons(n)
  PROVE  Base'
<1> USE DEF Base, TypeOK, StateTyped, TickTyped, Accounted, Observed, Followed, NoTick, Machine, Phase
<1>1. CASE Arrive
  <2>1. Cardinality({m \in Node : busy[m]}) \in Nat
    BY NodesAreFinite
  <2> QED
    BY <1>1, <2>1 DEF Arrive, nodeVars, memVars, ceilVars, timeVars
<1>2. CASE Place(n)
  BY <1>2 DEF Place, nodeVars, memVars, ceilVars, timeVars
<1>3. CASE Finish(n)
  BY <1>3 DEF Finish, nodeVars, memVars, ceilVars, timeVars
<1>4. CASE BootDone(n)
  BY <1>4 DEF BootDone, nodeVars, memVars, ceilVars, timeVars
<1>5. CASE HaltDone(n)
  BY <1>5 DEF HaltDone, nodeVars, memVars, ceilVars, timeVars
<1>6. CASE OperatorUncordons(n)
  BY <1>6 DEF OperatorUncordons, envVars, memVars, ceilVars, timeVars
<1> QED
  BY <1>1, <1>2, <1>3, <1>4, <1>5, <1>6

\* A restart leaves no operation but the shutdowns on record.
LEMMA BaseRestart == Base /\ Restart => Base'
<1> SUFFICES ASSUME Base, Restart PROVE Base'
  OBVIOUS
<1>1. TypeOK'
  BY BetweenTicks DEF Base, TypeOK, StateTyped, TickTyped, Machine, Phase, Restart, envVars, nodeVars
<1>2. (Accounted /\ Observed /\ Followed)'
  BY BetweenTicks DEF Base, Accounted, Observed, Followed, Restart, envVars, nodeVars
<1> QED
  BY <1>1, <1>2 DEF Base

\* The tick's record keeps its type when an operation has had its turn.
LEMMA TurnTyped ==
  ASSUME Base, NEW n \in Node, t' = Done(n) \/ t' = Joins(n)
  PROVE  TickTyped'
<1>1. TickTyped
  BY DEF Base, TypeOK
<1> QED
  BY <1>1, TurnEffect DEF TickTyped

\* The step of one operation in flight keeps the types.
LEMMA TypeStep ==
  ASSUME Base, NEW n \in Node, StepOf(n)
  PROVE  TypeOK'
<1>1. t' = Done(n) \/ t' = Joins(n)
  BY Zenon DEF StepOf, SkipNode, TakeOverReady, TakeOverBooting, VisitIsUndone,
               VisitIsUndone, VisitHolds, VisitEnds, WakeWaits, WakeArrives, WakeHasNoRoom, SleepIsUndone,
               Rescue, SleepWaits, SleepAbandoned, ShutDown, ConfirmOff
<1>2. TickTyped'
  BY <1>1, TurnTyped
<1>3. StateTyped
  BY DEF Base, TypeOK
<1> USE DEF StateTyped, Machine, Phase, Uncordon, envVars, nodeVars, memVars,
            ceilVars, timeVars
<1>4. CASE SkipNode(n)
  BY <1>2, <1>3, <1>4 DEF SkipNode, TypeOK
<1>5. CASE TakeOverReady(n)
  BY <1>2, <1>3, <1>5 DEF TakeOverReady, TypeOK
<1>6. CASE TakeOverBooting(n)
  BY <1>2, <1>3, <1>6 DEF TakeOverBooting, TypeOK
<1>7. CASE VisitHolds(n)
  BY <1>2, <1>3, <1>7 DEF VisitHolds, TypeOK
<1>8. CASE VisitEnds(n)
  BY <1>2, <1>3, <1>8 DEF VisitEnds, TypeOK
<1>9. CASE WakeWaits(n)
  BY <1>2, <1>3, <1>9 DEF WakeWaits, TypeOK
<1>10. CASE WakeArrives(n)
  BY <1>2, <1>3, <1>10 DEF WakeArrives, TypeOK
<1>11. CASE WakeHasNoRoom(n)
  BY <1>2, <1>3, <1>11 DEF WakeHasNoRoom, TypeOK
<1>12. CASE SleepIsUndone(n)
  BY <1>2, <1>3, <1>12 DEF SleepIsUndone, TypeOK
<1>13. CASE Rescue(n)
  BY <1>2, <1>3, <1>13 DEF Rescue, TypeOK
<1>14. CASE SleepWaits(n)
  BY <1>2, <1>3, <1>14 DEF SleepWaits, TypeOK
<1>15. CASE SleepAbandoned(n)
  BY <1>2, <1>3, <1>15 DEF SleepAbandoned, TypeOK
<1>16. CASE ShutDown(n)
  BY <1>2, <1>3, <1>16 DEF ShutDown, TypeOK
<1>17. CASE ConfirmOff(n)
  BY <1>2, <1>3, <1>17 DEF ConfirmOff, TypeOK
<1>18. CASE VisitIsUndone(n)
  BY <1>2, <1>3, <1>18 DEF VisitIsUndone, TypeOK
<1> QED
  BY <1>4, <1>5, <1>6, <1>7, <1>8, <1>9, <1>10, <1>11, <1>12,
     <1>13, <1>14, <1>15, <1>16, <1>17, <1>18 DEF StepOf

\* The step of one operation in flight keeps every node accounted for.
LEMMA AccountedStep ==
  ASSUME Base, NEW n \in Node, StepOf(n)
  PROVE  (Accounted /\ Observed /\ Followed)'
<1>1. TypeOK /\ StateTyped /\ TickTyped /\ Accounted /\ Observed /\ Followed
  BY DEF Base, TypeOK
<1>2. t' = Done(n) \/ t' = Joins(n)
  BY Zenon DEF StepOf, SkipNode, TakeOverReady, TakeOverBooting, VisitIsUndone,
               VisitHolds, VisitEnds, WakeWaits, WakeArrives, WakeHasNoRoom,
               SleepIsUndone, Rescue, SleepWaits, SleepAbandoned, ShutDown, ConfirmOff
<1>3. /\ t'.pc = t.pc /\ t'.ready = t.ready /\ t'.ours = t.ours /\ t'.flight = t.flight
      /\ t'.todo \subseteq t.todo /\ t'.awake \subseteq t.awake \cup {n}
      /\ t.pc = "phases" /\ n \in t.todo /\ n \in t.flight
  <2>1. t.pc = "phases" /\ n \in t.todo
    BY Zenon DEF StepOf, SkipNode, TakeOverReady, TakeOverBooting, VisitIsUndone,
                 VisitHolds, VisitEnds, WakeWaits, WakeArrives, WakeHasNoRoom,
                 SleepIsUndone, Rescue, SleepWaits, SleepAbandoned, ShutDown,
                 ConfirmOff, Drains, Goes, Turn
  <2> QED
    BY <1>1, <1>2, <2>1, TurnEffect DEF Followed
<1>4. Followed'
  <2>1. \A m \in Node \ {n} : phase'[m] = phase[m]
    BY <1>1 DEF StepOf, SkipNode, TakeOverReady, TakeOverBooting, VisitIsUndone,
                VisitHolds, VisitEnds, WakeWaits, WakeArrives, WakeHasNoRoom,
                SleepIsUndone, Rescue, SleepWaits, SleepAbandoned, ShutDown,
                ConfirmOff, memVars, StateTyped
  <2> QED
    BY <1>1, <1>3, <2>1 DEF Followed
<1>5. SUFFICES Accounted' /\ Observed'
  BY <1>4
<1> USE DEF StateTyped, Accounted, Observed, Goes, Turn, Drains, Uncordon,
            envVars, nodeVars, memVars
<1>6. CASE SkipNode(n)
  BY <1>1, <1>3, <1>6 DEF SkipNode
<1>7. CASE TakeOverReady(n)
  BY <1>1, <1>3, <1>7 DEF TakeOverReady
<1>8. CASE TakeOverBooting(n)
  BY <1>1, <1>3, <1>8 DEF TakeOverBooting
<1>9. CASE VisitIsUndone(n)
  BY <1>1, <1>3, <1>9 DEF VisitIsUndone
<1>10. CASE VisitHolds(n)
  BY <1>1, <1>3, <1>10 DEF VisitHolds
<1>11. CASE VisitEnds(n)
  BY <1>1, <1>3, <1>11 DEF VisitEnds
<1>12. CASE WakeWaits(n)
  BY <1>1, <1>3, <1>12 DEF WakeWaits
<1>13. CASE WakeArrives(n)
  BY <1>1, <1>3, <1>13 DEF WakeArrives
<1>14. CASE WakeHasNoRoom(n)
  BY <1>1, <1>3, <1>14 DEF WakeHasNoRoom
<1>15. CASE SleepIsUndone(n)
  BY <1>1, <1>3, <1>15 DEF SleepIsUndone
<1>16. CASE Rescue(n)
  BY <1>1, <1>3, <1>16 DEF Rescue
<1>17. CASE SleepWaits(n)
  BY <1>1, <1>3, <1>17 DEF SleepWaits
<1>18. CASE SleepAbandoned(n)
  BY <1>1, <1>3, <1>18 DEF SleepAbandoned
<1>19. CASE ShutDown(n)
  BY <1>1, <1>3, <1>19 DEF ShutDown
<1>20. CASE ConfirmOff(n)
  BY <1>1, <1>3, <1>20 DEF ConfirmOff, IsDown
<1> QED
  BY <1>6, <1>7, <1>8, <1>9, <1>10, <1>11, <1>12, <1>13,
     <1>14, <1>15, <1>16, <1>17, <1>18, <1>19, <1>20 DEF StepOf

\* The one decision of a tick, and the visit after it.
LEMMA BaseDecision ==
  ASSUME Base, NEW n \in Node, Decision(n)
  PROVE  Base'
<1> USE DEF Base, TypeOK, StateTyped, TickTyped, Accounted, Observed, Followed, Machine, Phase,
            Deciding, Decides, NoTick, Uncordon, TickEnds, ToVisits,
            envVars, nodeVars, memVars, ceilVars, timeVars
<1>1. CASE RepairUp(n)
  BY <1>1 DEF RepairUp
<1>2. CASE RepairDown(n)
  BY <1>2 DEF RepairDown, Stranded
<1>3. CASE BeginWake(n)
  BY <1>3 DEF BeginWake, WantMore, HighSince, Candidate
<1>4. CASE BeginSleep(n)
  BY <1>4 DEF BeginSleep, WantLess, LowSince
<1>5. CASE BeginVisit(n)
  BY <1>5 DEF BeginVisit, MayVisit, InFlight
<1> QED
  BY <1>1, <1>2, <1>3, <1>4, <1>5 DEF Decision

\* The ways a tick goes on or ends without touching a node.
LEMMA BaseTickEnds ==
  ASSUME Base, DemandUnknown \/ TickCutShort \/ HoldWake \/ HoldSleep \/ DemandMet \/ NoVisit
  PROVE  Base'
<1>1. TypeOK /\ StateTyped /\ TickTyped /\ Accounted /\ Observed /\ Followed
  BY DEF Base, TypeOK
<1>2. UNCHANGED <<mach, busy, pending, cord, shedAt, phase, booting, spared, window, down>>
  BY Zenon DEF DemandUnknown, TickCutShort, HoldWake, HoldSleep, DemandMet, NoVisit,
               envVars, nodeVars, memVars, ceilVars
<1>3. /\ high' \in (0 .. WakeSustain) \cup {None}
      /\ highLast' \in (0 .. WakeSustain + 1) \cup {None}
      /\ low' \in (0 .. SleepSustain) \cup {None}
  <2> USE <1>1 DEF StateTyped, timeVars
  <2>1. CASE DemandUnknown \/ TickCutShort \/ NoVisit
    BY <2>1, Zenon DEF DemandUnknown, TickCutShort, NoVisit
  <2>2. CASE HoldWake
    BY <2>2 DEF HoldWake, WantMore, HighSince
  <2>3. CASE HoldSleep
    BY <2>3 DEF HoldSleep, WantLess, LowSince
  <2>4. CASE DemandMet
    BY <2>4 DEF DemandMet
  <2> QED
    BY <2>1, <2>2, <2>3, <2>4
<1>4. StateTyped'
  BY <1>1, <1>2, <1>3 DEF StateTyped
<1>5. CASE t' = NoTick
  <2>1. TickTyped'
    BY <1>5, BetweenTicks DEF TickTyped
  <2> QED
    BY <1>1, <1>2, <1>4, <1>5, <2>1, BetweenTicks
    DEF Base, TypeOK, Accounted, Observed, Followed
<1>6. CASE t.pc = "phases" /\ ToVisits
  <2>1. /\ TickTyped' /\ t'.pc = "visit" /\ t'.ready = t.ready
    BY <1>1, <1>6, ToVisitsEffect
  <2> QED
    BY <1>1, <1>2, <1>4, <1>6, <2>1 DEF Base, TypeOK, Accounted, Observed, Followed
<1>7. CASE DemandUnknown /\ Engaged
  BY <1>1, <1>2, <1>4, <1>7
  DEF DemandUnknown, InFlight, NoTick, Base, TypeOK, TickTyped, Accounted, Observed, Followed
<1>8. \/ t' = NoTick \/ (t.pc = "phases" /\ ToVisits) \/ (DemandUnknown /\ Engaged)
  BY Zenon DEF DemandUnknown, TickCutShort, HoldWake, HoldSleep, DemandMet, NoVisit,
               WantMore, WantLess, Decides, Deciding, TickEnds
<1> QED
  BY <1>5, <1>6, <1>7, <1>8

\* A tick begins: the limit it works with is a number of nodes below the whole.
LEMMA BaseBeginTick ==
  ASSUME Base, NEW reading \in Readings, BeginTick(reading)
  PROVE  Base'
<1> DEFINE w == Trailing(reading)
           lim == Effective(w)
<1>1. w \in [0 .. Hold - 1 -> (0 .. N - 1) \cup {None}]
  BY DEF Base, TypeOK, StateTyped, TickTyped, Trailing
<1>2. lim \in (0 .. N - 1) \cup {None}
  <2> DEFINE seen == {w[a] : a \in DOMAIN w} \ {None}
  <2>1. seen \subseteq 0 .. N - 1
    BY <1>1
  <2>2. CASE seen = {}
    BY <2>2 DEF Effective
  <2>3. CASE seen # {}
    <3>1. Min(seen) \in seen
      <4>1. seen \subseteq Nat
        BY <2>1
      <4> QED
        BY <4>1, <2>3, MinIsIn, Zenon
    <3> QED
      BY <2>1, <2>3, <3>1 DEF Effective
  <2> QED
    BY <2>2, <2>3
<1>3. /\ t'.pc \in {"demand", "shed"}
      /\ t'.ready = {n \in Node : mach[n] \in {"on", "stopping"}}
      /\ t'.ours = {n \in Node : cord[n] = "ours"}
      /\ t'.awake = {n \in t'.ready : cord[n] # "ours"}
      /\ t'.limit = lim /\ t'.todo = {} /\ t'.flight = {}
      /\ t'.cur = IF reading = Failed THEN None ELSE reading
      /\ t'.want = 0 /\ t'.wantUnguarded = 0
      /\ DOMAIN t' = DOMAIN NoTick
      /\ UNCHANGED <<mach, busy, pending, phase, booting>>
  BY BeginTickEffect DEF lim, w
<1> HIDE DEF lim, w
<1>4. TypeOK'
  <2>1. window' \in [0 .. Hold - 1 -> (0 .. N - 1) \cup {None}]
    BY <1>1 DEF BeginTick, w
  <2>2. down' \in (0 .. Hold + 1) \cup {None}
    BY DEF BeginTick, OutageAge, Least, Base, TypeOK, StateTyped, TickTyped
  <2>3. cord' \in [Node -> {"none", "ours", "outlived"}]
    BY DEF BeginTick
  <2>6. shedAt' \in [Node -> (0 .. ShedDeadline) \cup {None}]
    <3>1. \A n \in Node : Older(shedAt[n], ShedDeadline) \in (0 .. ShedDeadline) \cup {None}
      BY DEF Older, Least, Base, TypeOK, StateTyped, TickTyped
    <3> QED
      BY <3>1 DEF BeginTick
  <2>4. spared' \in [Node -> 0 .. SleepCooldown]
    <3>1. \A n \in Node : Greatest(spared[n] - 1, 0) \in 0 .. SleepCooldown
      BY DEF Greatest, Base, TypeOK, StateTyped
    <3>2. SleepCooldown \in 0 .. SleepCooldown
      OBVIOUS
    <3> HIDE DEF Greatest
    <3>3. spared' = [n \in Node |->
                       IF Holding(Effective(Trailing(reading)), OutageAge(reading)) /\ PutBack(n)
                       THEN SleepCooldown ELSE Greatest(spared[n] - 1, 0)]
      BY Zenon DEF BeginTick
    <3> QED
      BY <3>1, <3>2, <3>3
  <2>5. /\ high' \in (0 .. WakeSustain) \cup {None}
        /\ highLast' \in (0 .. WakeSustain + 1) \cup {None}
        /\ low' \in (0 .. SleepSustain) \cup {None}
    <3>1. \A age, b : b \in Nat /\ age \in (0 .. b) \cup {None} =>
                        Older(age, b) \in (0 .. b) \cup {None}
      BY DEF Older, Least
    <3>2. /\ high' = Older(high, WakeSustain)
          /\ highLast' = Older(highLast, WakeSustain + 1)
          /\ low' = Older(low, SleepSustain)
      BY DEF BeginTick
    <3>3. /\ WakeSustain \in Nat /\ WakeSustain + 1 \in Nat /\ SleepSustain \in Nat
          /\ high \in (0 .. WakeSustain) \cup {None}
          /\ highLast \in (0 .. WakeSustain + 1) \cup {None}
          /\ low \in (0 .. SleepSustain) \cup {None}
      BY DEF Base, TypeOK, StateTyped, TickTyped
    <3> QED
      BY <3>1, <3>2, <3>3, Zenon
  <2>7. StateTyped'
    BY <1>3, <2>1, <2>2, <2>3, <2>4, <2>5, <2>6 DEF Base, TypeOK, StateTyped
  <2>8. TickTyped'
    BY <1>2, <1>3 DEF TickTyped
  <2> QED
    BY <2>7, <2>8 DEF TypeOK
<1>5. (Accounted /\ Observed /\ Followed)'
  BY <1>3 DEF Base, TypeOK, StateTyped, Accounted, Observed, Followed, Machine
<1> QED
  BY <1>4, <1>5 DEF Base

\* A shed starts nothing on a node that is not up.
LEMMA BaseShed ==
  ASSUME Base, NEW failing, Shed(failing)
  PROVE  Base'
<1>1. TypeOK /\ Accounted /\ Observed /\ Followed
  BY DEF Base
<1>2. PICK begun \in SUBSET Node, missed \in SUBSET Node :
           /\ \A n \in begun \cup missed : n \in t.ready /\ mach[n] = "on"
           /\ phase' = [n \in Node |-> IF n \in begun THEN "sleeping"
                                       ELSE IF n \in missed THEN "none" ELSE phase[n]]
           /\ cord' = [n \in Node |-> IF n \in begun THEN "ours" ELSE cord[n]]
           /\ shedAt' \in [Node -> (0 .. ShedDeadline) \cup {None}]
           /\ booting' \in [Node -> BOOLEAN]
           /\ UNCHANGED <<mach, busy, pending, spared, window, down, high, highLast,
                          low, joined>>
           /\ t.pc = "shed" /\ t'.pc = "demand" /\ DOMAIN t' = DOMAIN NoTick
           /\ t'.ready = t.ready /\ t'.limit = t.limit /\ t'.cur = t.cur
           /\ t'.awake = t.awake \ begun
           /\ t'.ours = t.ours \cup begun
           /\ t'.todo = t.todo /\ t'.flight = t.flight /\ t'.want = t.want
           /\ t'.wantUnguarded = t.wantUnguarded
  BY <1>1, ShedEffect, Zenon
<1>3. TypeOK'
  BY <1>1, <1>2 DEF TypeOK, StateTyped, TickTyped, Phase
<1>4. Accounted' /\ Observed'
  BY <1>1, <1>2 DEF TypeOK, StateTyped, Accounted, Observed
<1>5. Followed'
  BY <1>1, <1>2 DEF Followed
<1> QED
  BY <1>3, <1>4, <1>5 DEF Base

\* The work that waits is sized in whole nodes.
LEMMA CapacityTyped ==
  ASSUME NEW r \in Resource
  PROVE  NodeCapacity(r, Node, Capacity, Default) \in Nat
<1> DEFINE have == {Capacity[n][r] : n \in Node} \ {0}
<1>1. have \subseteq Nat
  BY ResourceAssumption DEF Resource
<1>2. Default[r] \in Nat
  BY ResourceAssumption DEF Resource
<1>3. NodeCapacity(r, Node, Capacity, Default) = IF have # {} THEN Min(have) ELSE Default[r]
  BY DEF NodeCapacity
<1> HIDE DEF have
<1>4. have # {} => Min(have) \in Nat
  BY <1>1, MinIsIn
<1> QED
  BY <1>2, <1>3, <1>4

LEMMA BacklogTyped ==
  ASSUME pending \in Nat
  PROVE  /\ Backlog \in Nat
         /\ \A k \in Nat : k >= Backlog <=>
              \A r \in Resource :
                LET one == NodeCapacity(r, Node, Capacity, Default)
                IN pending * JobSize[r] > 0 /\ one > 0 => k * one >= pending * JobSize[r]
<1> DEFINE one == [r \in Resource |-> NodeCapacity(r, Node, Capacity, Default)]
<1>1. DOMAIN Shortfall = Resource /\ IsFiniteSet(DOMAIN Shortfall)
  BY ResourceAssumption DEF Shortfall, Resource
<1>2. ASSUME NEW r \in Resource
      PROVE  /\ Shortfall[r] = pending * JobSize[r] /\ Shortfall[r] \in Nat
             /\ one[r] = NodeCapacity(r, Node, Capacity, Default) /\ one[r] \in Nat
  <2>1. JobSize[r] \in Nat
    BY ResourceAssumption DEF Resource
  <2>2. Shortfall[r] = pending * JobSize[r]
    BY DEF Shortfall
  <2>3. one[r] = NodeCapacity(r, Node, Capacity, Default)
    OBVIOUS
  <2> QED
    BY <2>1, <2>2, <2>3, CapacityTyped
<1>3. Backlog = NodesFor(Shortfall, one)
  BY DEF Backlog
<1> HIDE DEF one
<1>4. /\ NodesFor(Shortfall, one) \in Nat
      /\ \A k \in Nat : k >= NodesFor(Shortfall, one) <=>
           \A r \in SizedOn(Shortfall, one) : k * one[r] >= Shortfall[r]
  BY <1>1, <1>2, NodesForIsLeast
<1>5. \A r : r \in SizedOn(Shortfall, one) <=>
               r \in Resource /\ Shortfall[r] > 0 /\ one[r] > 0
  BY <1>1 DEF SizedOn
<1> QED
  BY <1>2, <1>3, <1>4, <1>5

\* What demand accounts for, and what is wanted in the end, are numbers of nodes.
LEMMA WantTyped ==
  ASSUME TypeOK, NEW u \in Saturations, NEW f, NEW k \in BOOLEAN
  PROVE  /\ Guarded(u, f) \in Nat
         /\ Clamped(Guarded(u, f), k) \in Nat /\ Clamped(Unguarded(u), k) \in Nat
         /\ Engaged => Clamped(Guarded(u, f), k) <= t.limit
<1>1. Backlog \in Nat
  BY BacklogTyped DEF TypeOK, StateTyped
<1>2. Cardinality(InUse) \in Nat /\ Cardinality(t.awake) \in Nat
  <2>1. InUse \subseteq Node /\ t.awake \subseteq Node
    BY DEF InUse, TypeOK, TickTyped
  <2> QED
    BY <2>1, NodesAreFinite
<1>3. u \in Nat
  BY SignalAssumption
<1>4. Unguarded(u) \in Nat
  <2> DEFINE b == Backlog  c == Cardinality(InUse)
  <2>1. Unguarded(u) = Least(N, Greatest(c + b, u))
    BY DEF Unguarded
  <2>2. b \in Nat /\ c \in Nat
    BY <1>1, <1>2
  <2> HIDE DEF b, c
  <2> QED
    BY <1>3, <2>1, <2>2 DEF Least, Greatest
<1>5. Guarded(u, f) \in Nat
  BY <1>2, <1>4, Zenon DEF Guarded
<1>6. ASSUME NEW w \in Nat
      PROVE  Clamped(w, k) \in Nat /\ (Engaged => Clamped(w, k) <= t.limit)
  <2> DEFINE h == HeadroomFloor(Load, Capacity, t.awake, t.awake \ InUse, Resource, HeadroomPct)
  <2>1. Floor(k) \in Nat
    <3>1. h \in Nat
      BY <1>2 DEF HeadroomFloor
    <3>2. Floor(k) = IF k THEN Least(N, h) ELSE 0
      BY DEF Floor
    <3> HIDE DEF h
    <3> QED
      BY <3>1, <3>2, SizeAssumption DEF Least
  <2>2. Clamped(w, k) = IF Engaged THEN Least(Greatest(w, Floor(k)), t.limit)
                        ELSE Greatest(w, Floor(k))
    BY DEF Clamped
  <2>3. Engaged => t.limit \in Nat
    BY DEF Engaged, TypeOK, TickTyped
  <2> QED
    BY <2>1, <2>2, <2>3 DEF Least, Greatest
<1> QED
  BY <1>4, <1>5, <1>6

\* The tick then steps through the operations there are.
LEMMA BaseReadDemand ==
  ASSUME Base, NEW u \in Saturations, NEW f, NEW k \in BOOLEAN, ReadDemand(u, f, k)
  PROVE  Base'
<1>1. TypeOK /\ TickTyped /\ StateTyped /\ Accounted /\ Observed /\ Followed
  BY DEF Base, TypeOK
<1> DEFINE want == Clamped(Guarded(u, f), k)
           unguarded == Clamped(Unguarded(u), k)
<1>2. /\ t.pc = "demand" /\ t'.pc = "phases" /\ DOMAIN t' = DOMAIN NoTick
      /\ t'.ready = t.ready /\ t'.ours = t.ours /\ t'.awake = t.awake
      /\ t'.limit = t.limit /\ t'.cur = t.cur
      /\ t'.todo = InFlight /\ t'.flight = InFlight
      /\ t'.want = want /\ t'.wantUnguarded = unguarded
      /\ UNCHANGED <<mach, busy, pending, cord, shedAt, phase, booting, spared,
                     window, down, high, highLast, low>>
  BY <1>1, ReadDemandEffect
<1>3. want \in Nat /\ unguarded \in Nat
  BY <1>1, WantTyped
<1> HIDE DEF want, unguarded
<1>4. TypeOK'
  <2>1. StateTyped'
    BY <1>1, <1>2 DEF StateTyped
  <2>2. TickTyped'
    BY <1>1, <1>2, <1>3 DEF TickTyped, InFlight
  <2> QED
    BY <2>1, <2>2 DEF TypeOK
<1>5. (Accounted /\ Observed /\ Followed)'
  BY <1>1, <1>2 DEF Accounted, Observed, Followed, InFlight
<1> QED
  BY <1>4, <1>5 DEF Base

-----------------------------------------------------------------------------
\* Every step preserves the invariant.
LEMMA BaseNext == Base /\ [Next]_vars => Base'
<1> SUFFICES ASSUME Base, [Next]_vars PROVE Base'
  OBVIOUS
<1>1. ASSUME NEW r \in Readings, BeginTick(r) PROVE Base'
  BY <1>1, BaseBeginTick
<1>2. ASSUME NEW f \in Failing, Shed(f) PROVE Base'
  BY <1>2, BaseShed
<1>3. ASSUME NEW u \in Saturations, NEW f \in Fits, NEW k \in BOOLEAN, ReadDemand(u, f, k) PROVE Base'
  BY <1>3, BaseReadDemand
<1>4. ASSUME NEW n \in Node, StepOf(n) PROVE Base'
  BY <1>4, TypeStep, AccountedStep DEF Base
<1>5. ASSUME NEW n \in Node, Decision(n) PROVE Base'
  BY <1>5, BaseDecision
<1>6. CASE DemandUnknown \/ TickCutShort \/ HoldWake \/ HoldSleep \/ DemandMet \/ NoVisit
  BY <1>6, BaseTickEnds
<1>7. CASE Arrive
  <2>1. 1 \in Node
    BY DEF Node
  <2> QED
    BY <1>7, <2>1, BaseEnvironment
<1>8. CASE Restart
  BY <1>8, BaseRestart
<1>9. ASSUME NEW n \in Node, Environment(n) PROVE Base'
  BY <1>9, BaseEnvironment DEF Environment
<1>10. CASE UNCHANGED vars
  BY <1>10 DEF vars, envVars, nodeVars, memVars, ceilVars, timeVars, Base, TypeOK, StateTyped, TickTyped,
               Accounted, Observed, Followed
<1> QED
  BY MeasuredOrNot, <1>1, <1>2, <1>3, <1>4, <1>5, <1>6, <1>7, <1>8, <1>9, <1>10 DEF Next, Tick

-----------------------------------------------------------------------------
\* What a tick concluded changes in six ways: the machines and people leave it
\* alone, a tick begins, sheds, reads demand or cannot, an operation has its
\* turn, and a decision or a restart ends it.
LEMMA StepKinds ==
  ASSUME Base, [Next]_vars
  PROVE  \/ /\ t' = t /\ phase' = phase /\ booting' = booting
            /\ \A n \in Node : cord'[n] = "none" => cord[n] = "none"
         \/ \E reading \in Readings : BeginTick(reading)
         \/ \E failing \in Failing : Shed(failing)
         \/ \E u \in Saturations, f \in Fits, k \in BOOLEAN : ReadDemand(u, f, k)
         \/ DemandUnknown /\ Engaged
         \/ \E n \in Node : StepOf(n)
         \/ t'.pc \in {"between", "visit"} /\ t'.begun = {}
<1>1. TypeOK /\ StateTyped /\ TickTyped
  BY DEF Base, TypeOK
<1>2. CASE Arrive \/ UNCHANGED vars
  BY <1>2, Zenon DEF Arrive, vars, nodeVars, memVars
<1>3. ASSUME NEW n \in Node, Environment(n)
      PROVE  /\ t' = t /\ phase' = phase /\ booting' = booting
             /\ \A m \in Node : cord'[m] = "none" => cord[m] = "none"
  <2>1. t' = t /\ phase' = phase /\ booting' = booting
    BY <1>3, Zenon DEF Environment, Place, Finish, BootDone, HaltDone, OperatorUncordons,
                       memVars
  <2>2. \A m \in Node : cord'[m] = "none" => cord[m] = "none"
    BY <1>1, <1>3 DEF Environment, Place, Finish, BootDone, HaltDone, OperatorUncordons,
                      nodeVars, StateTyped
  <2> QED
    BY <2>1, <2>2
<1>4. CASE t' = NoTick
  BY <1>4, BetweenTicks
<1>5. CASE ToVisits
  BY <1>1, <1>5, ToVisitsEffect
<1>6. ASSUME NEW n \in Node, Decision(n) PROVE t' = NoTick \/ ToVisits
  BY <1>6, Zenon DEF Decision, RepairUp, RepairDown, BeginWake, BeginSleep, BeginVisit,
                     TickEnds
<1>7. CASE TickCutShort \/ HoldWake \/ HoldSleep \/ DemandMet \/ NoVisit \/ Restart
  <2>1. t' = NoTick \/ ToVisits
    BY <1>7, Zenon DEF TickCutShort, HoldWake, HoldSleep, DemandMet, NoVisit, Restart,
                       TickEnds
  <2> QED
    BY <1>4, <1>5, <2>1
<1>8. CASE DemandUnknown
  <2>1. Engaged \/ t' = NoTick
    BY <1>8, Zenon DEF DemandUnknown
  <2> QED
    BY <1>4, <1>8, <2>1
<1> QED
  BY MeasuredOrNot, <1>2, <1>3, <1>4, <1>5, <1>6, <1>7, <1>8, Zenon DEF Next, Tick

\* A tick whose demand signal failed under a ceiling goes on with the operations.
LEMMA DemandUnknownEffect ==
  ASSUME TickTyped, DemandUnknown, Engaged
  PROVE  /\ t'.pc = "phases" /\ t'.known = FALSE /\ t'.ready = t.ready
         /\ t'.ours = t.ours /\ t'.awake = t.awake /\ t'.limit = t.limit
         /\ t'.begun = t.begun /\ t'.want = t.want /\ t.pc = "demand"
         /\ phase' = phase /\ cord' = cord /\ mach' = mach
<1>1. t' = [t EXCEPT !.pc = "phases", !.asked = {}, !.working = {},
                     !.inUse = {}, !.known = FALSE, !.flight = InFlight, !.todo = InFlight]
  BY Zenon DEF DemandUnknown
<1>2. t.pc = "demand" /\ phase' = phase /\ cord' = cord /\ mach' = mach
  BY Zenon DEF DemandUnknown, envVars, nodeVars, memVars
<1> QED
  BY <1>1, <1>2 DEF TickTyped, NoTick

\* An operation has its turn while the tick steps through them, and its node
\* alone changes.
LEMMA StepOfEffect ==
  ASSUME Base, NEW n \in Node, StepOf(n)
  PROVE  /\ t' = Done(n) \/ t' = Joins(n)
         /\ t.pc = "phases" /\ n \in t.todo /\ n \in t.flight
         /\ \A m \in Node \ {n} : /\ phase'[m] = phase[m] /\ booting'[m] = booting[m]
                                  /\ mach'[m] = mach[m] /\ cord'[m] = cord[m]
         /\ busy' = busy /\ pending' = pending
<1>1. TypeOK /\ StateTyped /\ Followed
  BY DEF Base, TypeOK
<1>2. t' = Done(n) \/ t' = Joins(n)
  BY Zenon DEF StepOf, SkipNode, TakeOverReady, TakeOverBooting, VisitIsUndone,
               VisitHolds, VisitEnds, WakeWaits, WakeArrives, WakeHasNoRoom,
               SleepIsUndone, Rescue, SleepWaits, SleepAbandoned, ShutDown, ConfirmOff
<1>3. /\ t.pc = "phases" /\ n \in t.todo /\ busy' = busy /\ pending' = pending
  BY Zenon DEF StepOf, SkipNode, TakeOverReady, TakeOverBooting, VisitIsUndone,
               VisitHolds, VisitEnds, WakeWaits, WakeArrives, WakeHasNoRoom,
               SleepIsUndone, Rescue, SleepWaits, SleepAbandoned, ShutDown,
               ConfirmOff, Drains, Goes, Turn, envVars
<1>4. \A m \in Node \ {n} : /\ phase'[m] = phase[m] /\ booting'[m] = booting[m]
                            /\ mach'[m] = mach[m] /\ cord'[m] = cord[m]
  BY <1>1 DEF StepOf, SkipNode, TakeOverReady, TakeOverBooting, VisitIsUndone,
              VisitHolds, VisitEnds, WakeWaits, WakeArrives, WakeHasNoRoom,
              SleepIsUndone, Rescue, SleepWaits, SleepAbandoned, ShutDown,
              ConfirmOff, Uncordon, envVars, nodeVars, memVars, StateTyped
<1>5. n \in t.flight
  BY <1>1, <1>3 DEF Followed
<1> QED
  BY <1>2, <1>3, <1>4, <1>5

\* A tick sheds for a limit, and wants no more than it.
LEMMA LimitedNext ==
  ASSUME Base, Base', Limited, [Next]_vars
  PROVE  Limited'
<1>1. TypeOK /\ TickTyped /\ Observed
  BY DEF Base, TypeOK
<1>2. CASE t' = t
  BY <1>2 DEF Limited, Engaged
<1>3. ASSUME NEW reading \in Readings, BeginTick(reading) PROVE Limited'
  BY <1>3, BeginTickEffect DEF Limited, Engaged
<1>4. ASSUME NEW failing \in Failing, Shed(failing) PROVE Limited'
  <2>1. Engaged /\ t.limit \in Nat
    <3>1. t.pc = "shed"
      BY <1>4, Zenon DEF Shed
    <3> QED
      BY <1>1, <3>1 DEF Limited, Engaged, TickTyped
  <2> DEFINE sel == Classify(phase, shedAt, t.ready).selectable
  <2>2. PICK begun \in SUBSET Node :
          /\ begun # {} => Cardinality(sel) > t.limit
          /\ t'.begun = begun /\ t'.pc = "demand" /\ t'.limit = t.limit
          /\ t'.ready = t.ready
    BY <1>1, <1>4, <2>1, ShedEffect, Zenon
  <2>3. sel \subseteq t.ready /\ t.ready \subseteq Node
    BY <1>1, <1>4 DEF Classify, Observed, TickTyped, Shed
  <2> HIDE DEF sel
  <2>4. Cardinality(sel) <= Cardinality(t.ready)
    BY <2>3, NodesAreFinite, FS_Subset
  <2>5. Cardinality(sel) \in Nat /\ Cardinality(t.ready) \in Nat
    BY <2>3, NodesAreFinite
  <2> QED
    BY <2>1, <2>2, <2>4, <2>5 DEF Limited, Engaged
<1>5. ASSUME NEW u \in Saturations, NEW f \in Fits, NEW k \in BOOLEAN, ReadDemand(u, f, k) PROVE Limited'
  <2> DEFINE want == Clamped(Guarded(u, f), k)
  <2>1. /\ t'.pc = "phases" /\ t'.begun = t.begun /\ t'.limit = t.limit
        /\ t'.ready = t.ready /\ t'.want = want
    BY <1>1, <1>5, ReadDemandEffect
  <2>2. Engaged => want <= t.limit
    BY <1>1, WantTyped
  <2> HIDE DEF want
  <2> QED
    BY <2>1, <2>2 DEF Limited, Engaged
<1>6. CASE DemandUnknown /\ Engaged
  BY <1>1, <1>6, DemandUnknownEffect DEF Limited, Engaged
<1>7. ASSUME NEW n \in Node, StepOf(n) PROVE Limited'
  <2>1. t' = Done(n) \/ t' = Joins(n)
    BY <1>7, StepOfEffect
  <2> QED
    BY <1>1, <2>1, TurnEffect DEF Limited, Engaged
<1>8. CASE t'.pc \in {"between", "visit"} /\ t'.begun = {}
  BY <1>8 DEF Limited
<1> QED
  BY <1>2, <1>3, <1>4, <1>5, <1>6, <1>7, <1>8, StepKinds, Zenon

\* In unmet demand, a node that was Ready and had its turn joined, was in service
\* or is going down; and nobody loses our cordon but by joining.
LEMMA TurnInDemand ==
  ASSUME Base, Limited, Counted, NEW n \in Node, StepOf(n), Short
  PROVE  /\ n \in t.ready \ t.begun /\ t.known =>
              t' = Joins(n) \/ n \in t.awake \/ phase'[n] = "powering_off"
         /\ cord'[n] = "none" => cord[n] = "none" \/ t' = Joins(n)
<1>1. TypeOK /\ StateTyped /\ TickTyped /\ Accounted /\ Observed
  BY DEF Base, TypeOK
<1>2. t.pc = "phases"
  BY StepOfEffect
<1>3. n \in t.ready => n \in t.awake \/ n \in t.ours
  BY <1>2 DEF Counted
<1> USE <1>1, <1>2, <1>3 DEF StateTyped
<1>4. CASE SkipNode(n)
  BY <1>4 DEF SkipNode, Waits, nodeVars
<1>5. CASE TakeOverReady(n)
  BY <1>5 DEF TakeOverReady
<1>6. CASE TakeOverBooting(n)
  BY <1>6 DEF TakeOverBooting, nodeVars
<1>7. CASE \/ VisitIsUndone(n) \/ VisitHolds(n) \/ VisitEnds(n)
           \/ SleepWaits(n) \/ SleepAbandoned(n) \/ ShutDown(n)
  BY <1>7, Zenon DEF VisitIsUndone, VisitHolds, VisitEnds, SleepWaits, SleepAbandoned,
                     ShutDown, Drains
<1>8. CASE WakeWaits(n)
  BY <1>8 DEF WakeWaits, Observed, nodeVars
<1>9. CASE WakeArrives(n)
  BY <1>9 DEF WakeArrives
<1>10. CASE WakeHasNoRoom(n)
  <2>1. Engaged /\ Cardinality(t.awake) >= t.limit /\ t.limit \in Nat
    BY <1>10 DEF WakeHasNoRoom, Engaged, TickTyped
  <2>2. Cardinality(t.awake) \in Nat /\ t.want \in Nat
    BY NodesAreFinite DEF TickTyped
  <2>3. t.known => t.want <= t.limit
    BY <2>1 DEF Limited
  <2>4. t.want > Cardinality(t.awake)
    BY DEF Short
  <2>5. ~ t.known
    BY <2>1, <2>2, <2>3, <2>4
  <2> QED
    BY <1>10, <2>5 DEF WakeHasNoRoom, nodeVars
<1>11. CASE SleepIsUndone(n)
  BY <1>11 DEF SleepIsUndone, nodeVars
<1>12. CASE Rescue(n)
  BY <1>12 DEF Rescue
<1>13. CASE ConfirmOff(n)
  BY <1>13 DEF ConfirmOff, IsDown, nodeVars
<1> QED
  BY <1>4, <1>5, <1>6, <1>7, <1>8, <1>9, <1>10, <1>11, <1>12, <1>13 DEF StepOf

\* What a tick knows of the nodes that were Ready when it looked.
LEMMA CountedNext ==
  ASSUME Base, Limited, Counted, [Next]_vars
  PROVE  Counted'
<1>1. TypeOK /\ StateTyped /\ TickTyped /\ Observed /\ Followed
  BY DEF Base, TypeOK
<1>2. CASE /\ t' = t /\ phase' = phase
           /\ \A n \in Node : cord'[n] = "none" => cord[n] = "none"
  BY <1>1, <1>2 DEF Counted, Short, TickTyped
<1>3. ASSUME NEW reading \in Readings, BeginTick(reading) PROVE Counted'
  BY <1>3, BeginTickEffect DEF Counted
<1>4. ASSUME NEW failing \in Failing, Shed(failing) PROVE Counted'
  <2>1. PICK begun \in SUBSET Node :
          /\ cord' = [n \in Node |-> IF n \in begun THEN "ours" ELSE cord[n]]
          /\ t.pc = "shed" /\ t'.pc = "demand" /\ t'.ready = t.ready
          /\ t'.awake = t.awake \ begun /\ t'.ours = t.ours \cup begun
    BY <1>1, <1>4, ShedEffect, Zenon
  <2> QED
    BY <1>1, <2>1 DEF Counted, TickTyped
<1>5. ASSUME NEW u \in Saturations, NEW f \in Fits, NEW k \in BOOLEAN, ReadDemand(u, f, k) PROVE Counted'
  <2>1. /\ t'.pc = "phases" /\ t'.ready = t.ready /\ t'.ours = t.ours
        /\ t'.awake = t.awake /\ t'.flight = t'.todo /\ cord' = cord
        /\ t.pc = "demand"
    BY <1>1, <1>5, ReadDemandEffect
  <2> QED
    BY <2>1 DEF Counted
<1>6. CASE DemandUnknown /\ Engaged
  <2>1. /\ t'.pc = "phases" /\ t'.ready = t.ready /\ t'.ours = t.ours
        /\ t'.awake = t.awake /\ t'.known = FALSE /\ cord' = cord
        /\ t.pc = "demand"
    BY <1>1, <1>6, DemandUnknownEffect
  <2> QED
    BY <2>1 DEF Counted
<1>7. ASSUME NEW n \in Node, StepOf(n) PROVE Counted'
  <2>1. /\ t.pc = "phases" /\ n \in t.todo
        /\ \A m \in Node \ {n} : phase'[m] = phase[m] /\ cord'[m] = cord[m]
    BY <1>7, StepOfEffect
  <2>2. /\ t'.pc = t.pc /\ t'.ready = t.ready /\ t'.ours = t.ours
        /\ t'.flight = t.flight /\ t'.begun = t.begun /\ t'.want = t.want
        /\ t'.known = t.known /\ t'.todo = t.todo \ {n}
        /\ t' = Joins(n) => n \in t'.awake
        /\ t'.awake \subseteq t.awake \cup {n} /\ t.awake \subseteq t'.awake
    BY <1>1, <1>7, StepOfEffect, TurnEffect
  <2>3. Short' => Short
    <3>1. t'.awake \subseteq Node
      BY <1>1, <2>2 DEF TickTyped
    <3>2. /\ Cardinality(t.awake) <= Cardinality(t'.awake)
          /\ Cardinality(t.awake) \in Nat /\ Cardinality(t'.awake) \in Nat
      BY <2>2, <3>1, NodesAreFinite, FS_Subset
    <3>3. t.want \in Nat
      BY <1>1 DEF TickTyped
    <3> QED
      BY <2>2, <3>2, <3>3 DEF Short
  <2>4. Short => /\ n \in t.ready \ t.begun /\ t.known =>
                      n \in t'.awake \/ phase'[n] = "powering_off"
                 /\ cord'[n] = "none" => cord[n] = "none" \/ n \in t'.awake
    BY <1>7, <2>2, TurnInDemand
  <2>5. t.ready \subseteq Node /\ t.ours \subseteq Node
    BY <1>1 DEF TickTyped
  <2> HIDE DEF Short
  <2> QED
    BY <2>1, <2>2, <2>3, <2>4, <2>5 DEF Counted
<1>8. CASE t'.pc \in {"between", "visit"}
  BY <1>8 DEF Counted
<1> QED
  BY <1>2, <1>3, <1>4, <1>5, <1>6, <1>7, <1>8, StepKinds, Zenon

-----------------------------------------------------------------------------
\* Where headroom was read and no ceiling caps it, its floor is kept.
LEMMA FloorIsKept ==
  ASSUME TypeOK, NEW u \in Saturations, NEW f, ~ Engaged, NEW h,
         h = HeadroomFloor(Load, Capacity, t.awake, t.awake \ InUse, Resource, HeadroomPct)
  PROVE  /\ h \in {0, Cardinality(t.awake), Cardinality(t.awake) + 1}
         /\ Clamped(Guarded(u, f), TRUE) \in Nat
         /\ Clamped(Guarded(u, f), TRUE) >= Least(N, h)
<1> DEFINE c == Cardinality(t.awake)
           w == Guarded(u, f)
<1>1. h \in {0, c, c + 1}
  BY Zenon DEF HeadroomFloor
<1>2. c \in Nat
  <2>1. t.awake \subseteq Node
    BY DEF TypeOK, TickTyped
  <2> QED
    BY <2>1, NodesAreFinite
<1>3. w \in Nat
  BY WantTyped
<1>4. Clamped(w, TRUE) = Greatest(w, Least(N, h))
  BY DEF Clamped, Floor
<1> HIDE DEF c, w
<1>5. Greatest(w, Least(N, h)) \in Nat /\ Greatest(w, Least(N, h)) >= Least(N, h)
  BY <1>1, <1>2, <1>3 DEF Greatest, Least
<1> QED
  BY <1>1, <1>4, <1>5, Zenon DEF c, w

\* What the nodes in service carry is what the nodes in use do.
LEMMA LoadRead ==
  ASSUME TypeOK, t.asked = {}, NEW r \in Resource
  PROVE  Total(Load, t.awake, r) = Cardinality(InUse) * JobSize[r]
<1> DEFINE B == {m \in Node : busy[m]}
           c == JobSize[r]
<1>1. t.awake \subseteq Node /\ IsFiniteSet(t.awake)
  BY NodesAreFinite DEF TypeOK, TickTyped
<1>2. t.awake \cap B = InUse
  BY <1>1 DEF InUse
<1>3. /\ \A m \in t.awake \cap B : Load[m][r] = c
      /\ \A m \in t.awake \ B : Load[m][r] = 0
  BY <1>1 DEF Load
<1>4. c \in Nat
  BY ResourceAssumption DEF Resource
<1> HIDE DEF B, c
<1>5. Total(Load, t.awake, r) = Shares(t.awake \cap B, c)
  BY <1>1, <1>3, <1>4, TotalCounts
<1> QED
  BY <1>2, <1>5 DEF c, Shares

\* A full pool asks for one more node, one that is not wanted whole can spare any
\* idle one.
LEMMA RoomyRead ==
  ASSUME Base, Limited, Counted, NEW u \in Saturations, NEW f, NEW k \in BOOLEAN,
         ReadDemand(u, f, k)
  PROVE  Roomy'
<1> DEFINE h == HeadroomFloor(Load, Capacity, t.awake, t.awake \ InUse, Resource, HeadroomPct)
           c == Cardinality(t.awake)
           w == Clamped(Guarded(u, f), TRUE)
<1>1. TypeOK /\ TickTyped /\ Followed
  BY DEF Base, TypeOK
<1>2. /\ t.pc = "demand" /\ t'.awake = t.awake /\ t'.limit = t.limit
      /\ t'.ready = t.ready /\ t'.ours = t.ours /\ t'.measured = k
      /\ t'.inUse = InUse /\ t'.want = Clamped(Guarded(u, f), k)
  BY <1>1, ReadDemandEffect
<1>3. t.ready \ t.ours = t.awake
  BY <1>1, <1>2 DEF Followed, Counted
<1>4. SUFFICES ASSUME ~ Engaged, HeadroomPct > 0, k
               PROVE  Roomy'
  BY <1>2 DEF Roomy, Engaged
<1>5. t'.want = w
  BY <1>2, <1>4
<1>6. /\ t.awake \subseteq Node /\ IsFiniteSet(t.awake)
      /\ t.awake \ InUse \in SUBSET t.awake
  BY <1>1, NodesAreFinite DEF TickTyped
<1>7. /\ \A q \in Resource : JobSize[q] \in Nat
      /\ \A m \in t.awake, q \in Resource : Capacity[m][q] \in Nat /\ Load[m][q] \in Nat
  BY <1>6, ResourceAssumption DEF Resource, Load
<1>8. HeadroomPct \in 1 .. 100
  BY <1>4, ResourceAssumption
<1>9. \A r \in Resource : Total(Load, t.awake, r) = Cardinality(InUse) * JobSize[r]
  BY <1>1, <1>2, <1>4, LoadRead DEF Limited
<1>10. h \in {0, c, c + 1} /\ w \in Nat /\ w >= Least(N, h)
  BY <1>1, <1>4, FloorIsKept
<1>11. c \in Nat /\ c <= N
  BY <1>6, NodesAreFinite, FS_Subset
<1> HIDE DEF w, c
<1>12. ASSUME NEW r \in Resource, Total(Capacity, t.awake, r) > 0,
              Full(Cardinality(InUse) * JobSize[r], Total(Capacity, t.awake, r), HeadroomPct)
       PROVE  w >= Least(N, c + 1)
  <2>1. Full(Total(Load, t.awake, r), Total(Capacity, t.awake, r), HeadroomPct)
    BY <1>9, <1>12
  <2>2. HeadroomPct # 0
    BY <1>8
  <2>3. h = c + 1
    BY <1>12, <2>1, <2>2, Zenon DEF HeadroomFloor, c
  <2> QED
    BY <1>10, <2>3
<1>13. ASSUME w < c, NEW n \in t.awake \ InUse, NEW r \in Resource,
              Total(Capacity, t.awake \ {n}, r) > 0
       PROVE  ~ Full(Cardinality(InUse) * JobSize[r],
                     Total(Capacity, t.awake \ {n}, r), HeadroomPct)
  <2>1. h = 0
    <3> HIDE DEF h
    <3> QED
      BY <1>10, <1>11, <1>13, SizeAssumption DEF Least
  <2>2. ~ Full(Total(Load, t.awake, r), Total(Capacity, t.awake \ {n}, r), HeadroomPct)
    BY <1>6, <1>7, <1>8, <1>13, <2>1, NoOpinionLeavesRoom
  <2> QED
    BY <1>9, <2>2
<1>14. AtThreshold(Looked)' => t'.want >= Least(N, Cardinality(Looked') + 1)
  <2>1. Looked' = t.awake
    BY <1>2, <1>3 DEF Looked
  <2> QED
    BY <1>2, <1>5, <1>12, <2>1 DEF AtThreshold, c
<1>15. t'.want < Cardinality(t'.awake) => \A n \in t'.awake \ t'.inUse : LeavesRoom(n)'
  BY <1>2, <1>5, <1>13 DEF LeavesRoom, AtThreshold, c
<1> QED
  BY <1>14, <1>15 DEF Roomy

\* Nothing later in the tick takes that back: who joins was not looked at.
LEMMA RoomyNext ==
  ASSUME Base, Limited, Counted, Roomy, [Next]_vars
  PROVE  Roomy'
<1>1. TypeOK /\ TickTyped
  BY DEF Base, TypeOK
<1>2. CASE t' = t
  BY <1>2, Zenon DEF Roomy, LeavesRoom, AtThreshold, Looked, Engaged
<1>3. ASSUME NEW reading \in Readings, BeginTick(reading) PROVE Roomy'
  BY <1>3, BeginTickEffect DEF Roomy
<1>4. ASSUME NEW failing \in Failing, Shed(failing) PROVE Roomy'
  <2>1. t'.pc = "demand"
    BY <1>1, <1>4, ShedEffect DEF Base
  <2> QED
    BY <2>1 DEF Roomy
<1>5. ASSUME NEW u \in Saturations, NEW f \in Fits, NEW k \in BOOLEAN, ReadDemand(u, f, k)
      PROVE  Roomy'
  BY <1>5, RoomyRead
<1>6. CASE DemandUnknown /\ Engaged
  BY <1>1, <1>6, DemandUnknownEffect DEF Roomy
<1>7. ASSUME NEW n \in Node, StepOf(n) PROVE Roomy'
  <2>1. /\ t'.pc = t.pc /\ t'.limit = t.limit /\ t'.want = t.want
        /\ t'.known = t.known /\ t'.inUse = t.inUse /\ t'.measured = t.measured
        /\ t'.ready = t.ready /\ t'.ours = t.ours /\ t.awake \subseteq t'.awake
    BY <1>1, <1>7, StepOfEffect, TurnEffect
  <2>2. UNCHANGED Looked /\ (AtThreshold(Looked)' <=> AtThreshold(Looked))
    BY <2>1, Zenon DEF Looked, AtThreshold
  <2>3. CASE t'.awake = t.awake
    BY <2>1, <2>2, <2>3, Zenon DEF Roomy, LeavesRoom, AtThreshold, Engaged
  <2>4. CASE t'.awake # t.awake
    <3>1. t.pc = "phases" => Looked \subseteq t.awake
      BY DEF Counted, Looked
    <3>2. t.pc = "phases" => t'.awake # Looked'
      BY <2>1, <2>2, <2>4, <3>1
    <3> QED
      BY <2>1, <2>2, <3>2, Zenon DEF Roomy, Engaged
  <2> QED
    BY <2>3, <2>4
<1>8. CASE t'.pc \in {"between", "visit"}
  BY <1>8 DEF Roomy
<1> QED
  BY <1>2, <1>3, <1>4, <1>5, <1>6, <1>7, <1>8, StepKinds, Zenon

-----------------------------------------------------------------------------
\* Jobs are placed and finished, and lost with a node that is shut down: their
\* number grows only as they arrive.
LEMMA JobsNext ==
  ASSUME Base, pending + Cardinality({n \in Node : busy[n]}) <= MaxJobs, [Next]_vars
  PROVE  pending' + Cardinality({n \in Node : busy'[n]}) <= MaxJobs
<1> DEFINE B == {n \in Node : busy[n]}
           C == {n \in Node : busy'[n]}
<1>1. StateTyped /\ pending \in Nat
  BY DEF Base, TypeOK, StateTyped
<1>2. /\ IsFiniteSet(B) /\ Cardinality(B) \in Nat
      /\ IsFiniteSet(C) /\ Cardinality(C) \in Nat
  BY NodesAreFinite
<1>3. CASE pending' = pending /\ C \subseteq B
  <2>1. Cardinality(C) <= Cardinality(B)
    BY <1>2, <1>3, FS_Subset
  <2> HIDE DEF B, C
  <2> QED
    BY <1>1, <1>2, <1>3, <2>1, SizeAssumption DEF B, C
<1>4. CASE Arrive
  <2>1. pending + Cardinality(B) < MaxJobs /\ pending' = pending + 1 /\ C = B
    BY <1>4 DEF Arrive
  <2> HIDE DEF B, C
  <2>2. pending' + Cardinality(C) <= MaxJobs
    BY <1>1, <1>2, <2>1, SizeAssumption
  <2> QED
    BY <2>2 DEF C
<1>5. ASSUME NEW n \in Node, Place(n) PROVE pending' + Cardinality(C) <= MaxJobs
  <2>1. pending > 0 /\ pending' = pending - 1 /\ n \notin B /\ C = B \cup {n}
    BY <1>1, <1>5 DEF Place, StateTyped
  <2>2. Cardinality(B \cup {n}) = Cardinality(B) + 1
    BY <1>2, <2>1, FS_AddElement
  <2>3. pending + Cardinality(B) <= MaxJobs
    OBVIOUS
  <2> HIDE DEF B, C
  <2> QED
    BY <1>1, <1>2, <2>1, <2>2, <2>3, SizeAssumption
<1>6. ASSUME NEW n \in Node,
             Finish(n) \/ BootDone(n) \/ HaltDone(n) \/ OperatorUncordons(n)
      PROVE  pending' = pending /\ C \subseteq B
  BY <1>1, <1>6 DEF Finish, BootDone, HaltDone, OperatorUncordons, envVars, StateTyped
<1>7. ASSUME NEW n \in Node, StepOf(n) \/ Decision(n)
      PROVE  pending' = pending /\ busy' = busy
  <2>1. CASE StepOf(n)
    BY <2>1, StepOfEffect
  <2>2. CASE Decision(n)
    BY <2>2, Zenon DEF Decision, RepairUp, RepairDown, BeginWake, BeginSleep, BeginVisit,
                       envVars
  <2> QED
    BY <1>7, <2>1, <2>2
<1>8. ASSUME NEW r, NEW f, NEW u, NEW g, NEW k,
             BeginTick(r) \/ Shed(f) \/ ReadDemand(u, g, k) \/ DemandUnknown
               \/ TickCutShort \/ HoldWake \/ HoldSleep \/ DemandMet \/ NoVisit
               \/ Restart \/ UNCHANGED vars
      PROVE  pending' = pending /\ busy' = busy
  BY <1>8, Zenon DEF BeginTick, Shed, ReadDemand, DemandUnknown, TickCutShort,
                     HoldWake, HoldSleep, DemandMet, NoVisit, Restart, vars, envVars
<1>9. CASE pending' = pending /\ busy' = busy
  BY <1>3, <1>9
<1> HIDE DEF B, C
<1>10. pending' + Cardinality(C) <= MaxJobs
  BY <1>3, <1>4, <1>5, <1>6, <1>7, <1>8, <1>9 DEF C, Next, Tick, Environment
<1> QED
  BY <1>10 DEF C

\* No more nodes are wanted than there are jobs, or than are awake.
LEMMA DemandedRead ==
  ASSUME TypeOK, Limited, NEW u \in Saturations, NEW f, NEW k \in BOOLEAN,
         ~ Engaged, OneToANode,
         t.pc = "demand", pending + Cardinality({n \in Node : busy[n]}) <= MaxJobs
  PROVE  \/ Clamped(Guarded(u, f), k) <= MaxJobs
         \/ Clamped(Guarded(u, f), k) <= Cardinality(t.awake)
<1> DEFINE B == {n \in Node : busy[n]}
           b == Backlog
           i == Cardinality(InUse)
           a == Cardinality(t.awake)
           w == Guarded(u, f)
<1>1. pending \in Nat /\ t.awake \subseteq Node
  BY DEF TypeOK, StateTyped, TickTyped
<1>2. u = 0
  BY DEF OneToANode
<1>3. Clamped(w, k) = Greatest(w, 0)
  <2>1. HeadroomFloor(Load, Capacity, t.awake, t.awake \ InUse, Resource, HeadroomPct) = 0
    BY DEF HeadroomFloor, OneToANode
  <2>2. Least(N, 0) = 0
    BY SizeAssumption DEF Least
  <2>3. Floor(k) = 0
    BY <2>1, <2>2, Zenon DEF Floor
  <2> QED
    BY <2>3, Zenon DEF Clamped
<1>4. b \in Nat /\ b <= pending
  <2>1. ASSUME NEW r \in Resource, NodeCapacity(r, Node, Capacity, Default) > 0
        PROVE  pending * NodeCapacity(r, Node, Capacity, Default) >= pending * JobSize[r]
    <3> DEFINE one == NodeCapacity(r, Node, Capacity, Default)
               j == JobSize[r]
    <3>1. one \in Nat /\ j \in Nat
      BY CapacityTyped, ResourceAssumption DEF Resource
    <3>2. j = 0 \/ one = 0 \/ j <= one
      BY Zenon DEF OneToANode
    <3>3. one > 0
      BY <2>1
    <3> HIDE DEF one, j
    <3>4. j <= one
      BY <3>1, <3>2, <3>3
    <3>5. pending * one >= pending * j
      BY <1>1, <3>1, <3>4
    <3> QED
      BY <3>5 DEF one, j
  <2>2. pending >= Backlog
    BY <1>1, <2>1, BacklogTyped
  <2> QED
    BY <1>1, <2>2, BacklogTyped
<1>5. /\ i \in Nat /\ a \in Nat /\ i <= a /\ i <= Cardinality(B)
      /\ Cardinality(B) \in Nat
  <2>1. t.asked = {}
    BY DEF Limited
  <2>2. InUse \subseteq B /\ InUse \subseteq t.awake /\ B \subseteq Node
    BY <1>1, <2>1 DEF InUse
  <2> HIDE DEF B
  <2>3. /\ IsFiniteSet(B) /\ Cardinality(B) \in Nat
        /\ IsFiniteSet(t.awake) /\ a \in Nat
    BY <1>1, <2>2, NodesAreFinite
  <2> QED
    BY <2>2, <2>3, FS_Subset, FS_CardinalityType
<1>6. w \in {Least(N, Greatest(i + b, u)), i, a}
  BY Zenon DEF Guarded, Unguarded
<1>7. pending + Cardinality(B) <= MaxJobs
  OBVIOUS
<1> HIDE DEF B, b, i, a, w
<1>8. Least(N, Greatest(i + b, u)) <= MaxJobs /\ i <= a
  BY <1>1, <1>2, <1>4, <1>5, <1>7, SizeAssumption DEF Least, Greatest
<1>9. Clamped(w, k) <= MaxJobs \/ Clamped(w, k) <= a
  BY <1>2, <1>3, <1>4, <1>5, <1>6, <1>8, SizeAssumption DEF Least, Greatest
<1> QED
  BY <1>9 DEF w, a

\* The same to the end of the tick: more nodes may join, none is wanted on top.
LEMMA DemandedNext ==
  ASSUME Base, Limited, Demanded, [Next]_vars
  PROVE  Demanded'
<1>1. TypeOK /\ TickTyped
  BY DEF Base, TypeOK
<1>2. pending' + Cardinality({n \in Node : busy'[n]}) <= MaxJobs
  BY JobsNext DEF Demanded
<1> DEFINE Wanted == OneToANode /\ t.pc = "phases" /\ t.known /\ ~Engaged
                       => t.want <= MaxJobs \/ t.want <= Cardinality(t.awake)
<1>3. Wanted
  BY DEF Demanded
<1>4. SUFFICES Wanted'
  BY <1>2 DEF Demanded
<1>5. CASE t' = t
  BY <1>3, <1>5, Zenon DEF Engaged
<1>6. ASSUME NEW reading \in Readings, BeginTick(reading) PROVE Wanted'
  BY <1>6, BeginTickEffect
<1>7. ASSUME NEW failing \in Failing, Shed(failing) PROVE Wanted'
  BY <1>1, <1>7, ShedEffect DEF Base
<1>8. ASSUME NEW u \in Saturations, NEW f \in Fits, NEW k \in BOOLEAN, ReadDemand(u, f, k) PROVE Wanted'
  <2>1. /\ t.pc = "demand" /\ t'.awake = t.awake /\ t'.limit = t.limit
        /\ t'.want = Clamped(Guarded(u, f), k)
    BY <1>1, <1>8, ReadDemandEffect
  <2> QED
    BY <1>1, <2>1, DemandedRead DEF Demanded, Engaged
<1>9. CASE DemandUnknown /\ Engaged
  BY <1>1, <1>9, DemandUnknownEffect
<1>10. ASSUME NEW n \in Node, StepOf(n) PROVE Wanted'
  <2>1. /\ t'.pc = t.pc /\ t'.limit = t.limit /\ t'.want = t.want
        /\ t'.known = t.known /\ t.awake \subseteq t'.awake
        /\ t'.awake \subseteq t.awake \cup {n}
    BY <1>1, <1>10, StepOfEffect, TurnEffect
  <2>2. t'.awake \subseteq Node
    BY <1>1, <2>1 DEF TickTyped
  <2>3. /\ Cardinality(t.awake) <= Cardinality(t'.awake)
        /\ Cardinality(t.awake) \in Nat /\ Cardinality(t'.awake) \in Nat
    BY <2>1, <2>2, NodesAreFinite, FS_Subset
  <2>4. t.want \in Nat
    BY <1>1 DEF TickTyped
  <2> QED
    BY <1>3, <2>1, <2>3, <2>4 DEF Engaged
<1>11. CASE t'.pc \in {"between", "visit"}
  BY <1>11
<1> HIDE DEF Wanted
<1> QED
  BY <1>5, <1>6, <1>7, <1>8, <1>9, <1>10, <1>11, StepKinds, Zenon

-----------------------------------------------------------------------------
\* The decisions and a restart end what a tick may do with its operations; each
\* decision is about one node.
LEMMA DecisionEffect ==
  ASSUME Base, NEW n \in Node, Decision(n)
  PROVE  /\ t'.pc \in {"between", "visit"} /\ t.pc # "between"
         /\ t' = NoTick \/ (t'.ready = t.ready /\ t'.ours = t.ours)
         /\ phase[n] = "none"
         /\ \A m \in Node \ {n} : /\ phase'[m] = phase[m] /\ booting'[m] = booting[m]
                                  /\ mach'[m] = mach[m] /\ cord'[m] = cord[m]
<1>1. TypeOK /\ StateTyped /\ TickTyped /\ Followed
  BY DEF Base, TypeOK
<1>2. t' = NoTick \/ ToVisits
  BY Zenon DEF Decision, RepairUp, RepairDown, BeginWake, BeginSleep, BeginVisit, TickEnds
<1>3. /\ t'.pc \in {"between", "visit"}
      /\ t' = NoTick \/ (t'.ready = t.ready /\ t'.ours = t.ours)
  BY <1>1, <1>2, BetweenTicks, ToVisitsEffect
<1>4. t.pc # "between"
  BY Zenon DEF Decision, RepairUp, RepairDown, BeginWake, BeginSleep, BeginVisit,
               WantMore, WantLess, Decides, Deciding
<1>5. phase[n] = "none"
  BY <1>1 DEF Decision, RepairUp, RepairDown, BeginWake, BeginSleep, BeginVisit, MayVisit,
              WantMore, WantLess, Decides, Deciding, Stranded, Candidate, InFlight, Followed
<1>6. \A m \in Node \ {n} : /\ phase'[m] = phase[m] /\ booting'[m] = booting[m]
                            /\ mach'[m] = mach[m] /\ cord'[m] = cord[m]
  BY <1>1 DEF Decision, RepairUp, RepairDown, BeginWake, BeginSleep, BeginVisit, Uncordon,
              StateTyped, envVars, nodeVars, memVars
<1> QED
  BY <1>3, <1>4, <1>5, <1>6

\* The other ends of a tick touch no node.
LEMMA TickEndsEffect ==
  ASSUME TickTyped, TickCutShort \/ HoldWake \/ HoldSleep \/ DemandMet \/ NoVisit
                      \/ (DemandUnknown /\ ~ Engaged)
  PROVE  /\ t'.pc \in {"between", "visit"} /\ t.pc # "between"
         /\ t' = NoTick \/ (t'.ready = t.ready /\ t'.ours = t.ours)
         /\ phase' = phase /\ booting' = booting /\ mach' = mach /\ cord' = cord
<1>1. t' = NoTick \/ ToVisits
  BY Zenon DEF TickCutShort, HoldWake, HoldSleep, DemandMet, NoVisit, DemandUnknown, TickEnds
<1>2. /\ t'.pc \in {"between", "visit"}
      /\ t' = NoTick \/ (t'.ready = t.ready /\ t'.ours = t.ours)
  BY <1>1, BetweenTicks, ToVisitsEffect
<1>3. /\ t.pc # "between"
      /\ phase' = phase /\ booting' = booting /\ mach' = mach /\ cord' = cord
  BY Zenon DEF TickCutShort, HoldWake, HoldSleep, DemandMet, NoVisit, DemandUnknown,
               WantMore, WantLess, Decides, Deciding, envVars, nodeVars, memVars
<1> QED
  BY <1>2, <1>3

\* What a visit, and a hold the tick saw, say of a node survives every step.
LEMMA HeldNext ==
  ASSUME Base, Held, [Next]_vars
  PROVE  Held'
<1>1. TypeOK /\ StateTyped /\ TickTyped /\ Accounted /\ Observed /\ Followed
  BY DEF Base, TypeOK
<1> USE DEF Held
<1>2. CASE Arrive \/ UNCHANGED vars
  BY <1>2 DEF Arrive, vars, envVars, nodeVars, memVars
<1>3. ASSUME NEW n \in Node, Environment(n) PROVE Held'
  <2>1. t' = t /\ phase' = phase
    BY <1>3, Zenon DEF Environment, Place, Finish, BootDone, HaltDone, OperatorUncordons,
                       memVars
  <2>2. CASE Place(n) \/ Finish(n)
    BY <2>1, <2>2 DEF Place, Finish, nodeVars
  <2>3. CASE BootDone(n)
    BY <1>1, <2>1, <2>3 DEF BootDone, nodeVars, StateTyped
  <2>4. CASE HaltDone(n)
    BY <1>1, <2>1, <2>4 DEF HaltDone, nodeVars, StateTyped, Accounted, Observed
  <2>5. CASE OperatorUncordons(n)
    BY <1>1, <2>1, <2>5 DEF OperatorUncordons, envVars, StateTyped
  <2> QED
    BY <1>3, <2>2, <2>3, <2>4, <2>5 DEF Environment
<1>4. CASE Restart
  <2>1. t'.pc = "between" /\ mach' = mach /\ cord' = cord
    BY <1>4, BetweenTicks DEF Restart, envVars, nodeVars
  <2>2. \A n \in Node : phase'[n] # "maintaining"
    BY <1>4 DEF Restart
  <2> QED
    BY <2>1, <2>2
<1>5. ASSUME NEW reading \in Readings, BeginTick(reading) PROVE Held'
  <2>1. /\ t'.ours = {n \in Node : cord[n] = "ours"}
        /\ cord' = [n \in Node |-> IF cord[n] = "ours" THEN "ours" ELSE "none"]
        /\ mach' = mach /\ phase' = phase
    BY <1>5, BeginTickEffect
  <2> QED
    BY <2>1
<1>6. ASSUME NEW failing \in Failing, Shed(failing) PROVE Held'
  <2>1. PICK begun \in SUBSET Node, missed \in SUBSET Node :
          /\ \A n \in begun \cup missed : n \in t.ready /\ mach[n] = "on"
          /\ phase' = [n \in Node |-> IF n \in begun THEN "sleeping"
                                      ELSE IF n \in missed THEN "none" ELSE phase[n]]
          /\ cord' = [n \in Node |-> IF n \in begun THEN "ours" ELSE cord[n]]
          /\ mach' = mach
          /\ t.pc = "shed" /\ t'.pc = "demand" /\ t'.ready = t.ready
          /\ t'.ours = t.ours \cup begun
    BY <1>1, <1>6, ShedEffect, Zenon
  <2> QED
    BY <2>1
<1>7. ASSUME NEW u \in Saturations, NEW f \in Fits, NEW k \in BOOLEAN, ReadDemand(u, f, k) PROVE Held'
  <2>1. /\ t'.pc = "phases" /\ t.pc = "demand" /\ t'.ready = t.ready
        /\ t'.ours = t.ours /\ cord' = cord /\ phase' = phase /\ mach' = mach
    BY <1>1, <1>7, ReadDemandEffect
  <2> QED
    BY <2>1
<1>8. CASE DemandUnknown /\ Engaged
  <2>1. /\ t'.pc = "phases" /\ t.pc = "demand" /\ t'.ready = t.ready
        /\ t'.ours = t.ours /\ cord' = cord /\ phase' = phase /\ mach' = mach
    BY <1>1, <1>8, DemandUnknownEffect
  <2> QED
    BY <2>1
<1>9. ASSUME NEW n \in Node, StepOf(n) PROVE Held'
  <2>1. /\ t.pc = "phases" /\ t'.pc = t.pc /\ t'.ready = t.ready /\ t'.ours = t.ours
        /\ \A m \in Node \ {n} : /\ phase'[m] = phase[m]
                                 /\ mach'[m] = mach[m] /\ cord'[m] = cord[m]
    BY <1>1, <1>9, StepOfEffect, TurnEffect
  <2>2. phase'[n] = "maintaining" => phase[n] = "maintaining" /\ cord'[n] = cord[n]
                                       /\ mach'[n] = mach[n]
    BY <1>1, <1>9 DEF StepOf, SkipNode, TakeOverReady, TakeOverBooting, VisitIsUndone,
                      VisitHolds, VisitEnds, WakeWaits, WakeArrives, WakeHasNoRoom,
                      SleepIsUndone, Rescue, SleepWaits, SleepAbandoned, ShutDown,
                      ConfirmOff, envVars, nodeVars, memVars, StateTyped,
                      Drains, Goes
  <2>3. \/ cord'[n] = cord[n] /\ mach'[n] = mach[n]
        \/ mach'[n] = "on" \/ n \in t.ready
    BY <1>1, <2>1, <1>9
    DEF StepOf, SkipNode, TakeOverReady, TakeOverBooting, VisitIsUndone,
        VisitHolds, VisitEnds, WakeWaits, WakeArrives, WakeHasNoRoom,
        SleepIsUndone, Rescue, SleepWaits, SleepAbandoned, ShutDown,
        ConfirmOff, envVars, nodeVars, StateTyped, Drains, Goes, Observed
  <2> QED
    BY <2>1, <2>2, <2>3
<1>10. ASSUME NEW n \in Node, Decision(n) PROVE Held'
  <2>1. /\ t'.pc \in {"between", "visit"} /\ t.pc # "between" /\ phase[n] = "none"
        /\ t' = NoTick \/ (t'.ready = t.ready /\ t'.ours = t.ours)
        /\ \A m \in Node \ {n} : /\ phase'[m] = phase[m]
                                 /\ mach'[m] = mach[m] /\ cord'[m] = cord[m]
    BY <1>10, DecisionEffect
  <2>2. phase'[n] = "maintaining" /\ cord'[n] # "ours" => mach'[n] = "on"
    BY <1>1, <1>10, <2>1
    DEF Decision, RepairUp, RepairDown, BeginWake, BeginSleep, BeginVisit,
        envVars, nodeVars, memVars, StateTyped
  <2>3. n \in t.ours \ t.ready /\ cord'[n] # "ours" => mach'[n] = "on"
    BY <1>1, <1>10, <2>1
    DEF Decision, RepairUp, RepairDown, BeginWake, BeginSleep, BeginVisit, Stranded,
        envVars, nodeVars, memVars, StateTyped, TickTyped
  <2> QED
    BY <2>1, <2>2, <2>3, BetweenTicks
<1>11. CASE TickCutShort \/ HoldWake \/ HoldSleep \/ DemandMet \/ NoVisit
              \/ (DemandUnknown /\ ~ Engaged)
  <2>1. /\ t'.pc \in {"between", "visit"} /\ t.pc # "between"
        /\ t' = NoTick \/ (t'.ready = t.ready /\ t'.ours = t.ours)
        /\ phase' = phase /\ mach' = mach /\ cord' = cord
    BY <1>1, <1>11, TickEndsEffect
  <2> QED
    BY <2>1, BetweenTicks
<1> HIDE DEF Held
<1> QED
  BY MeasuredOrNot, <1>2, <1>3, <1>4, <1>5, <1>6, <1>7, <1>8, <1>9, <1>10, <1>11, Zenon DEF Next, Tick

-----------------------------------------------------------------------------
\* Where no restart forgets it, a machine that boots without our cordon is in a
\* wake that expects it.
Boots ==
  \A n \in Node : mach[n] = "boot" /\ cord[n] # "ours"
                    => phase[n] = "waking" /\ booting[n]

LEMMA BootsNext ==
  ASSUME Base, Held, Boots, [Next]_vars, "restart" \notin Actors
  PROVE  Boots'
<1>1. TypeOK /\ StateTyped /\ TickTyped /\ Accounted /\ Observed /\ Followed
  BY DEF Base, TypeOK
<1> USE DEF Boots
<1>2. CASE Arrive \/ UNCHANGED vars
  BY <1>2 DEF Arrive, vars, envVars, nodeVars, memVars
<1>3. ASSUME NEW n \in Node, Environment(n) PROVE Boots'
  BY <1>1, <1>3 DEF Environment, Place, Finish, BootDone, HaltDone, OperatorUncordons,
                    envVars, nodeVars, memVars, StateTyped
<1>4. CASE Restart
  BY <1>4 DEF Restart
<1>5. ASSUME NEW reading \in Readings, BeginTick(reading) PROVE Boots'
  <2>1. /\ cord' = [n \in Node |-> IF cord[n] = "ours" THEN "ours" ELSE "none"]
        /\ mach' = mach /\ phase' = phase /\ booting' = booting
    BY <1>5, BeginTickEffect
  <2> QED
    BY <2>1
<1>6. ASSUME NEW failing \in Failing, Shed(failing) PROVE Boots'
  <2>1. PICK begun \in SUBSET Node, missed \in SUBSET Node :
          /\ \A n \in begun \cup missed : n \in t.ready /\ mach[n] = "on"
          /\ phase' = [n \in Node |-> IF n \in begun THEN "sleeping"
                                      ELSE IF n \in missed THEN "none" ELSE phase[n]]
          /\ cord' = [n \in Node |-> IF n \in begun THEN "ours" ELSE cord[n]]
          /\ \A n \in Node \ (begun \cup missed) : booting'[n] = booting[n]
          /\ mach' = mach
    BY <1>1, <1>6, ShedEffect, Zenon
  <2> QED
    BY <2>1
<1>7. ASSUME NEW u \in Saturations, NEW f \in Fits, NEW k \in BOOLEAN, ReadDemand(u, f, k) PROVE Boots'
  BY <1>1, <1>7, ReadDemandEffect
<1>8. CASE DemandUnknown \/ TickCutShort \/ HoldWake \/ HoldSleep \/ DemandMet \/ NoVisit
  <2>1. phase' = phase /\ booting' = booting /\ mach' = mach /\ cord' = cord
    BY <1>8, Zenon DEF DemandUnknown, TickCutShort, HoldWake, HoldSleep, DemandMet,
                       NoVisit, envVars, nodeVars, memVars
  <2> QED
    BY <2>1
<1>9. ASSUME NEW n \in Node, StepOf(n) PROVE Boots'
  <2>1. /\ t.pc = "phases"
        /\ \A m \in Node \ {n} : /\ phase'[m] = phase[m] /\ booting'[m] = booting[m]
                                 /\ mach'[m] = mach[m] /\ cord'[m] = cord[m]
    BY <1>9, StepOfEffect
  <2>2. mach'[n] = "boot" /\ cord'[n] # "ours" => phase'[n] = "waking" /\ booting'[n]
    BY <1>1, <2>1, <1>9
    DEF StepOf, SkipNode, TakeOverReady, TakeOverBooting, VisitIsUndone,
        VisitHolds, VisitEnds, WakeWaits, WakeArrives, WakeHasNoRoom,
        SleepIsUndone, Rescue, SleepWaits, SleepAbandoned, ShutDown, ConfirmOff,
        Uncordon, envVars, nodeVars, memVars, StateTyped, Drains, Goes, Accounted, Observed
  <2> QED
    BY <2>1, <2>2
<1>10. ASSUME NEW n \in Node, Decision(n) PROVE Boots'
  <2>1. /\ phase[n] = "none" /\ t.pc # "between"
        /\ \A m \in Node \ {n} : /\ phase'[m] = phase[m] /\ booting'[m] = booting[m]
                                 /\ mach'[m] = mach[m] /\ cord'[m] = cord[m]
    BY <1>10, DecisionEffect
  <2>2. mach'[n] = "boot" /\ cord'[n] # "ours" => phase'[n] = "waking" /\ booting'[n]
    <3>1. CASE RepairUp(n)
      <4>1. n \in t.ready /\ mach' = mach
        BY <3>1 DEF RepairUp, Stranded, envVars
      <4>2. mach[n] = "on"
        BY <1>1, <2>1, <4>1 DEF Observed
      <4> QED
        BY <4>1, <4>2
    <3>2. CASE RepairDown(n) \/ BeginSleep(n)
      BY <1>1, <3>2 DEF RepairDown, BeginSleep, StateTyped
    <3>3. CASE BeginWake(n)
      <4>1. /\ mach'[n] = (IF mach[n] = "off" THEN "boot" ELSE mach[n])
            /\ booting'[n] = (mach[n] = "off")
            /\ phase'[n] = "waking" /\ cord' = cord
        BY <1>1, <3>3 DEF BeginWake, StateTyped
      <4> QED
        BY <2>1, <4>1
    <3>4. CASE BeginVisit(n)
      <4>1. /\ n \in t.ours \ t.ready /\ cord' = cord
            /\ mach'[n] = (IF mach[n] = "off" THEN "boot" ELSE mach[n])
        BY <1>1, <3>4 DEF BeginVisit, nodeVars, StateTyped
      <4>2. cord[n] = "ours" \/ mach[n] = "on"
        BY <2>1, <4>1 DEF Held
      <4> QED
        BY <4>1, <4>2
    <3> QED
      BY <1>10, <3>1, <3>2, <3>3, <3>4 DEF Decision
  <2> QED
    BY <2>1, <2>2
<1> HIDE DEF Boots
<1> QED
  BY MeasuredOrNot, <1>2, <1>3, <1>4, <1>5, <1>6, <1>7, <1>8, <1>9, <1>10, Zenon DEF Next, Tick

\* Where nobody else uncordons a draining node, we hold every node that is not up.
WeHold ==
  \A n \in Node : /\ cord[n] # "ours" => mach[n] = "on"
                  /\ phase[n] = "sleeping" => cord[n] = "ours"

LEMMA WeHoldNext ==
  ASSUME Base, Held, WeHold, [Next]_vars, "operator" \notin Actors
  PROVE  WeHold'
<1>1. TypeOK /\ StateTyped /\ TickTyped /\ Accounted /\ Observed /\ Followed
  BY DEF Base, TypeOK
<1> USE DEF WeHold
<1>2. CASE Arrive \/ UNCHANGED vars
  BY <1>2 DEF Arrive, vars, envVars, nodeVars, memVars
<1>3. ASSUME NEW n \in Node, Environment(n) PROVE WeHold'
  BY <1>1, <1>3 DEF Environment, Place, Finish, BootDone, HaltDone, OperatorUncordons,
                    envVars, nodeVars, memVars, StateTyped
<1>4. CASE Restart
  <2>1. mach' = mach /\ cord' = cord
    BY <1>4 DEF Restart, envVars, nodeVars
  <2>2. \A n \in Node : phase'[n] # "sleeping"
    BY <1>4 DEF Restart
  <2> QED
    BY <2>1, <2>2
<1>5. ASSUME NEW reading \in Readings, BeginTick(reading) PROVE WeHold'
  <2>1. /\ cord' = [n \in Node |-> IF cord[n] = "ours" THEN "ours" ELSE "none"]
        /\ mach' = mach /\ phase' = phase
    BY <1>5, BeginTickEffect
  <2> QED
    BY <2>1
<1>6. ASSUME NEW failing \in Failing, Shed(failing) PROVE WeHold'
  <2>1. PICK begun \in SUBSET Node, missed \in SUBSET Node :
          /\ \A n \in begun \cup missed : n \in t.ready /\ mach[n] = "on"
          /\ phase' = [n \in Node |-> IF n \in begun THEN "sleeping"
                                      ELSE IF n \in missed THEN "none" ELSE phase[n]]
          /\ cord' = [n \in Node |-> IF n \in begun THEN "ours" ELSE cord[n]]
          /\ mach' = mach
    BY <1>1, <1>6, ShedEffect, Zenon
  <2> QED
    BY <2>1
<1>7. ASSUME NEW u \in Saturations, NEW f \in Fits, NEW k \in BOOLEAN, ReadDemand(u, f, k) PROVE WeHold'
  BY <1>1, <1>7, ReadDemandEffect
<1>8. CASE DemandUnknown \/ TickCutShort \/ HoldWake \/ HoldSleep \/ DemandMet \/ NoVisit
  <2>1. phase' = phase /\ mach' = mach /\ cord' = cord
    BY <1>8, Zenon DEF DemandUnknown, TickCutShort, HoldWake, HoldSleep, DemandMet,
                       NoVisit, envVars, nodeVars, memVars
  <2> QED
    BY <2>1
<1>9. ASSUME NEW n \in Node, StepOf(n) PROVE WeHold'
  <2>1. /\ t.pc = "phases"
        /\ \A m \in Node \ {n} : /\ phase'[m] = phase[m] /\ booting'[m] = booting[m]
                                 /\ mach'[m] = mach[m] /\ cord'[m] = cord[m]
    BY <1>9, StepOfEffect
  <2>2. /\ cord'[n] # "ours" => mach'[n] = "on"
        /\ phase'[n] = "sleeping" => cord'[n] = "ours"
    BY <1>1, <2>1, <1>9
    DEF StepOf, SkipNode, TakeOverReady, TakeOverBooting, VisitIsUndone,
        VisitHolds, VisitEnds, WakeWaits, WakeArrives, WakeHasNoRoom,
        SleepIsUndone, Rescue, SleepWaits, SleepAbandoned, ShutDown, ConfirmOff,
        Uncordon, envVars, nodeVars, memVars, StateTyped, Drains, Goes, Observed, Held
  <2> QED
    BY <2>1, <2>2
<1>10. ASSUME NEW n \in Node, Decision(n) PROVE WeHold'
  <2>1. /\ phase[n] = "none" /\ t.pc # "between"
        /\ \A m \in Node \ {n} : /\ phase'[m] = phase[m] /\ booting'[m] = booting[m]
                                 /\ mach'[m] = mach[m] /\ cord'[m] = cord[m]
    BY <1>10, DecisionEffect
  <2>2. /\ cord'[n] # "ours" => mach'[n] = "on"
        /\ phase'[n] = "sleeping" => cord'[n] = "ours"
    BY <1>1, <1>10, <2>1
    DEF Decision, RepairUp, RepairDown, BeginWake, BeginSleep, BeginVisit, Stranded, Uncordon,
        Observed, envVars, nodeVars, memVars, StateTyped, TickTyped
  <2> QED
    BY <2>1, <2>2
<1> HIDE DEF WeHold
<1> QED
  BY MeasuredOrNot, <1>2, <1>3, <1>4, <1>5, <1>6, <1>7, <1>8, <1>9, <1>10, Zenon DEF Next, Tick

\* A machine that came up after the tick looked is in service or on its way.
Known ==
  t.pc \in {"demand", "phases"} /\ ~Engaged =>
    \A n \in Node \ t.ready :
      mach[n] = "on" /\ cord[n] = "none"
        => n \in t.awake \/ (phase[n] = "waking" /\ booting[n])

LEMMA KnownNext ==
  ASSUME Base, Limited, Known, [Next]_vars,
         (Boots /\ "restart" \notin Actors) \/ (WeHold /\ "operator" \notin Actors)
  PROVE  Known'
<1>1. TypeOK /\ StateTyped /\ TickTyped /\ Accounted /\ Observed /\ Followed
  BY DEF Base, TypeOK
<1> USE DEF Known
<1>2. CASE Arrive \/ UNCHANGED vars
  BY <1>2 DEF Arrive, vars, envVars, nodeVars, memVars, Engaged
<1>3. ASSUME NEW n \in Node, Environment(n) PROVE Known'
  <2>1. t' = t /\ phase' = phase /\ booting' = booting
    BY <1>3, Zenon DEF Environment, Place, Finish, BootDone, HaltDone, OperatorUncordons,
                       memVars
  <2>2. \A m \in Node : mach'[m] = "on" /\ cord'[m] = "none" =>
          cord[m] = "none" /\ (mach[m] = "on" \/ (phase[m] = "waking" /\ booting[m]))
    BY <1>1, <1>3 DEF Environment, Place, Finish, BootDone, HaltDone, OperatorUncordons,
                      envVars, nodeVars, StateTyped, Boots, WeHold
  <2> QED
    BY <2>1, <2>2 DEF Engaged
<1>4. ASSUME NEW reading \in Readings, BeginTick(reading) PROVE Known'
  <2>1. /\ t'.ready = {n \in Node : mach[n] \in {"on", "stopping"}} /\ mach' = mach
    BY <1>4, BeginTickEffect
  <2> QED
    BY <2>1
<1>5. ASSUME NEW failing \in Failing, Shed(failing) PROVE Known'
  <2>1. t.pc = "shed" /\ t'.limit = t.limit
    BY <1>1, <1>5, ShedEffect
  <2> QED
    BY <2>1 DEF Limited, Engaged
<1>6. ASSUME NEW u \in Saturations, NEW f \in Fits, NEW k \in BOOLEAN, ReadDemand(u, f, k) PROVE Known'
  BY <1>1, <1>6, ReadDemandEffect DEF Engaged
<1>7. CASE DemandUnknown /\ Engaged
  BY <1>1, <1>7, DemandUnknownEffect DEF Engaged
<1>8. ASSUME NEW n \in Node, StepOf(n) PROVE Known'
  <2>1. /\ t.pc = "phases" /\ t'.pc = t.pc /\ t'.limit = t.limit
        /\ t'.ready = t.ready /\ t.awake \subseteq t'.awake
        /\ t' = Joins(n) => n \in t'.awake
        /\ \A m \in Node \ {n} : /\ phase'[m] = phase[m] /\ booting'[m] = booting[m]
                                 /\ mach'[m] = mach[m] /\ cord'[m] = cord[m]
    BY <1>1, <1>8, StepOfEffect, TurnEffect
  <2>2. ASSUME ~ Engaged, n \notin t.ready, mach'[n] = "on", cord'[n] = "none"
        PROVE  n \in t'.awake \/ (phase'[n] = "waking" /\ booting'[n])
    <3>1. CASE t' = Joins(n)
      BY <2>1, <3>1
    <3>2. CASE SkipNode(n) \/ TakeOverBooting(n) \/ VisitHolds(n)
      BY <1>1, <2>1, <2>2, <3>2
      DEF SkipNode, TakeOverBooting, VisitHolds, envVars, nodeVars, memVars, StateTyped
    <3>3. CASE \/ SleepIsUndone(n) \/ SleepWaits(n) \/ SleepAbandoned(n) \/ ShutDown(n)
               \/ WakeWaits(n) \/ ConfirmOff(n) \/ WakeHasNoRoom(n)
               \/ VisitIsUndone(n) \/ VisitEnds(n)
      BY <1>1, <2>1, <2>2, <3>3
      DEF SleepIsUndone, SleepWaits, SleepAbandoned, ShutDown, WakeWaits, ConfirmOff,
          WakeHasNoRoom, VisitIsUndone, VisitEnds, Drains, Accounted, Observed, envVars
    <3>4. CASE TakeOverReady(n) \/ WakeArrives(n) \/ Rescue(n)
      BY <3>1, <3>4, Zenon DEF TakeOverReady, WakeArrives, Rescue
    <3> QED
      BY <1>8, <3>2, <3>3, <3>4 DEF StepOf
  <2> QED
    BY <2>1, <2>2 DEF Engaged
<1>9. CASE t'.pc \in {"between", "visit"}
  BY <1>9
<1>10. CASE TickCutShort \/ HoldWake \/ HoldSleep \/ DemandMet \/ NoVisit
              \/ (DemandUnknown /\ ~ Engaged)
  BY <1>1, <1>9, <1>10, TickEndsEffect
<1>11. ASSUME NEW n \in Node, Decision(n) PROVE Known'
  BY <1>9, <1>11, DecisionEffect
<1>12. CASE Restart
  BY <1>9, <1>12, BetweenTicks DEF Restart
<1> HIDE DEF Known
<1> QED
  BY MeasuredOrNot, <1>2, <1>3, <1>4, <1>5, <1>6, <1>7, <1>8, <1>10, <1>11, <1>12, Zenon DEF Next, Tick

\* The three together.
LEMMA ExpectedNext ==
  ASSUME Base, Limited, Held, Expected, [Next]_vars
  PROVE  Expected'
<1>1. /\ "restart" \notin Actors => Boots
      /\ "operator" \notin Actors => WeHold
      /\ BootsRemembered => Known
  BY DEF Expected, Boots, WeHold, Known
<1>2. "restart" \notin Actors => Boots'
  BY <1>1, BootsNext
<1>3. "operator" \notin Actors => WeHold'
  BY <1>1, WeHoldNext
<1>4. BootsRemembered => Known'
  <2>1. ASSUME "restart" \notin Actors PROVE Known'
    <3>1. Boots /\ Known
      BY <1>1, <2>1 DEF BootsRemembered
    <3>2. (Boots /\ "restart" \notin Actors) \/ (WeHold /\ "operator" \notin Actors)
      BY <2>1, <3>1
    <3> QED
      BY <3>1, <3>2, KnownNext, Zenon
  <2>2. ASSUME "operator" \notin Actors PROVE Known'
    <3>1. WeHold /\ Known
      BY <1>1, <2>2 DEF BootsRemembered
    <3>2. (Boots /\ "restart" \notin Actors) \/ (WeHold /\ "operator" \notin Actors)
      BY <2>2, <3>1
    <3> QED
      BY <3>1, <3>2, KnownNext, Zenon
  <2> QED
    BY <2>1, <2>2 DEF BootsRemembered
<1> QED
  BY <1>2, <1>3, <1>4 DEF Expected, Boots, WeHold, Known, BootsRemembered, Engaged

-----------------------------------------------------------------------------
\* The whole invariant: of a pool at rest, and of every step.
LEMMA InvInit == Init => Inv
<1> SUFFICES ASSUME Init PROVE Inv
  OBVIOUS
<1>1. PICK up \in SUBSET Node :
        /\ mach = [n \in Node |-> IF n \in up THEN "on" ELSE "off"]
        /\ cord = [n \in Node |-> IF n \in up THEN "none" ELSE "ours"]
  BY Zenon DEF Init
<1>2. /\ t = NoTick /\ pending = 0 /\ busy = [n \in Node |-> FALSE]
      /\ phase = [n \in Node |-> "none"]
  BY DEF Init
<1>3. Limited /\ Counted /\ Roomy
  BY <1>2, BetweenTicks DEF Limited, Counted, Roomy
<1>4. Held
  BY <1>1, <1>2, BetweenTicks DEF Held
<1>5. Demanded
  <2>1. {n \in Node : busy[n]} = {}
    BY <1>2
  <2>2. pending + Cardinality({n \in Node : busy[n]}) <= MaxJobs
    BY <1>2, <2>1, FS_EmptySet, SizeAssumption
  <2> QED
    BY <1>2, <2>2, BetweenTicks DEF Demanded
<1>6. Expected
  BY <1>1, <1>2, BetweenTicks DEF Expected
<1> QED
  BY BaseInit, <1>3, <1>4, <1>5, <1>6 DEF Inv, Base

LEMMA InvNext == Inv /\ [Next]_vars => Inv'
<1> SUFFICES ASSUME Inv, [Next]_vars PROVE Inv'
  OBVIOUS
<1>1. Base /\ Limited /\ Counted /\ Held /\ Roomy /\ Demanded /\ Expected
  BY DEF Inv, Base
<1>2. Base'
  BY <1>1, BaseNext
<1>3. Limited' /\ Counted' /\ Held' /\ Roomy' /\ Demanded' /\ Expected'
  BY <1>1, <1>2, LimitedNext, CountedNext, HeldNext, RoomyNext, DemandedNext, ExpectedNext
<1> QED
  BY <1>2, <1>3 DEF Inv, Base

\* At every instant the phases, the machines and the tick's observation agree as
\* the decisions rely on it, with any number of nodes, jobs and windows.
THEOREM PoolInvariant == Spec => []Inv
<1> QED
  BY InvInit, InvNext, PTL DEF Spec

\* Of which most proofs need the part about one node at a time.
LEMMA PoolBase == Spec => []Base
<1>1. Inv => Base
  BY DEF Inv, Base
<1> QED
  BY <1>1, PoolInvariant, PTL

-----------------------------------------------------------------------------
\* What draws power is counted: of a tick under way, every node in an operation
\* of a machine that is not off, or Ready when it looked, is in Powered(TRUE).
LEMMA DrawingIsCounted ==
  ASSUME Base, t.pc # "between"
  PROVE  Cardinality({m \in Node : Drawing(mach, phase, m)}) <= Powered(TRUE)
<1> DEFINE v == Classify(phase, shedAt, t.ready)
           counted == v.selectable \cup v.booting \cup v.goingDown
           drawing == {m \in Node : Drawing(mach, phase, m)}
<1>1. counted \subseteq Node /\ drawing \subseteq Node
  BY DEF Classify, Base, TypeOK, StateTyped, TickTyped
<1>2. drawing \subseteq counted
  BY DEF Drawing, Classify, Base, TypeOK, StateTyped, TickTyped, Accounted, Observed, Phase
<1>3. Powered(TRUE) = Cardinality(counted)
  BY DEF Powered
<1> HIDE DEF v, counted, drawing
<1>4. IsFiniteSet(counted)
  BY <1>1, NodesAreFinite
<1>5. Cardinality(drawing) <= Cardinality(counted)
  BY <1>2, <1>4, FS_Subset
<1> QED
  BY <1>3, <1>5 DEF drawing

\* The machines counted are some of the nodes.
LEMMA PoweredTyped ==
  ASSUME Base
  PROVE  Powered(TRUE) \in Nat
<1> DEFINE v == Classify(phase, shedAt, t.ready)
           counted == v.selectable \cup v.booting \cup v.goingDown
<1>1. counted \subseteq Node
  BY DEF Classify, Base, TypeOK, StateTyped, TickTyped
<1>2. Powered(TRUE) = Cardinality(counted)
  BY DEF Powered
<1> HIDE DEF counted
<1> QED
  BY <1>1, <1>2, NodesAreFinite

\* A machine taken up on top of those is one more.
LEMMA OneMoreDrawing ==
  ASSUME Base, t.pc # "between", NEW n \in Node, t.limit \in Nat,
         Powered(TRUE) < t.limit,
         \A m \in Node \ {n} : mach'[m] = mach[m] /\ phase'[m] = phase[m]
  PROVE  Cardinality({m \in Node : Drawing(mach', phase', m)}) <= t.limit
<1> DEFINE now == {m \in Node : Drawing(mach, phase, m)}
           next == {m \in Node : Drawing(mach', phase', m)}
           powered == Powered(TRUE)
<1>1. next \subseteq now \cup {n}
  BY DEF Drawing
<1>2. IsFiniteSet(now) /\ Cardinality(now) \in Nat
  BY NodesAreFinite
<1>3. powered \in Nat
  BY PoweredTyped
<1>4. Cardinality(now) <= powered /\ powered < t.limit
  BY DrawingIsCounted
<1> HIDE DEF now, next, powered
<1>5. /\ IsFiniteSet(now \cup {n})
      /\ Cardinality(now \cup {n}) \in {Cardinality(now), Cardinality(now) + 1}
  BY <1>2, FS_AddElement
<1>6. Cardinality(next) <= Cardinality(now \cup {n}) /\ Cardinality(next) \in Nat
  BY <1>1, <1>5, FS_Subset, FS_CardinalityType
<1>7. Cardinality(next) <= t.limit
  BY <1>2, <1>3, <1>4, <1>5, <1>6
<1> QED
  BY <1>7 DEF next

\* A machine is powered on for a wake or a visit of its own.
LEMMA PowersOnByDecision ==
  ASSUME Base, [Next]_vars, NEW n \in Node, PowersOn(n)
  PROVE  BeginWake(n) \/ BeginVisit(n)
<1>1. ASSUME NEW m \in Node, BeginWake(m) PROVE m = n
  BY <1>1 DEF BeginWake, PowersOn, Base, TypeOK, StateTyped, TickTyped
<1>2. ASSUME NEW m \in Node, BeginVisit(m) PROVE m = n
  BY <1>2 DEF BeginVisit, PowersOn, Base, TypeOK, StateTyped, TickTyped
<1>3. ASSUME NEW m \in Node, Place(m) \/ Finish(m) \/ BootDone(m) \/ HaltDone(m)
                               \/ OperatorUncordons(m) \/ StepOf(m)
                               \/ RepairUp(m) \/ RepairDown(m) \/ BeginSleep(m)
      PROVE  FALSE
  BY <1>3 DEF PowersOn, Base, TypeOK, StateTyped, TickTyped, Place, Finish, BootDone, HaltDone,
              OperatorUncordons, StepOf, SkipNode, TakeOverReady, TakeOverBooting,
              VisitIsUndone, VisitHolds, VisitEnds, WakeWaits, WakeArrives, WakeHasNoRoom,
              SleepIsUndone, Rescue, SleepWaits, SleepAbandoned, ShutDown,
              ConfirmOff, RepairUp, RepairDown, BeginSleep, envVars
<1>4. mach' # mach
  BY DEF PowersOn
<1>5. ASSUME NEW r, NEW f, NEW u, NEW g, NEW k,
             BeginTick(r) \/ Shed(f) \/ ReadDemand(u, g, k) \/ DemandUnknown
               \/ TickCutShort \/ HoldWake \/ HoldSleep \/ DemandMet \/ NoVisit
               \/ Arrive \/ Restart \/ UNCHANGED vars
      PROVE  FALSE
  BY <1>4, <1>5, Zenon DEF BeginTick, Shed, ReadDemand, DemandUnknown, TickCutShort,
                    HoldWake, HoldSleep, DemandMet, NoVisit, Arrive, Restart,
                    vars, envVars
<1> QED
  BY <1>1, <1>2, <1>3, <1>5 DEF Next, Tick, Decision, Environment

\* A power-on is a decision of a tick that a binding ceiling left room for.
LEMMA PowerOnHasRoom ==
  ASSUME Base, [Next]_vars, NEW n \in Node, PowersOn(n), Engaged
  PROVE  /\ t.pc # "between" /\ Powered(TRUE) < t.limit
         /\ \A m \in Node \ {n} : mach'[m] = mach[m] /\ phase'[m] = phase[m]
<1>1. CASE BeginWake(n)
  BY <1>1 DEF BeginWake, WantMore, Decides, Deciding, MayWake, Base, TypeOK, StateTyped, TickTyped
<1>2. CASE BeginVisit(n)
  <2> DEFINE powered == Powered(TRUE)
  <2>1. t.pc = "visit" /\ powered + 1 <= t.limit
    BY <1>2 DEF BeginVisit, MayVisit
  <2>2. powered \in Nat
    BY PoweredTyped
  <2> HIDE DEF powered
  <2>3. powered < t.limit
    BY <2>1, <2>2 DEF Base, TypeOK, StateTyped, TickTyped, Engaged
  <2> QED
    BY <1>2, <2>1, <2>3 DEF BeginVisit, Base, TypeOK, StateTyped, TickTyped, powered
<1> QED
  BY <1>1, <1>2, PowersOnByDecision

\* While a ceiling binds, no power-on takes the machines drawing power over it.
THEOREM PoolWithinBudget == Spec => WithinBudget
<1>1. ASSUME Base, [Next]_vars, NEW n \in Node, PowersOn(n), Engaged
      PROVE  Cardinality({m \in Node : Drawing(mach', phase', m)}) <= t.limit
  <2>1. t.limit \in Nat
    BY <1>1 DEF Base, TypeOK, StateTyped, TickTyped, Engaged
  <2> QED
    BY <1>1, <2>1, PowerOnHasRoom, OneMoreDrawing
<1>2. Base /\ [Next]_vars =>
        [\A n \in Node : PowersOn(n) /\ Engaged =>
           Cardinality({m \in Node : Drawing(mach', phase', m)}) <= t.limit]_vars
  BY <1>1
<1> QED
  BY <1>2, PoolBase, PTL DEF Spec, WithinBudget

-----------------------------------------------------------------------------
\* Only a shutdown stops a machine.
LEMMA StopsByShutDown ==
  ASSUME Base, [Next]_vars, NEW n \in Node, mach[n] = "on", mach'[n] = "stopping"
  PROVE  ShutDown(n)
<1>1. ASSUME NEW m \in Node, ShutDown(m) PROVE m = n
  BY <1>1 DEF ShutDown, Base, TypeOK, StateTyped, TickTyped
<1>2. ASSUME NEW m \in Node, BeginWake(m) \/ BeginVisit(m) PROVE FALSE
  BY <1>2 DEF BeginWake, BeginVisit, Base, TypeOK, StateTyped, TickTyped
<1>3. ASSUME NEW m \in Node, Place(m) \/ Finish(m) \/ BootDone(m) \/ HaltDone(m)
                               \/ OperatorUncordons(m) \/ RepairUp(m)
                               \/ RepairDown(m) \/ BeginSleep(m)
      PROVE  FALSE
  BY <1>3 DEF Base, TypeOK, StateTyped, TickTyped, Place, Finish, BootDone, HaltDone, OperatorUncordons,
              RepairUp, RepairDown, BeginSleep, envVars
<1>4. ASSUME NEW m \in Node, StepOf(m) PROVE ShutDown(m)
  BY <1>4 DEF Base, TypeOK, StateTyped, TickTyped, StepOf, SkipNode, TakeOverReady, TakeOverBooting,
              VisitIsUndone, VisitHolds, VisitEnds, WakeWaits, WakeArrives, WakeHasNoRoom,
              SleepIsUndone, Rescue, SleepWaits, SleepAbandoned, ConfirmOff, envVars
<1>5. mach' # mach
  OBVIOUS
<1>6. ASSUME NEW r, NEW f, NEW u, NEW g, NEW k,
             BeginTick(r) \/ Shed(f) \/ ReadDemand(u, g, k) \/ DemandUnknown
               \/ TickCutShort \/ HoldWake \/ HoldSleep \/ DemandMet \/ NoVisit
               \/ Arrive \/ Restart \/ UNCHANGED vars
      PROVE  FALSE
  BY <1>5, <1>6, Zenon DEF BeginTick, Shed, ReadDemand, DemandUnknown, TickCutShort,
                    HoldWake, HoldSleep, DemandMet, NoVisit, Arrive, Restart,
                    vars, envVars
<1> QED
  BY <1>1, <1>2, <1>3, <1>4, <1>6 DEF Next, Tick, Decision, Environment

\* What the deadline counts are machines that are up: all of them but the one
\* it ends are left.
LEMMA ForcedLeavesReading ==
  ASSUME Base, NEW n \in Node, ShutDown(n), busy[n]
  PROVE  /\ t.cur # None
         /\ Cardinality({m \in Node : mach'[m] \in {"boot", "on"}}) >= t.cur
<1> DEFINE v == Classify(phase, shedAt, t.ready)
           counted == v.selectable \cup v.booting
           left == {m \in Node : mach'[m] \in {"boot", "on"}}
           powered == Powered(FALSE)
<1>1. t.cur # None /\ t.cur < powered
  BY DEF ShutDown, Overdue
<1>2. counted \subseteq Node /\ n \in counted
  BY DEF Classify, ShutDown, Drains
<1>3. counted \subseteq left \cup {n}
  BY DEF Classify, ShutDown, Base, TypeOK, StateTyped, TickTyped, Accounted, Observed, Drains, Goes, Turn
<1>4. powered = Cardinality(counted)
  BY DEF Powered
<1>5. IsFiniteSet(left) /\ Cardinality(left) \in Nat
  BY NodesAreFinite
<1>6. t.cur \in Nat
  BY <1>1 DEF Base, TypeOK, StateTyped, TickTyped
<1> HIDE DEF v, counted, left, powered
<1>7. /\ IsFiniteSet(left \cup {n})
      /\ Cardinality(left \cup {n}) \in {Cardinality(left), Cardinality(left) + 1}
  BY <1>5, FS_AddElement
<1>8. Cardinality(counted) <= Cardinality(left \cup {n}) /\ Cardinality(counted) \in Nat
  BY <1>3, <1>7, FS_Subset, FS_CardinalityType
<1>9. Cardinality(left) >= t.cur
  BY <1>1, <1>4, <1>5, <1>6, <1>7, <1>8
<1> QED
  BY <1>1, <1>9 DEF left

\* Work is ended only for the reading in hand, and never one node too far.
THEOREM PoolForcedWithinReading == Spec => ForcedWithinReading
<1>1. ASSUME Base, [Next]_vars, NEW n \in Node,
             busy[n] /\ mach[n] = "on" /\ mach'[n] = "stopping"
      PROVE  /\ t.cur # None
             /\ Cardinality({m \in Node : mach'[m] \in {"boot", "on"}}) >= t.cur
  BY <1>1, StopsByShutDown, ForcedLeavesReading
<1>2. Base /\ [Next]_vars =>
        [\A n \in Node : busy[n] /\ mach[n] = "on" /\ mach'[n] = "stopping" =>
           /\ t.cur # None
           /\ Cardinality({m \in Node : mach'[m] \in {"boot", "on"}}) >= t.cur]_vars
  BY <1>1
<1> QED
  BY <1>2, PoolBase, PTL DEF Spec, ForcedWithinReading

-----------------------------------------------------------------------------
\* At a wake, who was Ready is in service or going down: nobody is left stranded,
\* every operation has had its turn in unmet demand, and a tick that shed has no
\* room to wake.
LEMMA WakeFindsAllUp ==
  ASSUME Inv, NEW n \in Node, BeginWake(n), NEW m \in t.ready
  PROVE  phase[m] = "powering_off" \/ m \in t.awake
<1>1. Base /\ TickTyped /\ Limited /\ Counted
  BY DEF Inv, Base, TypeOK
<1>2. /\ t.pc = "phases" /\ t.todo = {} /\ t.known /\ Stranded = {} /\ Short
      /\ Engaged => Powered(TRUE) < t.limit
  BY DEF BeginWake, WantMore, Decides, Deciding, MayWake
<1>3. SUFFICES ASSUME m \notin t.awake PROVE phase[m] = "powering_off"
  OBVIOUS
<1>4. m \in t.ours /\ m \in t.flight
  BY <1>1, <1>2, <1>3 DEF Counted, Stranded
<1>5. t.begun = {}
  <2>1. SUFFICES ASSUME t.begun # {} PROVE FALSE
    OBVIOUS
  <2> DEFINE v == Classify(phase, shedAt, t.ready)
             counted == v.selectable \cup v.booting \cup v.goingDown
             ready == t.ready
  <2> DEFINE powered == Powered(TRUE)
  <2>2. Engaged /\ Cardinality(ready) > t.limit
    BY <1>1, <2>1 DEF Limited
  <2>3. t.limit \in Nat
    BY <1>1, <2>2 DEF Engaged, TickTyped
  <2>4. powered < t.limit
    BY <1>2, <2>2
  <2>5. powered = Cardinality(counted)
    BY DEF Powered
  <2>6. ready \subseteq counted /\ counted \subseteq Node
    BY <1>1 DEF Classify, TickTyped
  <2> HIDE DEF v, counted, ready, powered
  <2>7. Cardinality(ready) <= Cardinality(counted)
    BY <2>6, NodesAreFinite, FS_Subset
  <2>8. Cardinality(ready) \in Nat /\ Cardinality(counted) \in Nat
    BY <2>6, NodesAreFinite
  <2> QED
    BY <2>2, <2>3, <2>4, <2>5, <2>7, <2>8
<1> QED
  BY <1>1, <1>2, <1>3, <1>4, <1>5 DEF Counted

\* No machine is powered on for demand while one that is up could serve.
THEOREM PoolUpFirst == Spec => UpFirst
<1>1. ASSUME Inv, [Next]_vars, NEW n \in Node, Wakes(n), NEW m \in t.ready
      PROVE  phase[m] = "powering_off" \/ m \in t.awake
  <2>1. Base
    BY <1>1 DEF Inv, Base
  <2>2. BeginWake(n) \/ BeginVisit(n)
    BY <1>1, <2>1, PowersOnByDecision DEF Wakes
  <2>3. ~ BeginVisit(n)
    BY <1>1, <2>1 DEF BeginVisit, Wakes, Base, TypeOK, StateTyped
  <2> QED
    BY <1>1, <2>2, <2>3, WakeFindsAllUp
<1>2. Inv /\ [Next]_vars =>
        [\A n \in Node : Wakes(n) =>
           \A m \in t.ready : phase[m] = "powering_off" \/ m \in t.awake]_vars
  BY <1>1
<1> QED
  BY <1>2, PoolInvariant, PTL DEF Spec, UpFirst

\* With the new machine, those in service or coming are no more than are wanted.
LEMMA WakeIsWanted ==
  ASSUME Inv, OneToANode, BootsRemembered, NEW n \in Node, BeginWake(n), ~ Engaged
  PROVE  Cardinality({m \in Node : \/ mach'[m] = "on" /\ cord'[m] = "none"
                                   \/ phase'[m] = "waking" /\ booting'[m]}) <= MaxJobs
<1> DEFINE next == {m \in Node : \/ mach'[m] = "on" /\ cord'[m] = "none"
                                 \/ phase'[m] = "waking" /\ booting'[m]}
           coming == Coming
           awake == t.awake
<1>1. /\ StateTyped /\ TickTyped /\ Accounted /\ Counted /\ Demanded /\ Expected
  BY DEF Inv, TypeOK
<1>2. /\ t.pc = "phases" /\ t.known /\ t.want > Cardinality(awake) + Cardinality(coming)
  BY DEF BeginWake, WantMore, Decides, Deciding, MayWake
<1>3. /\ awake \subseteq Node /\ coming \subseteq Node /\ t.want \in Nat
      /\ IsFiniteSet(awake) /\ IsFiniteSet(coming)
      /\ Cardinality(awake) \in Nat /\ Cardinality(coming) \in Nat
  BY <1>1, NodesAreFinite DEF TickTyped, Coming
<1>4. \A m \in Node \ {n} : /\ mach'[m] = mach[m] /\ cord'[m] = cord[m]
                            /\ phase'[m] = phase[m] /\ booting'[m] = booting[m]
  BY <1>1 DEF BeginWake, StateTyped
<1>5. next \subseteq (awake \cup coming) \cup {n}
  <2>1. SUFFICES ASSUME NEW m \in Node \ {n}, mach[m] = "on", cord[m] = "none",
                        m \notin awake
                 PROVE  m \in coming
    BY <1>4 DEF Coming
  <2>2. CASE m \in t.ready
    BY <1>1, <2>1, <2>2, WakeFindsAllUp DEF Accounted
  <2>3. CASE m \notin t.ready
    BY <1>1, <1>2, <2>1, <2>3 DEF Expected, Coming
  <2> QED
    BY <2>2, <2>3
<1>6. t.want <= MaxJobs
  BY <1>1, <1>2, <1>3 DEF Demanded
<1> HIDE DEF next, coming, awake
<1>7. /\ IsFiniteSet(awake \cup coming) /\ Cardinality(awake \cup coming) \in Nat
      /\ Cardinality(awake \cup coming) <= Cardinality(awake) + Cardinality(coming)
  <2>1. /\ IsFiniteSet(awake \cup coming) /\ IsFiniteSet(awake \cap coming)
        /\ Cardinality(awake \cup coming)
             = Cardinality(awake) + Cardinality(coming) - Cardinality(awake \cap coming)
    BY <1>3, FS_Union, FS_Intersection
  <2>2. Cardinality(awake \cap coming) \in Nat /\ Cardinality(awake \cup coming) \in Nat
    BY <2>1, FS_CardinalityType
  <2> QED
    BY <1>3, <2>1, <2>2
<1>8. /\ IsFiniteSet((awake \cup coming) \cup {n})
      /\ Cardinality((awake \cup coming) \cup {n})
           \in {Cardinality(awake \cup coming), Cardinality(awake \cup coming) + 1}
  BY <1>7, FS_AddElement
<1>9. /\ Cardinality(next) <= Cardinality((awake \cup coming) \cup {n})
      /\ Cardinality(next) \in Nat
  BY <1>5, <1>8, FS_Subset, FS_CardinalityType
<1>10. Cardinality(next) <= MaxJobs
  BY <1>2, <1>3, <1>6, <1>7, <1>8, <1>9, SizeAssumption
<1> QED
  BY <1>10 DEF next

\* No node is ordered twice: of wakes that only jobs ask for, at one job to a
\* node, where no restart forgets a boot that a person's uncordon left unmarked.
THEOREM PoolNoNeedlessMachine ==
  ASSUME OneToANode, BootsRemembered
  PROVE  Spec => NoNeedlessMachine
<1>1. ASSUME Inv, [Next]_vars, NEW n \in Node, Wakes(n), ~ Engaged
      PROVE  Cardinality({m \in Node : \/ mach'[m] = "on" /\ cord'[m] = "none"
                                       \/ phase'[m] = "waking" /\ booting'[m]}) <= MaxJobs
  <2>1. Base
    BY <1>1 DEF Inv, Base
  <2>2. BeginWake(n) \/ BeginVisit(n)
    BY <1>1, <2>1, PowersOnByDecision DEF Wakes
  <2>3. ~ BeginVisit(n)
    BY <1>1, <2>1 DEF BeginVisit, Wakes, Base, TypeOK, StateTyped
  <2> QED
    BY <1>1, <2>2, <2>3, WakeIsWanted
<1>2. Inv /\ [Next]_vars =>
        [\A n \in Node : Wakes(n) /\ ~Engaged =>
           Cardinality({m \in Node : \/ mach'[m] = "on" /\ cord'[m] = "none"
                                     \/ phase'[m] = "waking" /\ booting'[m]})
             <= MaxJobs]_vars
  BY <1>1
<1> QED
  BY <1>2, PoolInvariant, PTL DEF Spec, NoNeedlessMachine

-----------------------------------------------------------------------------
\* A sleep begins at a shed, at the repair of a stranded node or of an idle one.
LEMMA SleepsByDecision ==
  ASSUME Base, [Next]_vars, NEW n \in Node, phase[n] = "none", phase'[n] = "sleeping"
  PROVE  t.pc = "shed" \/ RepairDown(n) \/ BeginSleep(n)
<1>1. TypeOK /\ StateTyped
  BY DEF Base, TypeOK
<1>2. ASSUME NEW m \in Node, Decision(m) PROVE RepairDown(n) \/ BeginSleep(n)
  <2>1. m = n
    BY <1>2, DecisionEffect
  <2> QED
    BY <1>1, <1>2, <2>1 DEF Decision, RepairUp, BeginWake, BeginVisit, memVars, StateTyped
<1>3. ASSUME NEW m \in Node, StepOf(m) PROVE FALSE
  <2>1. m = n
    BY <1>3, StepOfEffect
  <2> QED
    BY <1>1, <1>3, <2>1
    DEF StepOf, SkipNode, TakeOverReady, TakeOverBooting, VisitIsUndone, VisitHolds,
        VisitEnds, WakeWaits, WakeArrives, WakeHasNoRoom, SleepIsUndone, Rescue,
        SleepWaits, SleepAbandoned, ShutDown, ConfirmOff, memVars, StateTyped
<1>4. CASE Restart
  BY <1>4 DEF Restart
<1>5. ASSUME NEW r, NEW u, NEW g, NEW k, NEW m,
             \/ BeginTick(r) \/ ReadDemand(u, g, k) \/ DemandUnknown \/ TickCutShort
             \/ HoldWake \/ HoldSleep \/ DemandMet \/ NoVisit \/ Arrive
             \/ Environment(m) \/ UNCHANGED vars
      PROVE  FALSE
  <2>1. phase' = phase
    BY <1>5, Zenon DEF BeginTick, ReadDemand, DemandUnknown, TickCutShort, HoldWake,
                       HoldSleep, DemandMet, NoVisit, Arrive, Environment, Place, Finish,
                       BootDone, HaltDone, OperatorUncordons, vars, memVars
  <2> QED
    BY <2>1
<1>6. ASSUME NEW f, Shed(f) PROVE t.pc = "shed"
  BY <1>6, Zenon DEF Shed
<1> QED
  BY <1>2, <1>3, <1>4, <1>5, <1>6, Zenon DEF Next, Tick

\* In a tick that read headroom, an ordinary sleep leaves the pool below the
\* threshold; or no fewer nodes than that reading was of, and one more than those if
\* they were at the threshold.
THEOREM PoolHeadroomKept == Spec => HeadroomKept
<1> DEFINE Kept(n) == \/ LeavesRoom(n)
                      \/ Cardinality(t.awake \ {n})
                           >= Cardinality(Looked) + (IF AtThreshold(Looked) THEN 1 ELSE 0)
<1>1. ASSUME Inv, [Next]_vars, NEW n \in Node, PutToSleep(n), HeadroomPct > 0, t.measured
      PROVE  Kept(n)
  <2>1. Base /\ Followed /\ Limited /\ Counted /\ Roomy /\ TickTyped
    BY <1>1 DEF Inv, Base, TypeOK
  <2>2. t.pc = "shed" \/ RepairDown(n) \/ BeginSleep(n)
    BY <1>1, <2>1, SleepsByDecision DEF PutToSleep
  <2>3. t.pc # "shed"
    BY <1>1, <2>1 DEF Limited, PutToSleep
  <2>4. ~ RepairDown(n)
    BY <1>1, <2>1 DEF RepairDown, Deciding, Stranded, Followed, PutToSleep
  <2>5. /\ t.pc = "phases" /\ t.known /\ n \in t.awake \ t.inUse
        /\ t.want < Cardinality(t.awake)
    BY <2>2, <2>3, <2>4 DEF BeginSleep, WantLess, Decides, Deciding
  <2>6. /\ AtThreshold(Looked) => t.want >= Least(N, Cardinality(Looked) + 1)
        /\ t.awake = Looked => LeavesRoom(n)
    BY <1>1, <2>1, <2>5 DEF Roomy, PutToSleep
  <2>7. CASE t.awake # Looked
    <3>1. Looked \subseteq t.awake /\ t.awake \subseteq Node
      BY <2>1, <2>5 DEF Counted, Looked, TickTyped
    <3>2. PICK m \in t.awake : m \notin Looked
      BY <2>7, <3>1
    <3>3. Looked \subseteq t.awake \ {m}
      BY <3>1, <3>2
    <3>4. /\ IsFiniteSet(t.awake) /\ Cardinality(t.awake) \in Nat /\ Cardinality(t.awake) <= N
          /\ Cardinality(t.awake \ {m}) = Cardinality(t.awake) - 1
          /\ Cardinality(t.awake \ {n}) = Cardinality(t.awake) - 1
      BY <2>5, <3>1, <3>2, NodesAreFinite, FS_Subset, FS_RemoveElement
    <3>5. /\ Cardinality(Looked) \in Nat
          /\ Cardinality(Looked) <= Cardinality(t.awake) - 1
      BY <3>1, <3>3, <3>4, NodesAreFinite, FS_Subset
    <3>6. t.want \in Nat
      BY <2>1 DEF TickTyped
    <3> QED
      BY <2>5, <2>6, <3>4, <3>5, <3>6, SizeAssumption DEF Least
  <2> QED
    BY <2>6, <2>7
<1>2. Inv /\ [Next]_vars =>
        [\A n \in Node : PutToSleep(n) /\ HeadroomPct > 0 /\ t.measured => Kept(n)]_vars
  BY <1>1
<1> QED
  BY <1>2, PoolInvariant, PTL DEF Spec, HeadroomKept

-----------------------------------------------------------------------------
\* The order of the shed is a strict order of the nodes.
LEMMA ShedOrder ==
  /\ \A n \in Node : ShedKey(n) \in 0 .. 5
  /\ \A l, m, n \in Node : GoesBefore(l, m) /\ GoesBefore(m, n) => GoesBefore(l, n)
<1>1. \A n \in Node : ShedKey(n) \in 0 .. 5
  BY DEF ShedKey
<1>2. ASSUME NEW l \in Node, NEW m \in Node, NEW n \in Node,
             GoesBefore(l, m), GoesBefore(m, n)
      PROVE  GoesBefore(l, n)
  <2>1. /\ ShedKey(l) \in Nat /\ ShedKey(m) \in Nat /\ ShedKey(n) \in Nat
        /\ l \in Nat /\ m \in Nat /\ n \in Nat
    BY <1>1 DEF Node
  <2> QED
    BY <1>2, <2>1 DEF GoesBefore
<1> QED
  BY <1>1, <1>2

\* Of any nodes one goes last.
LEMMA LastToGo ==
  ASSUME NEW F \in SUBSET Node, F # {}
  PROVE  \E x \in F : \A y \in F \ {x} : GoesBefore(y, x)
<1> DEFINE keys == {ShedKey(y) : y \in F}
           last == {y \in F : ShedKey(y) = Max(keys)}
           x == Min(last)
<1>1. keys \subseteq 0 .. 5 /\ keys # {} /\ keys \subseteq Nat
  BY ShedOrder
<1>2. IsFiniteSet(keys)
  <2>1. IsFiniteSet(0 .. 5)
    <3>1. 0 \in Int /\ 5 \in Int
      OBVIOUS
    <3> QED
      BY <3>1, FS_Interval, Zenon
  <2> QED
    BY <1>1, <2>1, FS_Subset
<1>3. Max(keys) \in keys /\ \A k \in keys : k <= Max(keys)
  BY <1>1, <1>2, MaxIsGreatest
<1>4. last # {} /\ last \subseteq Nat /\ last \subseteq F
  <2>1. PICK y \in F : Max(keys) = ShedKey(y)
    BY <1>3
  <2>2. last # {}
    BY <2>1
  <2>3. last \subseteq F /\ F \subseteq Nat
    BY DEF Node
  <2> QED
    BY <2>2, <2>3
<1> HIDE DEF last
<1>5. x \in last /\ \A y \in last : x <= y
  BY <1>4, MinIsIn
<1> HIDE DEF x
<1>6. ASSUME NEW y \in F \ {x} PROVE GoesBefore(y, x)
  <2>1. ShedKey(y) \in Nat /\ ShedKey(y) <= Max(keys) /\ ShedKey(x) = Max(keys)
    BY <1>3, <1>5, ShedOrder DEF last
  <2>2. y \in Nat /\ x \in Nat
    BY <1>4, <1>5 DEF Node
  <2>3. CASE ShedKey(y) = Max(keys)
    <3>1. y \in last
      BY <2>3 DEF last
    <3>2. x <= y
      BY <1>5, <3>1
    <3> QED
      BY <2>1, <2>2, <2>3, <3>2 DEF GoesBefore
  <2>4. CASE ShedKey(y) # Max(keys)
    <3>1. Max(keys) \in Nat
      BY <1>1, <1>3
    <3> HIDE DEF keys
    <3>2. ShedKey(y) < ShedKey(x)
      BY <2>1, <2>4, <3>1
    <3> QED
      BY <3>2 DEF GoesBefore
  <2> QED
    BY <2>3, <2>4
<1> QED
  BY <1>4, <1>5, <1>6

\* ... and one goes first.
LEMMA FirstToGo ==
  ASSUME NEW F \in SUBSET Node, F # {}
  PROVE  \E x \in F : \A y \in F \ {x} : GoesBefore(x, y)
<1> DEFINE keys == {ShedKey(y) : y \in F}
           first == {y \in F : ShedKey(y) = Min(keys)}
           x == Max(first)
<1>1. keys \subseteq Nat /\ keys # {}
  BY ShedOrder
<1>2. Min(keys) \in keys /\ \A k \in keys : Min(keys) <= k
  <2> HIDE DEF keys
  <2> QED
    BY <1>1, MinIsIn
<1>3. first # {} /\ first \subseteq Nat /\ first \subseteq F /\ IsFiniteSet(first)
  <2>1. PICK y \in F : Min(keys) = ShedKey(y)
    BY <1>2
  <2>2. first # {}
    BY <2>1
  <2>3. first \subseteq F
    OBVIOUS
  <2> HIDE DEF first
  <2>4. F \subseteq Nat
    BY DEF Node
  <2> QED
    BY <2>2, <2>3, <2>4, NodesAreFinite
<1> HIDE DEF first
<1>4. x \in first /\ \A y \in first : y <= x
  BY <1>3, MaxIsGreatest
<1> HIDE DEF x
<1>5. ASSUME NEW y \in F \ {x} PROVE GoesBefore(x, y)
  <2>1. ShedKey(y) \in Nat /\ Min(keys) <= ShedKey(y) /\ ShedKey(x) = Min(keys)
    BY <1>2, <1>4, ShedOrder DEF first
  <2>2. y \in Nat /\ x \in Nat
    BY <1>3, <1>4 DEF Node
  <2>3. CASE ShedKey(y) = Min(keys)
    <3>1. y \in first
      BY <2>3 DEF first
    <3>2. y <= x
      BY <1>4, <3>1
    <3> QED
      BY <2>1, <2>2, <2>3, <3>2 DEF GoesBefore
  <2>4. CASE ShedKey(y) # Min(keys)
    <3>1. Min(keys) \in Nat
      BY <1>1, <1>2
    <3> HIDE DEF keys
    <3>2. ShedKey(x) < ShedKey(y)
      BY <2>1, <2>4, <3>1
    <3> QED
      BY <3>2 DEF GoesBefore
  <2> QED
    BY <2>3, <2>4
<1> QED
  BY <1>3, <1>4, <1>5

\* The first k of some nodes are at most k.
LEMMA FirstAreFew ==
  ASSUME NEW S \in SUBSET Node, NEW k \in Nat
  PROVE  Cardinality(FirstBy(S, k, GoesBefore)) <= k
<1> DEFINE F == FirstBy(S, k, GoesBefore)
           before(y) == {m \in S : GoesBefore(m, y)}
<1>1. F = {y \in S : Cardinality(before(y)) < k}
  BY DEF FirstBy
<1>2. F \subseteq S /\ F \subseteq Node
  BY <1>1
<1>3. CASE F = {}
  BY <1>3, FS_EmptySet
<1>4. CASE F # {}
  <2> HIDE DEF F
  <2>1. PICK x \in F : \A y \in F \ {x} : GoesBefore(y, x)
    BY <1>2, <1>4, LastToGo
  <2>2. F \ {x} \subseteq before(x)
    BY <1>2, <2>1
  <2>3. Cardinality(before(x)) < k
    BY <1>1, <2>1
  <2>4. /\ IsFiniteSet(before(x)) /\ Cardinality(before(x)) \in Nat
        /\ IsFiniteSet(F) /\ Cardinality(F) \in Nat
    <3>1. before(x) \in SUBSET Node /\ F \in SUBSET Node
      BY <1>2
    <3> HIDE DEF before
    <3> QED
      BY <3>1, NodesAreFinite
  <2> HIDE DEF before
  <2>5. Cardinality(F \ {x}) <= Cardinality(before(x))
    BY <2>2, <2>4, FS_Subset
  <2>6. Cardinality(F \ {x}) = Cardinality(F) - 1
    BY <2>1, <2>4, FS_RemoveElement
  <2>7. Cardinality(F) <= k
    BY <2>3, <2>4, <2>5, <2>6
  <2> QED
    BY <2>7 DEF F
<1> QED
  BY <1>3, <1>4

\* They are k, or all there are: who goes first of the rest has k before it.
LEMMA FirstAreMany ==
  ASSUME NEW S \in SUBSET Node, NEW k \in Nat
  PROVE  FirstBy(S, k, GoesBefore) = S \/ Cardinality(FirstBy(S, k, GoesBefore)) = k
<1> DEFINE F == FirstBy(S, k, GoesBefore)
           before(y) == {m \in S : GoesBefore(m, y)}
<1>1. F = {y \in S : Cardinality(before(y)) < k}
  BY DEF FirstBy
<1>2. F \subseteq S
  BY <1>1
<1>3. SUFFICES ASSUME S \ F # {} PROVE Cardinality(F) = k
  BY <1>2
<1>4. F \in SUBSET Node /\ S \ F \in SUBSET Node
  BY <1>2
<1> HIDE DEF F
<1>5. PICK x \in S \ F : \A y \in (S \ F) \ {x} : GoesBefore(x, y)
  BY <1>3, <1>4, FirstToGo
<1>6. before(x) \subseteq F
  <2> SUFFICES ASSUME NEW m \in S, GoesBefore(m, x), m \notin F PROVE FALSE
    OBVIOUS
  <2>1. m # x => GoesBefore(x, m)
    BY <1>5
  <2>2. GoesBefore(x, x)
    BY <2>1, ShedOrder
  <2>3. x \in Nat /\ ShedKey(x) \in Nat
    BY ShedOrder DEF Node
  <2> QED
    BY <2>2, <2>3 DEF GoesBefore
<1>7. before(x) \in SUBSET Node
  OBVIOUS
<1>8. ~ (Cardinality(before(x)) < k)
  BY <1>1, <1>5
<1> HIDE DEF before
<1>9. Cardinality(before(x)) \in Nat /\ Cardinality(F) \in Nat /\ IsFiniteSet(F)
  BY <1>4, <1>7, NodesAreFinite
<1>10. Cardinality(before(x)) <= Cardinality(F)
  BY <1>6, <1>9, FS_Subset
<1>11. Cardinality(F) <= k
  BY FirstAreFew DEF F
<1> QED
  BY <1>8, <1>9, <1>10, <1>11

\* Who goes before one of them is one of them.
LEMMA FirstComeFirst ==
  ASSUME NEW S \in SUBSET Node, NEW k \in Int, NEW n \in FirstBy(S, k, GoesBefore),
         NEW m \in S, GoesBefore(m, n)
  PROVE  m \in FirstBy(S, k, GoesBefore)
<1> DEFINE before(y) == {l \in S : GoesBefore(l, y)}
<1>1. n \in S /\ Cardinality(before(n)) < k
  BY DEF FirstBy
<1>2. before(m) \subseteq before(n)
  BY <1>1, ShedOrder
<1>3. before(n) \in SUBSET Node /\ before(m) \in SUBSET Node
  OBVIOUS
<1> HIDE DEF before
<1>4. /\ IsFiniteSet(before(n)) /\ Cardinality(before(n)) \in Nat
      /\ Cardinality(before(m)) \in Nat
  BY <1>3, NodesAreFinite
<1>5. Cardinality(before(m)) <= Cardinality(before(n))
  BY <1>2, <1>4, FS_Subset
<1>6. Cardinality(before(m)) < k
  BY <1>1, <1>4, <1>5
<1> QED
  BY <1>6 DEF FirstBy, before

\* With places for more than there are, all are among the first.
LEMMA FirstAreAll ==
  ASSUME NEW S \in SUBSET Node, NEW k \in Int, k > Cardinality(S)
  PROVE  FirstBy(S, k, GoesBefore) = S
<1> DEFINE before(y) == {l \in S : GoesBefore(l, y)}
<1>1. ASSUME NEW y \in S PROVE Cardinality(before(y)) < k
  <2>1. before(y) \subseteq S /\ before(y) \in SUBSET Node
    OBVIOUS
  <2> HIDE DEF before
  <2>2. IsFiniteSet(S) /\ Cardinality(S) \in Nat /\ Cardinality(before(y)) \in Nat
    BY <2>1, NodesAreFinite
  <2>3. Cardinality(before(y)) <= Cardinality(S)
    BY <2>1, <2>2, FS_Subset
  <2> QED
    BY <2>2, <2>3
<1> QED
  BY <1>1 DEF FirstBy

-----------------------------------------------------------------------------
\* What the shed looks at and how many it must take.
View == Classify(phase, shedAt, t.ready)
Required == Cardinality(View.selectable) - t.limit

\* A shed anchors its picks, clears the anchors of those it puts back and of some
\* that are dark, and leaves the others alone.
LEMMA ShedAnchors ==
  ASSUME NEW failing, Shed(failing)
  PROVE  \E surplus \in SUBSET (Node \ View.selectable) :
           shedAt' = [n \in Node |->
                        IF n \in surplus THEN None
                        ELSE IF n \in Unshed(View, Required) THEN None
                        ELSE IF n \in Picks(View, Required) THEN 0 ELSE shedAt[n]]
<1> DEFINE v == Classify(phase, shedAt, t.ready)
           required == Cardinality(v.selectable) - t.limit
           picks == Picks(v, required)
           unshed == Unshed(v, required)
           starts == {n \in picks \cup (v.heldDown \ unshed) : phase[n] # "sleeping"}
           missed == {n \in starts \cap failing : n \notin t.ours}
           begun == starts \ missed
           ph == [n \in Node |-> IF n \in begun THEN "sleeping"
                                ELSE IF n \in missed THEN "none" ELSE phase[n]]
           sh == [n \in Node |-> IF n \in unshed THEN None
                                ELSE IF n \in picks THEN 0 ELSE shedAt[n]]
           kept == Cardinality(v.heldDown \cup picks) - Cardinality(unshed)
           dark == Classify(ph, sh, t.ready).dark
           surplus == Surplus(dark, kept)
<1>1. shedAt' = [n \in Node |-> IF n \in surplus THEN None ELSE sh[n]]
  BY Zenon DEF Shed
<1> HIDE DEF kept
<1>2. surplus \in SUBSET (Node \ v.selectable)
  <2>1. surplus \subseteq dark
    BY DEF Surplus, FirstBy
  <2>2. dark \subseteq {n \in Node \ t.ready : ph[n] = "none"}
    BY DEF Classify
  <2>3. \A n \in Node : ph[n] = "none" => phase[n] # "sleeping"
    OBVIOUS
  <2>4. v.selectable \subseteq {n \in Node : phase[n] = "sleeping" \/ n \in t.ready}
    BY DEF Classify
  <2> HIDE DEF ph, dark, surplus, v
  <2> QED
    BY <2>1, <2>2, <2>3, <2>4
<1> HIDE DEF ph
<1> HIDE DEF surplus
<1>3. shedAt' = [n \in Node |-> IF n \in surplus THEN None
                               ELSE IF n \in unshed THEN None
                               ELSE IF n \in picks THEN 0 ELSE shedAt[n]]
  BY <1>1
<1> QED
  BY <1>2, <1>3 DEF View, Required

\* A node is newly shed by a shed, which picked it.
LEMMA NewShedIsPicked ==
  ASSUME Base, [Next]_vars, NEW n \in Node, NewShed(n)
  PROVE  t.pc = "shed" /\ \E failing \in Failing : Shed(failing)
<1>1. TypeOK /\ StateTyped
  BY DEF Base, TypeOK
<1>2. ASSUME NEW m \in Node, Decision(m) PROVE FALSE
  <2>1. shedAt'[n] = shedAt[n] \/ shedAt'[n] = None
    BY <1>1, <1>2 DEF Decision, RepairUp, RepairDown, BeginWake, BeginSleep, BeginVisit,
                      Uncordon, nodeVars, StateTyped
  <2> QED
    BY <2>1 DEF NewShed
<1>3. ASSUME NEW m \in Node, StepOf(m) PROVE FALSE
  <2>1. shedAt'[n] = shedAt[n] \/ shedAt'[n] = None
    BY <1>1, <1>3
    DEF StepOf, SkipNode, TakeOverReady, TakeOverBooting, VisitIsUndone, VisitHolds,
        VisitEnds, WakeWaits, WakeArrives, WakeHasNoRoom, SleepIsUndone, Rescue,
        SleepWaits, SleepAbandoned, ShutDown, ConfirmOff, Uncordon, nodeVars, StateTyped
  <2> QED
    BY <2>1 DEF NewShed
<1>4. ASSUME NEW reading, BeginTick(reading) PROVE FALSE
  <2> DEFINE holding == Holding(Effective(Trailing(reading)), OutageAge(reading))
  <2>1. shedAt' = [m \in Node |-> IF holding /\ cord[m] = "ours"
                                 THEN Older(shedAt[m], ShedDeadline) ELSE None]
    BY <1>4, Zenon DEF BeginTick
  <2> HIDE DEF holding
  <2> QED
    BY <2>1 DEF NewShed, Older
<1>5. ASSUME NEW u, NEW g, NEW k, NEW m,
             \/ ReadDemand(u, g, k) \/ DemandUnknown \/ TickCutShort \/ Restart
             \/ HoldWake \/ HoldSleep \/ DemandMet \/ NoVisit \/ Arrive
             \/ Environment(m) \/ UNCHANGED vars
      PROVE  FALSE
  <2>1. shedAt' = shedAt
    BY <1>5, Zenon DEF ReadDemand, DemandUnknown, TickCutShort, HoldWake, Restart,
                       HoldSleep, DemandMet, NoVisit, Arrive, Environment, Place, Finish,
                       BootDone, HaltDone, OperatorUncordons, vars, nodeVars
  <2> QED
    BY <2>1 DEF NewShed
<1>6. ASSUME NEW f, Shed(f) PROVE t.pc = "shed"
  BY <1>6, Zenon DEF Shed
<1> QED
  BY <1>2, <1>3, <1>4, <1>5, <1>6, Zenon DEF Next, Tick

\* A shed leaves what the ceiling allows, or only who is spared, or everybody; and
\* takes none with work before the others.
LEMMA ShedMeasures ==
  ASSUME Base, Limited, NEW failing, Shed(failing)
  PROVE  /\ Cardinality(Left) > t.limit => \A n \in Left : spared[n] > 0
         /\ Cardinality(Left) < t.limit => \A n \in Node : Sheddable(n) => n \in Left
         /\ \A n \in Node : NewShed(n) /\ busy[n] =>
              \A m \in Left : busy[m] \/ spared[m] > 0
<1> DEFINE sel == View.selectable
           held == View.heldDown
           free == {m \in View.drains \cup View.up : spared[m] = 0}
           k == Required - Cardinality(held)
           picks == FirstBy(free, k, GoesBefore)
           stay == FirstBy(held, Required, GoesBefore)
           unshed == held \ stay
<1>1. StateTyped /\ t.pc = "shed" /\ TickTyped
  BY Zenon DEF Base, TypeOK, Shed
<1>2. t.limit \in Nat
  BY <1>1 DEF Limited, Engaged, TickTyped
<1>3. /\ sel = {n \in Node : Sheddable(n)}
      /\ sel \in SUBSET Node /\ held \in SUBSET sel /\ free \in SUBSET (sel \ held)
      /\ \A m \in sel : shedAt[m] # None <=> m \in held
      /\ \A m \in sel \ held : spared[m] = 0 => m \in free
  BY DEF View, Classify, Sheddable
<1>4. \A m \in Node : spared[m] = 0 \/ spared[m] > 0
  BY <1>1 DEF StateTyped
<1> DEFINE Anchors(surplus, back, new) ==
             [m \in Node |-> IF m \in surplus THEN None ELSE IF m \in back THEN None
                            ELSE IF m \in new THEN 0 ELSE shedAt[m]]
<1>5. PICK surplus \in SUBSET (Node \ sel) : shedAt' = Anchors(surplus, unshed, picks)
  <2>1. Picks(View, Required) = picks /\ Unshed(View, Required) = unshed
    BY DEF Picks, Unshed
  <2>2. PICK surplus \in SUBSET (Node \ sel) :
          shedAt' = Anchors(surplus, Unshed(View, Required), Picks(View, Required))
    BY ShedAnchors
  <2> HIDE DEF picks, unshed, Anchors
  <2> QED
    BY <2>1, <2>2
<1>6. picks \subseteq free /\ stay \subseteq held
  BY DEF FirstBy
<1>7. Required = Cardinality(sel) - t.limit
  BY DEF Required
<1> HIDE DEF sel, held, free, stay, picks
<1>8. Left = sel \ (stay \cup picks)
  <2>1. ASSUME NEW m \in sel PROVE shedAt'[m] = None <=> m \notin stay \cup picks
    <3>1. m \in Node /\ m \notin surplus /\ 0 # None
      BY <1>3
    <3>2. shedAt'[m] = IF m \in unshed THEN None ELSE IF m \in picks THEN 0 ELSE shedAt[m]
      BY <1>5, <3>1
    <3> QED
      BY <1>3, <1>6, <3>1, <3>2
  <2> QED
    BY <1>3, <2>1 DEF Left
<1>9. /\ IsFiniteSet(sel) /\ Cardinality(sel) \in Nat /\ Cardinality(held) \in Nat
      /\ IsFiniteSet(stay) /\ IsFiniteSet(picks) /\ Cardinality(stay) \in Nat
      /\ Cardinality(picks) \in Nat /\ held \in SUBSET Node /\ free \in SUBSET Node
  <2>1. /\ sel \in SUBSET Node /\ held \in SUBSET Node /\ stay \in SUBSET Node
        /\ picks \in SUBSET Node /\ free \in SUBSET Node
    BY <1>3, <1>6
  <2> QED
    BY <2>1, NodesAreFinite
<1>10. Required \in Int /\ k \in Int
  BY <1>2, <1>7, <1>9
<1>11. Cardinality(Left) = Cardinality(sel) - (Cardinality(stay) + Cardinality(picks))
  <2>1. stay \cap picks = {} /\ stay \cup picks \subseteq sel /\ IsFiniteSet(stay \cup picks)
    BY <1>3, <1>6, <1>9, FS_Union
  <2>2. Cardinality(stay \cap picks) = 0
    BY <2>1, FS_EmptySet
  <2>3. Cardinality(stay \cup picks) = Cardinality(stay) + Cardinality(picks)
    <3>1. Cardinality(stay \cup picks)
            = Cardinality(stay) + Cardinality(picks) - Cardinality(stay \cap picks)
      BY <1>9, FS_Union
    <3> QED
      BY <1>9, <2>2, <3>1
  <2>4. /\ Cardinality(sel \ (stay \cup picks))
              = Cardinality(sel) - Cardinality(sel \cap (stay \cup picks))
        /\ sel \cap (stay \cup picks) = stay \cup picks
    BY <1>9, <2>1, FS_Difference
  <2> QED
    BY <1>8, <2>3, <2>4
<1>12. CASE k > 0
  <2>1. k \in Nat /\ Required > Cardinality(held)
    BY <1>9, <1>10, <1>12
  <2>2. stay = held
    BY <1>9, <1>10, <2>1, FirstAreAll DEF stay
  <2>3. Cardinality(picks) <= k
    BY <1>9, <2>1, FirstAreFew DEF picks
  <2>4. picks = free \/ Cardinality(picks) = k
    BY <1>9, <2>1, FirstAreMany DEF picks
  <2>5. /\ Cardinality(Left) >= t.limit
        /\ Cardinality(picks) = k => Cardinality(Left) = t.limit
    BY <1>2, <1>7, <1>9, <1>10, <1>11, <2>2, <2>3
  <2>6. picks = free => \A n \in Left : spared[n] > 0
    BY <1>3, <1>4, <1>8, <2>2
  <2>7. ASSUME NEW n \in Node, NewShed(n), busy[n], NEW m \in Left, ~ busy[m]
        PROVE  spared[m] > 0
    <3>1. m \in sel \ held /\ m \notin picks /\ m \in Node
      BY <1>3, <1>8, <2>2
    <3>2. n \in picks
      BY <1>5, <2>7 DEF NewShed
    <3>3. GoesBefore(m, n)
      BY <2>7 DEF GoesBefore, ShedKey
    <3>4. m \notin free
      BY <1>9, <1>10, <3>1, <3>2, <3>3, FirstComeFirst DEF picks
    <3> QED
      BY <1>3, <1>4, <3>1, <3>4
  <2>8. Cardinality(Left) > t.limit => picks = free
    BY <1>2, <2>4, <2>5
  <2>9. ~ (Cardinality(Left) < t.limit)
    BY <1>2, <1>9, <1>11, <2>5
  <2> QED
    BY <2>6, <2>7, <2>8, <2>9
<1>13. CASE ~ (k > 0)
  <2>1. ASSUME NEW S \in SUBSET Node, NEW j \in Int, ~ (j > 0)
        PROVE  FirstBy(S, j, GoesBefore) = {}
    <3>1. ASSUME NEW y \in S PROVE ~ (Cardinality({l \in S : GoesBefore(l, y)}) < j)
      <4>1. {l \in S : GoesBefore(l, y)} \in SUBSET Node
        OBVIOUS
      <4>2. Cardinality({l \in S : GoesBefore(l, y)}) \in Nat
        BY <4>1, NodesAreFinite
      <4> QED
        BY <2>1, <4>2
    <3> QED
      BY <3>1 DEF FirstBy
  <2>2. picks = {} /\ Cardinality(picks) = 0
    <3>1. picks = {}
      BY <1>9, <1>10, <1>13, <2>1 DEF picks
    <3> QED
      BY <3>1, FS_EmptySet
  <2>3. \A n \in Node : ~ NewShed(n)
    BY <1>5, <2>2 DEF NewShed
  <2>4. CASE Required > 0
    <3>1. Required \in Nat /\ Cardinality(held) >= Required
      BY <1>9, <1>10, <1>13, <2>4
    <3>2. Cardinality(stay) <= Required /\ (stay = held \/ Cardinality(stay) = Required)
      BY <1>9, <3>1, FirstAreFew, FirstAreMany DEF stay
    <3>3. Cardinality(stay) = Required
      BY <1>9, <3>1, <3>2
    <3>4. Cardinality(Left) = t.limit
      BY <1>2, <1>7, <1>9, <1>11, <2>2, <3>3
    <3> QED
      BY <1>2, <2>3, <3>4
  <2>5. CASE ~ (Required > 0)
    <3>1. stay = {} /\ Cardinality(stay) = 0
      <4>1. stay = {}
        BY <1>9, <1>10, <2>1, <2>5 DEF stay
      <4> QED
        BY <4>1, FS_EmptySet
    <3>2. Left = sel
      BY <1>8, <2>2, <3>1
    <3>3. ~ (Cardinality(Left) > t.limit)
      BY <1>2, <1>7, <1>9, <1>10, <2>5, <3>2
    <3> QED
      BY <1>3, <2>3, <3>2, <3>3
  <2> QED
    BY <2>4, <2>5
<1> QED
  BY <1>12, <1>13

\* A tick goes from its shed to demand by shedding.
LEMMA ShedsByShedding ==
  ASSUME Base, [Next]_vars, Sheds
  PROVE  \E failing \in Failing : Shed(failing)
<1>1. CASE t.pc = "shed" /\ t'.pc = "demand"
  <2>1. TickTyped /\ NoTick.pc = "between"
    BY BetweenTicks DEF Base, TypeOK
  <2>2. ASSUME UNCHANGED t PROVE FALSE
    BY <1>1, <2>2
  <2>3. ASSUME t' = NoTick PROVE FALSE
    BY <1>1, <2>1, <2>3
  <2>4. ASSUME NEW m \in Node, Decision(m) PROVE FALSE
    BY <1>1, <2>4 DEF Decision, RepairUp, RepairDown, BeginWake, BeginSleep, BeginVisit,
                      WantMore, WantLess, Decides, Deciding
  <2>5. ASSUME NEW m \in Node, StepOf(m) PROVE FALSE
    BY <1>1, <2>5
    DEF StepOf, SkipNode, TakeOverReady, TakeOverBooting, VisitIsUndone, VisitHolds,
        VisitEnds, WakeWaits, WakeArrives, WakeHasNoRoom, SleepIsUndone, Rescue,
        SleepWaits, SleepAbandoned, ShutDown, ConfirmOff, Drains, Goes, Turn
  <2>6. ASSUME NEW reading, BeginTick(reading) PROVE FALSE
    BY <1>1, <2>6, Zenon DEF BeginTick
  <2>7. ASSUME NEW u, NEW g, NEW k, ReadDemand(u, g, k) \/ DemandUnknown PROVE FALSE
    BY <1>1, <2>7, Zenon DEF ReadDemand, DemandUnknown
  <2>8. ASSUME HoldWake \/ HoldSleep \/ DemandMet \/ NoVisit PROVE FALSE
    BY <1>1, <2>8 DEF HoldWake, HoldSleep, DemandMet, NoVisit, WantMore, WantLess,
                      Decides, Deciding
  <2>9. ASSUME NEW m, Arrive \/ Environment(m) \/ UNCHANGED vars PROVE FALSE
    BY <2>2, <2>9 DEF Arrive, Environment, Place, Finish, BootDone, HaltDone,
                      OperatorUncordons, vars
  <2>10. ASSUME TickCutShort \/ Restart PROVE FALSE
    BY <2>3, <2>10, Zenon DEF TickCutShort, Restart
  <2> QED
    BY <2>4, <2>5, <2>6, <2>7, <2>8, <2>9, <2>10, Zenon DEF Next, Tick
<1>2. CASE \E n \in Node : NewShed(n)
  BY <1>2, NewShedIsPicked
<1> QED
  BY <1>1, <1>2 DEF Sheds

\* A shed takes as many nodes as the ceiling asks for, and takes work last.
THEOREM PoolShedIsMeasured == Spec => ShedIsMeasured
<1> DEFINE Exact ==
             /\ Cardinality(Left) > t.limit => \A n \in Left : spared[n] > 0
             /\ Cardinality(Left) < t.limit => \A n \in Node : Sheddable(n) => n \in Left
             /\ \A n \in Node : NewShed(n) /\ busy[n] =>
                  \A m \in Left : busy[m] \/ spared[m] > 0
<1>1. ASSUME Inv, [Next]_vars, Sheds PROVE Exact
  <2>1. Base /\ Limited
    BY <1>1 DEF Inv, Base
  <2>2. PICK failing \in Failing : Shed(failing)
    BY <1>1, <2>1, ShedsByShedding
  <2> HIDE DEF Exact
  <2> QED
    BY <2>1, <2>2, ShedMeasures DEF Exact
<1>2. Inv /\ [Next]_vars => [Sheds => Exact]_vars
  BY <1>1
<1> QED
  BY <1>2, PoolInvariant, PTL DEF Spec, ShedIsMeasured
=============================================================================
