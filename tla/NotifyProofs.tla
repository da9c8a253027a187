---------------------------- MODULE NotifyProofs ----------------------------
(***************************************************************************)
(* Proofs about Notify, for every set of configurations, any number of     *)
(* silences of a key, and all actors.                                      *)
(*                                                                         *)
(* The properties are about the moment power is cut or a silence deleted,  *)
(* several calls after the tick looked for silences.  Inv says what is     *)
(* still true then: of every key that is wanted there is one to be made,   *)
(* one that stays, or one that was there and ended since.                  *)
(***************************************************************************)
EXTENDS Notify, TLAPS

\* Between ticks nothing is being replaced.
LEMMA BetweenTicks ==
  /\ NoTick.pc = "between" /\ NoTick.why = "reconcile" /\ NoTick.note = "no"
  /\ NoTick.missing = {} /\ NoTick.stale = {} /\ NoTick.lapsed = {}
BY DEF NoTick

\* The invariant holds when the process first starts.
LEMMA InvInit == Init => Inv
BY BetweenTicks DEF Init, Inv, TypeOK, Replacing, Announced, Trouble, Phase, NoTick

\* Outside the calls nothing is being replaced.
LEMMA OutsideCalls ==
  ASSUME TypeOK', t'.pc \notin {"calls", "cut"}
  PROVE  Inv'
BY DEF Inv, Replacing, Announced

-----------------------------------------------------------------------------
\* The tick up to its calls, and a search that fails.
LEMMA InvReconcile ==
  ASSUME Inv, Observe \/ DarkStands \/ DarkRaises \/ DarkTakesBack \/ FindFails
  PROVE  Inv'
<1> USE DEF Inv, TypeOK, NoTick, Trouble, nodeVars, memVars, amVars
<1>1. CASE Observe
  <2>1. TypeOK'
    BY <1>1 DEF Observe
  <2>2. t'.pc \notin {"calls", "cut"}
    BY <1>1 DEF Observe
  <2> QED
    BY <2>1, <2>2, OutsideCalls
<1>2. CASE DarkStands \/ DarkRaises \/ DarkTakesBack
  <2>1. TypeOK'
    BY <1>2 DEF DarkStands, DarkRaises, DarkTakesBack
  <2>2. t'.pc \notin {"calls", "cut"}
    BY <1>2 DEF DarkStands, DarkRaises, DarkTakesBack
  <2> QED
    BY <2>1, <2>2, OutsideCalls
<1>3. CASE FindFails
  <2>1. TypeOK'
    BY <1>3 DEF FindFails, Raises
  <2>2. t'.pc \notin {"calls", "cut"}
    BY <1>3 DEF FindFails, Raises
  <2> QED
    BY <2>1, <2>2, OutsideCalls
<1> QED
  BY <1>1, <1>2, <1>3

\* What is kept and what is missing cover every key between them.
LEMMA InvFind ==
  ASSUME Inv, Find
  PROVE  Inv'
<1>1. PICK kept \in SUBSET sil :
        /\ IF Muting THEN Keeps(sil, kept) ELSE kept = {}
        /\ t' = [t EXCEPT !.pc = "calls", !.stale = sil \ kept, !.lapsed = {},
                          !.missing = IF Muting THEN Missing(sil) ELSE {}]
  BY Zenon DEF Find
<1>2. UNCHANGED <<nodeVars, memVars, wanted, amVars>>
  BY DEF Find
<1>3. TypeOK'
  BY <1>1, <1>2 DEF Inv, TypeOK, Missing, NoTick, nodeVars, memVars, amVars
<1>4. Muting' = Muting
  BY <1>1, <1>2 DEF Inv, TypeOK, Muting, Known, WantDown, NoTick, nodeVars, memVars
<1>5. ASSUME Muting, NEW k \in wanted, k \notin t'.missing
      PROVE  \E s \in sil \ t'.stale : KeyOf(s) = k
  <2>1. PICK s \in sil : KeyOf(s) = k
    BY <1>1, <1>5 DEF Inv, TypeOK, Missing, NoTick
  <2>2. PICK r \in kept : KeyOf(r) = KeyOf(s)
    BY <1>1, <1>5, <2>1 DEF Keeps
  <2>3. r \in sil \ t'.stale
    BY <1>1, <2>2 DEF Inv, TypeOK, NoTick
  <2> QED
    BY <2>1, <2>2, <2>3
<1>6. Replacing'
  BY <1>2, <1>4, <1>5 DEF Replacing, amVars
<1>7. Announced'
  BY <1>1 DEF Inv, TypeOK, Announced, NoTick
<1> QED
  BY <1>3, <1>6, <1>7 DEF Inv

-----------------------------------------------------------------------------
\* The calls.

\* A silence that is made covers the key that was missing.
LEMMA InvCreate ==
  ASSUME Inv, NEW k \in Key, Create(k) \/ CreateFails(k)
  PROVE  Inv'
<1>1. CASE Create(k)
  <2>1. PICK c \in 1 .. Copies : <<k, c>> \notin t.stale /\ sil' = sil \cup {<<k, c>>}
    BY <1>1 DEF Create, AddSilence
  <2>2. t' = [t EXCEPT !.missing = @ \ {k}]
        /\ UNCHANGED <<nodeVars, memVars, wanted, late>>
        /\ t.pc = "calls" /\ k \in t.missing
    BY <1>1 DEF Create
  <2>3. TypeOK'
    BY <2>1, <2>2 DEF Inv, TypeOK, Silence, NoTick, nodeVars, memVars
  <2>4. Muting' = Muting
    BY <2>2 DEF Inv, TypeOK, Muting, Known, WantDown, NoTick, nodeVars, memVars
  <2>5. KeyOf(<<k, c>>) = k
    BY DEF KeyOf
  <2>6. /\ t'.pc = "calls" /\ t'.missing = t.missing \ {k}
        /\ t'.stale = t.stale /\ t'.lapsed = t.lapsed /\ wanted' = wanted
    BY <2>2 DEF Inv, TypeOK, NoTick
  <2>7. ASSUME Muting, NEW j \in wanted, j \notin t'.missing \cup t'.lapsed
        PROVE  \E s \in sil' \ t'.stale : KeyOf(s) = j
    <3>1. CASE j = k
      BY <2>1, <2>5, <2>6, <3>1
    <3>2. CASE j # k
      <4>1. PICK s \in sil \ t.stale : KeyOf(s) = j
        BY <2>2, <2>6, <2>7, <3>2 DEF Inv, Replacing
      <4> QED
        BY <2>1, <2>6, <4>1
    <3> QED
      BY <3>1, <3>2
  <2>8. Replacing' /\ Announced'
    BY <2>4, <2>6, <2>7 DEF Replacing, Announced
  <2> QED
    BY <2>3, <2>8 DEF Inv
<1>2. CASE CreateFails(k)
  <2>1. TypeOK'
    BY <1>2 DEF Inv, TypeOK, CreateFails, Raises, NoTick, nodeVars, memVars
  <2> QED
    BY <1>2, <2>1, OutsideCalls DEF CreateFails, Raises, NoTick, Inv, TypeOK
<1> QED
  BY <1>1, <1>2

\* Only a stale silence goes, and no key is covered by those alone.
LEMMA InvDelete ==
  ASSUME Inv, NEW s \in Silence, Delete(s) \/ DeleteFails(s)
  PROVE  Inv'
<1>1. CASE Delete(s)
  <2>1. TypeOK'
    BY <1>1 DEF Inv, TypeOK, Delete, NoTick, nodeVars, memVars
  <2>2. Muting' = Muting
    BY <1>1 DEF Inv, TypeOK, Delete, Muting, Known, WantDown, NoTick, nodeVars, memVars
  <2> QED
    BY <1>1, <2>1, <2>2 DEF Inv, TypeOK, Delete, Replacing, Announced, NoTick
<1>2. CASE DeleteFails(s)
  <2>1. TypeOK'
    BY <1>2 DEF Inv, TypeOK, DeleteFails, Raises, NoTick, nodeVars, memVars
  <2> QED
    BY <1>2, <2>1, OutsideCalls DEF DeleteFails, Raises, NoTick, Inv, TypeOK
<1> QED
  BY <1>1, <1>2

\* The last call is made: power is next, or the tick's decision.
LEMMA InvCallsOver ==
  ASSUME Inv, CallsOver
  PROVE  Inv'
<1>1. TypeOK'
  BY DEF Inv, TypeOK, CallsOver, NoTick, nodeVars, memVars, amVars
<1>2. CASE t.why = "announce"
  <2>1. Muting' = Muting
    BY <1>2 DEF Inv, TypeOK, CallsOver, Muting, NoTick
  <2> QED
    BY <1>1, <1>2, <2>1 DEF Inv, TypeOK, CallsOver, Replacing, Announced, NoTick, amVars
<1>3. CASE t.why # "announce"
  BY <1>1, <1>3, OutsideCalls DEF CallsOver, Inv, TypeOK, NoTick
<1> QED
  BY <1>2, <1>3

-----------------------------------------------------------------------------
\* What the tick decides.
LEMMA InvDecide ==
  ASSUME Inv, Decide
  PROVE  Inv'
<1> USE DEF TickEnds, Deciding, nodeVars, memVars, amVars, Trouble, Phase
<1>1. TypeOK' /\ t'.pc \in {"between", "find"}
  <2>1. CASE Announce
    BY <2>1 DEF Inv, TypeOK, Announce, NoTick
  <2>2. CASE NothingDecided
    BY <2>2 DEF Inv, TypeOK, NothingDecided, NoTick
  <2>3. CASE YieldToOperator \/ BeginSleep \/ ReturnToService
    BY <2>3 DEF Inv, TypeOK, YieldToOperator, BeginSleep, ReturnToService, NoTick
  <2>4. ASSUME NEW o \in Outcome, CutPower(o) PROVE TypeOK' /\ t'.pc \in {"between", "find"}
    BY <2>4 DEF Inv, TypeOK, CutPower, NoTick
  <2>5. CASE ShutdownOver \/ ShutdownWedged
    BY <2>5 DEF Inv, TypeOK, ShutdownOver, ShutdownWedged, NoTick
  <2>6. CASE BeginWake \/ WakeArrives
    BY <2>6 DEF Inv, TypeOK, BeginWake, WakeArrives, NoTick
  <2>7. ASSUME NEW asks \in BOOLEAN, WakeGivesUp(asks)
        PROVE  TypeOK' /\ t'.pc \in {"between", "find"}
    BY <2>7 DEF Inv, TypeOK, WakeGivesUp, NoTick
  <2> QED
    BY <2>1, <2>2, <2>3, <2>4, <2>5, <2>6, <2>7, Zenon DEF Decide
<1> QED
  BY <1>1, OutsideCalls

\* The node, people and Alertmanager: a silence that ends is remembered as one
\* that was there, one that arrives is one more.
LEMMA InvEnvironment ==
  ASSUME Inv, Environment
  PROVE  Inv'
<1>1. CASE KubeletReports \/ OperatorTakes \/ OperatorReturns
  <2>1. TypeOK'
    BY <1>1 DEF Inv, TypeOK, KubeletReports, OperatorTakes, OperatorReturns, Untouched,
                memVars, amVars
  <2>2. UNCHANGED <<memVars, wanted, sil, t>>
    BY <1>1 DEF KubeletReports, OperatorTakes, OperatorReturns, Untouched, amVars
  <2>3. Muting' = Muting
    BY <2>2 DEF Muting, Known, WantDown, memVars
  <2> QED
    BY <2>1, <2>2, <2>3 DEF Inv, Replacing, Announced
<1>2. CASE Restart
  <2>1. TypeOK'
    BY <1>2 DEF Inv, TypeOK, Restart, NoTick, nodeVars, amVars, Phase, Trouble
  <2> QED
    BY <1>2, <2>1, BetweenTicks, OutsideCalls DEF Restart
<1>3. ASSUME NEW s \in Silence, Expires(s) PROVE Inv'
  <2>1. TypeOK'
    BY <1>3 DEF Inv, TypeOK, Expires, NoTick, nodeVars, memVars
  <2>2. UNCHANGED <<memVars, wanted>> /\ sil' = sil \ {s}
    BY <1>3 DEF Expires
  <2>3. /\ t'.pc = t.pc /\ t'.why = t.why /\ t'.ready = t.ready
        /\ t'.cord = t.cord /\ t'.note = t.note
        /\ t'.missing = t.missing /\ t'.stale = t.stale
        /\ t.lapsed \subseteq t'.lapsed
        /\ t.pc \in {"calls", "cut"} /\ Muting /\ KeyOf(s) \in wanted =>
             KeyOf(s) \in t'.lapsed
    BY <1>3 DEF Inv, TypeOK, Expires, NoTick
  <2>4. Muting' = Muting
    BY <2>2, <2>3 DEF Muting, Known, WantDown, memVars
  <2>5. Replacing'
    BY <2>2, <2>3, <2>4 DEF Inv, Replacing
  <2> QED
    BY <2>1, <2>3, <2>5 DEF Inv, Announced
<1>4. CASE ArrivesLate
  <2>1. TypeOK' /\ sil \subseteq sil'
    BY <1>4 DEF Inv, TypeOK, ArrivesLate, AddSilence, Silence, nodeVars, memVars
  <2>2. UNCHANGED <<memVars, wanted, t>>
    BY <1>4 DEF ArrivesLate
  <2>3. Muting' = Muting
    BY <2>2 DEF Muting, Known, WantDown, memVars
  <2> QED
    BY <2>1, <2>2, <2>3 DEF Inv, Replacing, Announced
<1> QED
  BY <1>1, <1>2, <1>3, <1>4, Zenon DEF Environment

\* Every step preserves the invariant.
LEMMA InvNext == Inv /\ [Next]_vars => Inv'
<1> SUFFICES ASSUME Inv, [Next]_vars PROVE Inv'
  OBVIOUS
<1>1. CASE Reconcile
  BY <1>1, InvReconcile, InvFind, InvCreate, InvDelete, InvCallsOver DEF Reconcile
<1>2. CASE Decide
  BY <1>2, InvDecide
<1>3. CASE Environment
  BY <1>3, InvEnvironment
<1>4. CASE UNCHANGED vars
  BY <1>4 DEF vars, nodeVars, memVars, amVars, Inv, TypeOK, Replacing, Announced,
              Muting, Known, WantDown
<1> QED
  BY <1>1, <1>2, <1>3, <1>4 DEF Next

\* While the calls are made, every key is still to be silenced, silenced, or
\* was when the tick looked; and power is next only when no call is left.
THEOREM NotifyInvariant == Spec => []Inv
BY InvInit, InvNext, PTL DEF Spec

-----------------------------------------------------------------------------
\* A node is put down by CutPower alone.
LEMMA CutsAfterCalls ==
  ASSUME Inv, Next, phase = "sleeping", phase' = "powering_off"
  PROVE  t.pc = "cut"
<1>1. CASE Reconcile
  BY <1>1 DEF Reconcile, Observe, DarkStands, DarkRaises, DarkTakesBack, Find,
              FindFails, CallsOver, Create, CreateFails, Delete, DeleteFails, memVars
<1>2. CASE Decide
  BY <1>2 DEF Decide, NothingDecided, YieldToOperator, BeginSleep, ReturnToService,
              Announce, CutPower, ShutdownOver, ShutdownWedged, BeginWake,
              WakeArrives, WakeGivesUp, memVars
<1>3. CASE Environment
  BY <1>3 DEF Environment, KubeletReports, OperatorTakes, OperatorReturns, Restart,
              ArrivesLate, Expires, Untouched, memVars
<1> QED
  BY <1>1, <1>2, <1>3 DEF Next

\* Power is never cut before every alert a sleep trips is silenced.
THEOREM NotifyCutIsAnnounced == Spec => CutIsAnnounced
<1>1. ASSUME Inv, [Next]_vars, phase = "sleeping", phase' = "powering_off"
      PROVE  \A k \in wanted : Covered(k) \/ k \in t.lapsed
  <2>1. t.pc = "cut"
    BY <1>1, CutsAfterCalls DEF vars, memVars
  <2>2. t.why = "announce" /\ t.missing = {} /\ t.stale = {}
    BY <1>1, <2>1 DEF Inv, Announced
  <2> QED
    BY <1>1, <2>1, <2>2 DEF Inv, Replacing, Muting, Covered
<1>2. Inv /\ [Next]_vars =>
        [phase = "sleeping" /\ phase' = "powering_off" =>
           \A k \in wanted : Covered(k) \/ k \in t.lapsed]_vars
  BY <1>1
<1> QED
  BY <1>2, NotifyInvariant, PTL DEF Spec, CutIsAnnounced

\* No silence of a node that is down or going down is deleted before every one
\* that is wanted is there.
THEOREM NotifyReplacedFirst == Spec => ReplacedFirst
<1>1. ASSUME Inv, Muting, NEW s \in Silence, Delete(s) \/ DeleteFails(s),
             NEW k \in wanted
      PROVE  Covered(k)' \/ k \in t.lapsed
  <2>1. t.pc = "calls" /\ t.missing = {} /\ s \in t.stale
    BY <1>1 DEF Delete, DeleteFails, MayDelete
  <2>2. k \in t.lapsed \/ \E r \in sil \ t.stale : KeyOf(r) = k
    BY <1>1, <2>1 DEF Inv, Replacing
  <2>3. sil \ t.stale \subseteq sil'
    BY <1>1, <2>1 DEF Delete, DeleteFails
  <2> QED
    BY <2>2, <2>3 DEF Covered
<1>2. Inv /\ [Next]_vars =>
        [Muting /\ (\E s \in Silence : Delete(s) \/ DeleteFails(s)) =>
           \A k \in wanted : Covered(k)' \/ k \in t.lapsed]_vars
  BY <1>1
<1> QED
  BY <1>2, NotifyInvariant, PTL DEF Spec, ReplacedFirst
=============================================================================
