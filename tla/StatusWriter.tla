---------------------------- MODULE StatusWriter ----------------------------
(***************************************************************************)
(* The status object: metalnap/status.py.  A tick hands its latest report  *)
(* over and goes on; one thread writes it to a ConfigMap, a GET and then a *)
(* replace that carries the resourceVersion the GET returned, and skips a  *)
(* report it believes is already there.                                    *)
(*                                                                         *)
(* A replace whose reply did not come may still be on its way: it lands    *)
(* later, if nothing else did first, or never.  So may one that a restart  *)
(* cut off.  Other keys of the object have other writers.  What a reader   *)
(* may rely on all the same is the module Board, which this one implements.*)
(*                                                                         *)
(* A resourceVersion is represented by what it decides: whether the object *)
(* is `intact`, unchanged since it was read.  Timestamps are ages in ticks *)
(* capped at the refresh interval, the only bound they are compared with.  *)
(***************************************************************************)
EXTENDS Naturals

CONSTANTS
  Reports,   \* what a report may say
  None,      \* nothing
  Refresh,   \* refresh_s: an unchanged report is written again after this long
  Others,    \* what the object's other keys may hold
  Outcomes,  \* how a call may end: "done", "failed" or "lost"
  Actors     \* who else acts: "restart", "others"; "threads" may not start

ASSUME NoneAssumption == None \notin Reports
ASSUME RefreshAssumption == Refresh \in Nat
ASSUME OthersAssumption == Others # {}

VARIABLES
  \* shared by the tick and the writer, under one lock
  pending,  \* the report handed over and not yet taken, or None
  error,    \* the last write failed
  thread,   \* the writer: "none", it "runs", or it is there and never ran, "broken"
  \* the writer
  step, put,   \* where it is, and the replace it is preparing
  written,     \* what it wrote last, and how long ago: {} or {[report, age]}
  \* the ConfigMap, and a replace still on its way to it
  shown, shownAge, other,
  late,        \* {} or {the replace}; of several, one may still land
  \* history, read by properties only
  latest,      \* the last report this process handed over, or None
  doubt        \* a reply was lost since the last replace that is known to have landed

objectVars == <<shown, shownAge, other>>
writerVars == <<step, put, written>>
vars == <<pending, error, thread, writerVars, objectVars, late, latest, doubt>>

Age == 0 .. Refresh
Older(a) == IF a < Refresh THEN a + 1 ELSE a

\* A replace: what it says, when write() read the clock, the other keys as the
\* GET found them, and whether the object is still as that GET found it.
Replace == [report : Reports, age : Age, other : Others, intact : BOOLEAN]
Step == {"waiting", "write", "put"}

TypeOK ==
  /\ pending \in Reports \cup {None} /\ latest \in Reports \cup {None}
  /\ error \in BOOLEAN /\ doubt \in BOOLEAN /\ thread \in {"none", "runs", "broken"}
  /\ step \in Step
  /\ step = "waiting" => put = None
  /\ step = "write" => put \in Reports
  /\ step = "put" => put \in Replace
  /\ written \in {{}} \cup {{w} : w \in [report : Reports, age : Age]}
  /\ shown \in Reports \cup {None} /\ shownAge \in Age /\ other \in Others
  /\ late \in {{}} \cup {{p} : p \in Replace}

\* The chart creates the object empty.
Init ==
  /\ pending = None /\ error = FALSE /\ thread = "none"
  /\ step = "waiting" /\ put = None /\ written = {}
  /\ shown = None /\ shownAge = Refresh /\ other \in Others
  /\ late = {} /\ latest = None /\ doubt = FALSE

-----------------------------------------------------------------------------
\* The first report starts the writer.  A start that fails raises, and leaves the
\* thread in its place: no later report starts another.
Started ==
  IF thread # "none" THEN {thread}
  ELSE {"runs"} \cup {b \in {"broken"} : "threads" \in Actors}

\* publish(): one slot, the latest value wins, and the tick never waits.
Publish(r) ==
  /\ pending' = r /\ latest' = r /\ thread' \in Started
  /\ UNCHANGED <<error, writerVars, objectVars, late, doubt>>

\* _run(): take what is there.
Take ==
  /\ thread = "runs" /\ step = "waiting" /\ pending # None
  /\ step' = "write" /\ put' = pending /\ pending' = None
  /\ UNCHANGED <<error, thread, written, objectVars, late, latest, doubt>>

\* The writer is done with a report, one way or the other.
Finish(failed) == step' = "waiting" /\ put' = None /\ error' = failed

\* Mutant: the refresh is forgotten.
BelievedThere_ForGood(r) == \E w \in written : w.report = r

\* The report is what was written last, and that is fresh.
BelievedThere(r) == \E w \in written : w.report = r /\ w.age < Refresh

Skip ==
  /\ step = "write" /\ BelievedThere(put)
  /\ Finish(FALSE)
  /\ UNCHANGED <<pending, thread, written, objectVars, late, latest, doubt>>

\* The GET: the report joins the object as it was read, its other keys kept.
Get ==
  /\ step = "write" /\ ~BelievedThere(put)
  /\ \E o \in Outcomes :
       IF o = "done"
       THEN /\ step' = "put"
            /\ put' = [report |-> put, age |-> 0, other |-> other, intact |-> TRUE]
            /\ UNCHANGED error
       ELSE Finish(TRUE)
  /\ UNCHANGED <<pending, thread, written, objectVars, late, latest, doubt>>

\* Mutant: the replace carries no resourceVersion.
Accepted_Any(p) == TRUE

\* The API server refuses a replace of an object that has changed since.
Accepted(p) == p.intact

\* The object takes the replace p; every other one is now out of date.
Overtaken(ps) == {[p EXCEPT !.intact = FALSE] : p \in ps}
Land(p) == shown' = p.report /\ shownAge' = p.age /\ other' = p.other

\* Mutant: the write is remembered before it is known to have happened.
Remembered_Early(ok) == {[report |-> put.report, age |-> put.age]}

\* A write that failed is not remembered as one that happened.
Remembered(ok) == IF ok THEN {[report |-> put.report, age |-> put.age]} ELSE written

\* The PUT.  A reply that was lost leaves the replace on its way.
Put ==
  /\ step = "put"
  /\ \E o \in Outcomes :
       LET ok == o = "done" /\ Accepted(put)
       IN  /\ Finish(~ok)
           /\ written' = Remembered(ok)
           /\ IF ok THEN Land(put) ELSE UNCHANGED objectVars
           /\ late' \in IF ok THEN {Overtaken(late)}
                        ELSE IF o = "lost" THEN {late, {put}} ELSE {late}
           /\ doubt' = (~ok /\ (doubt \/ o = "lost"))
  /\ UNCHANGED <<pending, thread, latest>>

Writer == Take \/ Skip \/ Get \/ Put

-----------------------------------------------------------------------------
\* What the writer is preparing, once the object has changed under it.
PutOvertaken == IF step = "put" THEN [put EXCEPT !.intact = FALSE] ELSE put

LateLands ==
  /\ \E p \in late : Accepted(p) /\ Land(p)
  /\ late' = {} /\ put' = PutOvertaken
  /\ UNCHANGED <<pending, error, thread, step, written, latest, doubt>>

OthersWrite ==
  /\ "others" \in Actors
  /\ other' \in Others \ {other}
  /\ late' = Overtaken(late) /\ put' = PutOvertaken
  /\ UNCHANGED <<pending, error, thread, step, written, shown, shownAge, latest, doubt>>

\* The process is restarted; a daemon thread goes with it, its call may not.
Restart ==
  /\ "restart" \in Actors
  /\ late' \in IF step = "put" THEN {late, {put}} ELSE {late}
  /\ pending' = None /\ error' = FALSE /\ thread' = "none"
  /\ step' = "waiting" /\ put' = None /\ written' = {}
  /\ latest' = None /\ doubt' = FALSE
  /\ UNCHANGED objectVars

\* The client's own timeout, 5 seconds a call, ends a write within a tick.
TimePasses ==
  /\ step = "put" => put.age = 0
  /\ shownAge' = Older(shownAge)
  /\ written' = {[w EXCEPT !.age = Older(w.age)] : w \in written}
  /\ late' = {[p EXCEPT !.age = Older(p.age)] : p \in late}
  /\ put' = IF step = "put" THEN [put EXCEPT !.age = Older(put.age)] ELSE put
  /\ UNCHANGED <<pending, error, thread, step, shown, other, latest, doubt>>

Tick == \E r \in Reports : Publish(r)

Next == Tick \/ Writer \/ LateLands \/ OthersWrite \/ Restart \/ TimePasses

Spec == Init /\ [][Next]_vars

(***************************************************************************)
(* Fairness.  Every tick publishes; time passes; the thread is scheduled;  *)
(* and a call that is made again and again succeeds in the end.            *)
(***************************************************************************)
FairSpec ==
  /\ Spec
  /\ WF_vars(Tick) /\ WF_vars(TimePasses)
  /\ WF_vars(Writer)
  /\ SF_vars(Get /\ step' = "put")
  /\ SF_vars(Put /\ ~error')

-----------------------------------------------------------------------------
(***************************************************************************)
(* Safety.                                                                 *)
(***************************************************************************)

\* A reader of the object sees reports put there one at a time, none older than
\* the one it replaces, and no other writer's keys undone -- although a replace is
\* two calls, may land long after its caller gave up on it, and may outlive a
\* restart.
Seen == INSTANCE Board WITH age <- shownAge
BoardSpec == Seen!Spec

\* A writer with nothing to do and nothing to complain of has shown the latest
\* report -- as long as every reply since its last write reached it.
CaughtUp ==
  latest # None /\ pending = None /\ step = "waiting" /\ ~error /\ ~doubt
    => shown = latest

(***************************************************************************)
(* Why they hold.                                                          *)
(***************************************************************************)

\* A replace that would still be accepted is of the object as it is, and is no
\* older than what the object shows.
CurrentReplace(p) == p.intact => p.other = other /\ p.age <= shownAge
ReplacesCurrent ==
  /\ step = "put" => CurrentReplace(put)
  /\ \A p \in late : CurrentReplace(p)

\* What is believed there is there, until a reply is lost.
BeliefRight ==
  written # {} /\ ~doubt => /\ \A w \in written : w.report = shown
                            /\ \A p \in late : ~p.intact

\* The newest report is pending, being written, or was written last.
NewestOnItsWay ==
  /\ pending \in {None, latest}
  /\ latest # None /\ pending = None =>
       /\ step = "write" => put = latest
       /\ step = "put" => put.report = latest
       /\ step = "waiting" /\ ~error => \E w \in written : w.report = latest

WriterInv == ReplacesCurrent /\ BeliefRight /\ NewestOnItsWay

\* The types, and all of the above: what the proofs show by induction.
Inv == TypeOK /\ WriterInv

(***************************************************************************)
(* What the documentation says and the code does not keep to.              *)
(***************************************************************************)

\* "a failure is logged once per change and the next tick tries again" -- the
\* docstring of Controller._publish(), controller.py:2173.
NextTickTriesAgain == thread = "broken" ~> step = "write"

(***************************************************************************)
(* Liveness.                                                               *)
(***************************************************************************)

\* A report that stays the latest is shown in the end, lost replies or not, and its
\* age goes on saying that the controller is alive -- if the writer could start.
LatestIsShown ==
  \A r \in Reports :
    <>[](latest = r /\ thread = "runs") => <>[](shown = r) /\ []<>(shownAge < Refresh)
=============================================================================
