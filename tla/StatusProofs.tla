---------------------------- MODULE StatusProofs ----------------------------
(***************************************************************************)
(* Proofs about StatusWriter, for any set of reports, of other keys and of *)
(* actors, and any refresh interval.  WriterInv is inductive together with *)
(* TypeOK: what could still land on the object is no older than what it    *)
(* shows, and what the writer believes is there is there.                  *)
(***************************************************************************)
EXTENDS StatusWriter, TLAPS

LEMMA OlderIsAge == \A a \in Age : Older(a) \in Age /\ Older(a) >= a
  BY RefreshAssumption DEF Age, Older

\* Age moves two timestamps on without changing their order.
LEMMA OlderKeepsOrder == \A a, b \in Age : a <= b => Older(a) <= Older(b)
  BY RefreshAssumption DEF Age, Older


LEMMA OvertakenTyped ==
  ASSUME NEW ps, ps \in {{}} \cup {{p} : p \in Replace}
  PROVE  /\ Overtaken(ps) \in {{}} \cup {{p} : p \in Replace}
         /\ \A p \in Overtaken(ps) : ~p.intact
<1>1. CASE ps = {}
  BY <1>1 DEF Overtaken
<1>2. CASE \E p \in Replace : ps = {p}
  <2>1. PICK p \in Replace : ps = {p}
    BY <1>2
  <2>2. Overtaken(ps) = {[p EXCEPT !.intact = FALSE]}
    BY <2>1 DEF Overtaken
  <2>3. [p EXCEPT !.intact = FALSE] \in Replace /\ ~[p EXCEPT !.intact = FALSE].intact
    BY DEF Replace
  <2> QED BY <2>2, <2>3
<1> QED BY <1>1, <1>2

LEMMA PutOvertakenTyped ==
  ASSUME TypeOK
  PROVE  /\ step = "put" => PutOvertaken \in Replace /\ ~PutOvertaken.intact
                            /\ PutOvertaken.report = put.report
         /\ step # "put" => PutOvertaken = put
  BY DEF TypeOK, PutOvertaken, Replace

(***************************************************************************)
(* Types.                                                                  *)
(***************************************************************************)

LEMMA InitTyped == Init => TypeOK
<1> SUFFICES ASSUME Init PROVE TypeOK
  OBVIOUS
<1>1. Refresh \in Age
  BY RefreshAssumption DEF Age
<1>2. written \in {{}} \cup {{w} : w \in [report : Reports, age : Age]}
  BY DEF Init
<1>3. late \in {{}} \cup {{p} : p \in Replace}
  BY DEF Init
<1> QED BY <1>1, <1>2, <1>3 DEF Init, TypeOK, Step

LEMMA StepTyped == TypeOK /\ [Next]_vars => TypeOK'
<1> SUFFICES ASSUME TypeOK, [Next]_vars PROVE TypeOK'
  OBVIOUS
<1>a. CASE Tick
  BY <1>a DEF Tick, Publish, Started, TypeOK, writerVars, objectVars
<1>b. CASE Take
  BY <1>b DEF Take, TypeOK, Step, objectVars
<1>c. CASE Skip
  BY <1>c DEF Skip, Finish, TypeOK, Step, objectVars
<1>d. CASE Get
  <2>1. put \in Reports /\ 0 \in Age
    BY <1>d, RefreshAssumption DEF Get, TypeOK, Age
  <2>2. [report |-> put, age |-> 0, other |-> other, intact |-> TRUE] \in Replace
    BY <2>1 DEF TypeOK, Replace
  <2>3. \/ step' = "put" /\ put' \in Replace /\ error' = error
        \/ step' = "waiting" /\ put' = None /\ error' = TRUE
    BY <1>d, <2>2 DEF Get, Finish
  <2> QED BY <1>d, <2>3 DEF Get, TypeOK, Step, objectVars
<1>e. CASE Put
  <2>1. PICK o \in Outcomes :
          LET ok == o = "done" /\ Accepted(put)
          IN  /\ Finish(~ok)
              /\ written' = Remembered(ok)
              /\ IF ok THEN Land(put) ELSE UNCHANGED objectVars
              /\ late' \in IF ok THEN {Overtaken(late)}
                           ELSE IF o = "lost" THEN {late, {put}} ELSE {late}
              /\ doubt' = (~ok /\ (doubt \/ o = "lost"))
    BY <1>e DEF Put
  <2> put \in Replace /\ step = "put"
    BY <1>e DEF Put, TypeOK
  <2>2. written' \in {{}} \cup {{w} : w \in [report : Reports, age : Age]}
    BY <2>1 DEF Remembered, TypeOK, Replace
  <2>3. shown' \in Reports \cup {None} /\ shownAge' \in Age /\ other' \in Others
    BY <2>1 DEF Land, TypeOK, Replace, objectVars
  <2>4. late' \in {{}} \cup {{p} : p \in Replace}
    BY <2>1, OvertakenTyped DEF TypeOK
  <2> QED BY <1>e, <2>1, <2>2, <2>3, <2>4 DEF Put, Finish, TypeOK, Step, Accepted
<1>f. CASE LateLands
  <2>1. shown' \in Reports \cup {None} /\ shownAge' \in Age /\ other' \in Others
    BY <1>f DEF LateLands, Land, TypeOK, Replace
  <2>2. /\ step = "write" => put' \in Reports
        /\ step = "put" => put' \in Replace
        /\ step = "waiting" => put' = None
    BY <1>f, PutOvertakenTyped DEF LateLands, TypeOK
  <2> QED BY <1>f, <2>1, <2>2 DEF LateLands, TypeOK
<1>g. CASE OthersWrite
  <2>1. /\ step = "write" => put' \in Reports
        /\ step = "put" => put' \in Replace
        /\ step = "waiting" => put' = None
    BY <1>g, PutOvertakenTyped DEF OthersWrite, TypeOK
  <2>2. late' \in {{}} \cup {{p} : p \in Replace}
    BY <1>g, OvertakenTyped DEF OthersWrite, TypeOK
  <2> QED BY <1>g, <2>1, <2>2 DEF OthersWrite, TypeOK
<1>h. CASE Restart
  BY <1>h DEF Restart, TypeOK, Step, objectVars
<1>i. CASE TimePasses
  <2>1. shownAge' \in Age
    BY <1>i, OlderIsAge DEF TimePasses, TypeOK
  <2>2. step = "put" => put' \in Replace
    BY <1>i, OlderIsAge DEF TimePasses, TypeOK, Replace
  <2>3. late' \in {{}} \cup {{p} : p \in Replace}
    BY <1>i, OlderIsAge DEF TimePasses, TypeOK, Replace
  <2>4. written' \in {{}} \cup {{w} : w \in [report : Reports, age : Age]}
    BY <1>i, OlderIsAge DEF TimePasses, TypeOK
  <2> QED BY <1>i, <2>1, <2>2, <2>3, <2>4 DEF TimePasses, TypeOK, Step
<1>j. CASE UNCHANGED vars
  BY <1>j DEF vars, writerVars, objectVars, TypeOK
<1> QED BY <1>a, <1>b, <1>c, <1>d, <1>e, <1>f, <1>g, <1>h, <1>i, <1>j DEF Next, Writer

(***************************************************************************)
(* The invariant.                                                          *)
(***************************************************************************)

LEMMA ReplacesCurrentStep ==
  ASSUME TypeOK, ReplacesCurrent, [Next]_vars
  PROVE  ReplacesCurrent'
<1>a. CASE Tick
  BY <1>a DEF Tick, Publish, ReplacesCurrent, CurrentReplace, writerVars, objectVars
<1>b. CASE Take
  BY <1>b DEF Take, ReplacesCurrent, CurrentReplace, objectVars
<1>c. CASE Skip
  BY <1>c DEF Skip, Finish, ReplacesCurrent, CurrentReplace, objectVars
<1>d. CASE Get
  <2>1. shownAge >= 0
    BY RefreshAssumption DEF TypeOK, Age
  <2>2. \/ /\ step' = "put"
           /\ put' = [report |-> put, age |-> 0, other |-> other, intact |-> TRUE]
        \/ step' = "waiting"
    BY <1>d DEF Get, Finish
  <2> QED BY <1>d, <2>1, <2>2 DEF Get, ReplacesCurrent, CurrentReplace, objectVars
<1>e. CASE Put
  <2>1. step' = "waiting"
    BY <1>e DEF Put, Finish
  <2>2. CASE UNCHANGED objectVars /\ late' \in {late, {put}}
    BY <1>e, <2>1, <2>2 DEF Put, ReplacesCurrent, CurrentReplace, objectVars
  <2>3. CASE late' = Overtaken(late)
    BY <2>1, <2>3, OvertakenTyped DEF TypeOK, ReplacesCurrent, CurrentReplace
  <2> QED BY <1>e, <2>2, <2>3 DEF Put
<1>f. CASE LateLands
  BY <1>f, PutOvertakenTyped DEF LateLands, ReplacesCurrent, CurrentReplace
<1>g. CASE OthersWrite
  BY <1>g, OvertakenTyped, PutOvertakenTyped
  DEF OthersWrite, TypeOK, ReplacesCurrent, CurrentReplace
<1>h. CASE Restart
  BY <1>h DEF Restart, ReplacesCurrent, CurrentReplace, objectVars
<1>i. CASE TimePasses
  <2>1. step' = step /\ other' = other /\ shownAge' = Older(shownAge)
    BY <1>i DEF TimePasses
  <2>2. ASSUME step = "put" PROVE CurrentReplace(put)'
    <3>1. put \in Replace /\ put' = [put EXCEPT !.age = Older(put.age)]
      BY <1>i, <2>2 DEF TimePasses, TypeOK
    <3>2. /\ put'.intact = put.intact /\ put'.other = put.other
          /\ put'.age = Older(put.age)
      BY <3>1 DEF Replace
    <3>3. put.age \in Age /\ shownAge \in Age
      BY <3>1 DEF Replace, TypeOK
    <3> QED BY <2>1, <2>2, <3>2, <3>3, OlderKeepsOrder DEF ReplacesCurrent, CurrentReplace
  <2>3. ASSUME NEW p \in late' PROVE CurrentReplace(p)'
    <3>1. PICK q \in late : p = [q EXCEPT !.age = Older(q.age)]
      BY <1>i, <2>3 DEF TimePasses
    <3>2. q \in Replace
      BY DEF TypeOK
    <3>3. p.intact = q.intact /\ p.other = q.other /\ p.age = Older(q.age)
      BY <3>1, <3>2 DEF Replace
    <3>4. q.age \in Age /\ shownAge \in Age
      BY <3>2 DEF Replace, TypeOK
    <3> QED BY <2>1, <3>3, <3>4, OlderKeepsOrder DEF ReplacesCurrent, CurrentReplace
  <2> QED BY <2>1, <2>2, <2>3 DEF ReplacesCurrent
<1>j. CASE UNCHANGED vars
  BY <1>j DEF vars, writerVars, objectVars, ReplacesCurrent, CurrentReplace
<1> QED BY <1>a, <1>b, <1>c, <1>d, <1>e, <1>f, <1>g, <1>h, <1>i, <1>j DEF Next, Writer

LEMMA BeliefRightStep ==
  ASSUME TypeOK, BeliefRight, [Next]_vars
  PROVE  BeliefRight'
<1>a. CASE Tick
  BY <1>a DEF Tick, Publish, BeliefRight, writerVars, objectVars
<1>b. CASE Take
  BY <1>b DEF Take, BeliefRight, objectVars
<1>c. CASE Skip
  BY <1>c DEF Skip, BeliefRight, objectVars
<1>d. CASE Get
  BY <1>d DEF Get, BeliefRight, objectVars
<1>e. CASE Put
  <2>1. PICK o \in Outcomes :
          LET ok == o = "done" /\ Accepted(put)
          IN  /\ written' = Remembered(ok)
              /\ IF ok THEN Land(put) ELSE UNCHANGED objectVars
              /\ late' \in IF ok THEN {Overtaken(late)}
                           ELSE IF o = "lost" THEN {late, {put}} ELSE {late}
              /\ doubt' = (~ok /\ (doubt \/ o = "lost"))
    BY <1>e DEF Put
  <2>2. CASE o = "done" /\ Accepted(put)
    BY <2>1, <2>2, OvertakenTyped DEF TypeOK, Remembered, Land, BeliefRight
  <2>3. CASE ~(o = "done" /\ Accepted(put)) /\ o # "lost"
    BY <2>1, <2>3 DEF Remembered, BeliefRight, objectVars
  <2>4. CASE o = "lost"
    BY <2>1, <2>4 DEF BeliefRight
  <2> QED BY <2>2, <2>3, <2>4
<1>f. CASE LateLands
  BY <1>f DEF LateLands, Accepted, BeliefRight
<1>g. CASE OthersWrite
  BY <1>g, OvertakenTyped DEF OthersWrite, TypeOK, BeliefRight
<1>h. CASE Restart
  BY <1>h DEF Restart, BeliefRight
<1>i. CASE TimePasses
  <2>1. ASSUME NEW w \in written' PROVE \E v \in written : w.report = v.report
    <3>1. PICK v \in written : w = [v EXCEPT !.age = Older(v.age)]
      BY <1>i, <2>1 DEF TimePasses
    <3>2. v \in [report : Reports, age : Age]
      BY DEF TypeOK
    <3> QED BY <3>1, <3>2
  <2>2. ASSUME NEW p \in late' PROVE \E q \in late : p.intact = q.intact
    <3>1. PICK q \in late : p = [q EXCEPT !.age = Older(q.age)]
      BY <1>i, <2>2 DEF TimePasses
    <3>2. q \in Replace
      BY DEF TypeOK
    <3> QED BY <3>1, <3>2 DEF Replace
  <2>3. written' # {} => written # {}
    BY <2>1
  <2> QED BY <1>i, <2>1, <2>2, <2>3 DEF TimePasses, BeliefRight
<1>j. CASE UNCHANGED vars
  BY <1>j DEF vars, writerVars, objectVars, BeliefRight
<1> QED BY <1>a, <1>b, <1>c, <1>d, <1>e, <1>f, <1>g, <1>h, <1>i, <1>j DEF Next, Writer

LEMMA NewestOnItsWayStep ==
  ASSUME TypeOK, NewestOnItsWay, [Next]_vars
  PROVE  NewestOnItsWay'
<1>a. CASE Tick
  BY <1>a, NoneAssumption DEF Tick, Publish, NewestOnItsWay
<1>b. CASE Take
  BY <1>b DEF Take, NewestOnItsWay
<1>c. CASE Skip
  BY <1>c DEF Skip, Finish, BelievedThere, NewestOnItsWay
<1>d. CASE Get
  <2>1. \/ step' = "put" /\ put'.report = put
        \/ step' = "waiting" /\ error'
    BY <1>d DEF Get, Finish
  <2> QED BY <1>d, <2>1 DEF Get, NewestOnItsWay
<1>e. CASE Put
  <2>1. put \in Replace
    BY <1>e DEF Put, TypeOK
  <2>2. PICK ok \in BOOLEAN : Finish(~ok) /\ written' = Remembered(ok)
    BY <1>e DEF Put
  <2>3. ok => \E w \in written' : w.report = put.report
    BY <2>2 DEF Remembered
  <2> QED BY <1>e, <2>2, <2>3 DEF Put, Finish, NewestOnItsWay
<1>f. CASE LateLands
  BY <1>f, PutOvertakenTyped DEF LateLands, NewestOnItsWay
<1>g. CASE OthersWrite
  BY <1>g, PutOvertakenTyped DEF OthersWrite, NewestOnItsWay
<1>h. CASE Restart
  BY <1>h DEF Restart, NewestOnItsWay
<1>i. CASE TimePasses
  <2>1. step = "put" => put'.report = put.report
    BY <1>i DEF TimePasses, TypeOK, Replace
  <2>2. step # "put" => put' = put
    BY <1>i DEF TimePasses
  <2>3. ASSUME NEW w \in written
        PROVE  \E v \in written' : v.report = w.report
    <3>1. w \in [report : Reports, age : Age]
      BY DEF TypeOK
    <3>2. [w EXCEPT !.age = Older(w.age)].report = w.report
      BY <3>1
    <3> QED BY <1>i, <3>2 DEF TimePasses
  <2> QED BY <1>i, <2>1, <2>2, <2>3 DEF TimePasses, NewestOnItsWay
<1>j. CASE UNCHANGED vars
  BY <1>j DEF vars, writerVars, NewestOnItsWay
<1> QED BY <1>a, <1>b, <1>c, <1>d, <1>e, <1>f, <1>g, <1>h, <1>i, <1>j DEF Next, Writer

\* Every reachable state of the writer satisfies Inv: what may still land on the
\* object is current, a belief is right until a reply is lost, and the newest
\* report is on its way.
THEOREM WriterInvariant == Spec => []Inv
<1>1. Init => Inv
  <2>1. Init => WriterInv
    BY DEF Init, WriterInv, ReplacesCurrent, BeliefRight, NewestOnItsWay
  <2> QED BY <2>1, InitTyped DEF Inv
<1>2. Inv /\ [Next]_vars => Inv'
  BY StepTyped, ReplacesCurrentStep, BeliefRightStep, NewestOnItsWayStep DEF Inv, WriterInv
<1> QED BY <1>1, <1>2, PTL DEF Spec

(***************************************************************************)
(* What it gives.                                                          *)
(***************************************************************************)

\* An idle writer with no error and no lost reply has shown the latest report.
THEOREM IdleIsCaughtUp == Spec => []CaughtUp
<1>1. Inv => CaughtUp
  BY DEF Inv, WriterInv, BeliefRight, NewestOnItsWay, CaughtUp
<1> QED BY <1>1, WriterInvariant, PTL

(***************************************************************************)
(* The refinement.                                                         *)
(***************************************************************************)

LEMMA InitShows == Init => Seen!Init
  BY DEF Init, Seen!Init

\* The object changes hands in two ways only: the writer's replace, accepted, and
\* one that was still on its way.  Either one shows a report; nothing else does.
LEMMA ObjectStep ==
  ASSUME Inv, [Next]_vars
  PROVE  [Seen!Next]_(Seen!vars)
<1> USE DEF Inv, WriterInv
<1> shownAge \in Age /\ Age \subseteq Nat
  BY DEF TypeOK, Age
<1> DEFINE Lands(p) == /\ p \in Replace /\ Accepted(p) /\ CurrentReplace(p) /\ Land(p)
<1>1. ASSUME NEW p, Lands(p) PROVE Seen!Next
  <2>1. /\ shown' = p.report /\ shownAge' = p.age /\ other' = p.other
        /\ p.report \in Reports /\ p.age \in Age
        /\ p.other = other /\ p.age <= shownAge
    BY <1>1 DEF Accepted, CurrentReplace, Land, Replace
  <2>2. p.age \in 0 .. shownAge
    BY <2>1 DEF Age
  <2> QED BY <2>1, <2>2 DEF Seen!Show, Seen!Next
<1>a. CASE Put
  <2>1. CASE UNCHANGED objectVars
    BY <2>1 DEF objectVars, Seen!vars
  <2>2. CASE Accepted(put) /\ Land(put)
    <3>1. Lands(put)
      BY <1>a, <2>2 DEF Put, TypeOK, ReplacesCurrent
    <3> QED BY <1>1, <3>1
  <2> QED BY <1>a, <2>1, <2>2 DEF Put
<1>b. CASE LateLands
  <2>1. PICK p \in late : Accepted(p) /\ Land(p)
    BY <1>b DEF LateLands
  <2>2. Lands(p)
    BY <2>1 DEF TypeOK, ReplacesCurrent
  <2> QED BY <1>1, <2>2
<1>c. CASE TimePasses
  <2>1. shownAge' \in shownAge .. Refresh /\ shown' = shown /\ other' = other
    BY <1>c, OlderIsAge DEF TimePasses, Age
  <2> QED BY <2>1 DEF Seen!GrowOld, Seen!Next
<1>d. CASE OthersWrite
  BY <1>d DEF OthersWrite, Seen!OthersWrite, Seen!Next
<1>e. CASE Tick \/ Take \/ Skip \/ Get \/ Restart \/ UNCHANGED vars
  BY <1>e DEF Tick, Publish, Take, Skip, Get, Restart, vars, objectVars, Seen!vars
<1> QED BY <1>a, <1>b, <1>c, <1>d, <1>e DEF Next, Writer, Seen!Next

\* The writer implements the board: a slow, lost or cut-off write neither puts an
\* older report over a newer one nor undoes what another writer put there.
THEOREM WriterImplementsBoard == Spec => BoardSpec
<1>1. Inv /\ [Next]_vars => [Seen!Next]_(Seen!vars)
  BY ObjectStep
<1> QED BY <1>1, InitShows, WriterInvariant, PTL DEF Spec, BoardSpec, Seen!Spec
=============================================================================
