------------------------------ MODULE Sizing ------------------------------
(***************************************************************************)
(* How many nodes an amount of work needs, and how full the awake pool is: *)
(* metalnap/controller.py, _size() and _headroom().                        *)
(*                                                                         *)
(* An amount is a function from resources to integers, the capacity of the *)
(* nodes a function from nodes to amounts; 0 is a resource that a node     *)
(* does not report.  The code divides floats; the model multiplies out, so *)
(* a pool exactly at the threshold is full, as with the code's epsilon.    *)
(***************************************************************************)
EXTENDS Integers, FiniteSets, FiniteSetsExt

\* Mutant: v // c.
CeilDiv_Floor(v, c) == v \div c

\* math.ceil(v / c).
CeilDiv(v, c) == (v + c - 1) \div c

\* What a node of this pool holds of r: the least any node reports, else the
\* configured default, else 0 -- r is not sized on.
NodeCapacity(r, nodes, cap, default) ==
  LET have == {cap[n][r] : n \in nodes} \ {0}
  IN IF have # {} THEN Min(have) ELSE default[r]

\* The resources a shortfall is sized on, given what one node holds.
SizedOn(short, one) == {r \in DOMAIN short : short[r] > 0 /\ one[r] > 0}

\* Whole nodes the shortfall needs: the most any one resource does.
NodesFor(short, one) ==
  Max({CeilDiv(short[r], one[r]) : r \in SizedOn(short, one)} \cup {0})

-----------------------------------------------------------------------------
\* Of resource r, over the nodes S.
Total(f, S, r) == MapThenSumSet(LAMBDA n : f[n][r], S)

\* At or above the threshold: nothing requested of nothing is not.
Full(used, total, pct) ==
  IF total > 0 THEN 100 * used >= pct * total ELSE used > 0

\* Mutant: the pool without the idle node is not looked at.
HeadroomFloor_NoHold(load, cap, awake, idle, resources, pct) ==
  IF pct > 0 /\ \E r \in resources :
       /\ Total(cap, awake, r) > 0
       /\ Full(Total(load, awake, r), Total(cap, awake, r), pct)
  THEN Cardinality(awake) + 1 ELSE 0

\* The floor on `want`: one more than the awake nodes when some resource is
\* full; every awake node when it would be with the largest idle one gone;
\* otherwise no opinion.
HeadroomFloor(load, cap, awake, idle, resources, pct) ==
  LET sized == {r \in resources : Total(cap, awake, r) > 0}
      used(r)  == Total(load, awake, r)
      total(r) == Total(cap, awake, r)
      rest(r)  == total(r) - Max({cap[n][r] : n \in idle})
      asks  == \E r \in sized : Full(used(r), total(r), pct)
      holds == /\ Cardinality(awake) >= 2 /\ idle # {}
               /\ \E r \in sized : Full(used(r), rest(r), pct)
  IN IF pct = 0 THEN 0
     ELSE IF asks THEN Cardinality(awake) + 1
     ELSE IF holds THEN Cardinality(awake) ELSE 0
=============================================================================
