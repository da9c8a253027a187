---------------------------- MODULE SizingProofs ----------------------------
(***************************************************************************)
(* Proofs about Sizing, for any amounts, capacities and sets of nodes.     *)
(*                                                                         *)
(* The library's induction theorems take the induction formula as an       *)
(* operator, which the provers cannot instantiate.  Induction is done here *)
(* on a set of naturals instead (`SetInduction`), over the cardinality of  *)
(* the nodes a sum is taken of.                                            *)
(***************************************************************************)
EXTENDS Sizing, FiniteSetTheorems, WellFoundedInduction, TLAPS

\* Naturals have a least element, and Min finds it.
LEMMA MinIsIn ==
  ASSUME NEW S, S \subseteq Nat, S # {}
  PROVE  Min(S) \in S /\ \A x \in S : Min(S) <= x
<1>1. PICK x \in S : \A y \in S : <<y, x>> \notin OpToRel(<, Nat)
  BY NatLessThanWellFounded, WFMin, Zenon
<1>2. \A y \in S : ~ (y < x)
  <2> TAKE y \in S
  <2>1. x \in Nat /\ y \in Nat
    OBVIOUS
  <2> QED
    BY <1>1, <2>1, Zenon DEF OpToRel
<1>3. \A y \in S : x <= y
  BY <1>2
<1> QED
  BY <1>3 DEF Min

\* A set with 0 and the successor of each of its naturals has all of them.
LEMMA SetInduction ==
  ASSUME NEW K, 0 \in K, \A n \in Nat : n \in K => n + 1 \in K
  PROVE  \A n \in Nat : n \in K
<1> DEFINE B == Nat \ K
           m == Min(B)
<1>1. SUFFICES ASSUME B # {} PROVE FALSE
  OBVIOUS
<1>2. m \in B /\ \A x \in B : m <= x
  <2>1. B \subseteq Nat
    OBVIOUS
  <2> HIDE DEF B
  <2> QED
    BY <1>1, <2>1, MinIsIn
<1> HIDE DEF m
<1>3. m \in Nat /\ m # 0 /\ m - 1 \in Nat
  BY <1>2
<1>4. m - 1 \in K
  BY <1>2, <1>3
<1>5. (m - 1) + 1 \in K
  BY <1>3, <1>4
<1> QED
  BY <1>2, <1>3, <1>5

-----------------------------------------------------------------------------
\* What a fold over the subsets of S satisfies when it sums r.
SumEq(g, f, r, S) ==
  g = [s \in SUBSET S |->
         IF s = {} THEN 0
         ELSE f[CHOOSE x \in s : TRUE][r] + g[s \ {CHOOSE x \in s : TRUE}]]

\* Total is the value at S of such a function.
LEMMA TotalIsSum ==
  ASSUME NEW f, NEW r, NEW S
  PROVE  Total(f, S, r) = (CHOOSE g : SumEq(g, f, r, S))[S]
  BY DEF Total, MapThenSumSet, MapThenFoldSet, SumEq

\* Two such functions agree on the finite sets they share.
LEMMA SumsAgree ==
  ASSUME NEW f, NEW r, NEW S, NEW T, NEW g, NEW h, SumEq(g, f, r, S), SumEq(h, f, r, T),
         NEW s \in SUBSET (S \cap T), IsFiniteSet(s)
  PROVE  g[s] = h[s]
<1> DEFINE K == {k \in Nat : \A u \in SUBSET (S \cap T) :
                   IsFiniteSet(u) /\ Cardinality(u) = k => g[u] = h[u]}
<1>1. 0 \in K
  <2>1. ASSUME NEW u \in SUBSET (S \cap T), IsFiniteSet(u), Cardinality(u) = 0
        PROVE  g[u] = h[u]
    <3>1. u = {} /\ u \in SUBSET S /\ u \in SUBSET T
      BY <2>1, FS_EmptySet
    <3> QED
      BY <3>1 DEF SumEq
  <2> QED
    BY <2>1
<1>2. ASSUME NEW k \in Nat, k \in K PROVE k + 1 \in K
  <2>1. ASSUME NEW u \in SUBSET (S \cap T), IsFiniteSet(u), Cardinality(u) = k + 1
        PROVE  g[u] = h[u]
    <3> DEFINE x == CHOOSE y \in u : TRUE
    <3>1. u # {}
      BY <2>1, FS_EmptySet
    <3>2. x \in u
      BY <3>1
    <3> HIDE DEF x
    <3>3. IsFiniteSet(u \ {x}) /\ Cardinality(u \ {x}) = k
      <4>1. /\ IsFiniteSet(u \ {x})
            /\ Cardinality(u \ {x}) = Cardinality(u) - 1
        BY <2>1, <3>2, FS_RemoveElement
      <4> QED
        BY <2>1, <4>1
    <3>4. g[u \ {x}] = h[u \ {x}]
      BY <1>2, <3>3
    <3>5. u \in SUBSET S /\ u \in SUBSET T
      OBVIOUS
    <3>6. g[u] = f[x][r] + g[u \ {x}]
      BY <3>1, <3>5 DEF SumEq, x
    <3>7. h[u] = f[x][r] + h[u \ {x}]
      BY <3>1, <3>5 DEF SumEq, x
    <3> QED
      BY <3>4, <3>6, <3>7
  <2> QED
    BY <2>1
<1>3. \A n \in Nat : n \in K
  <2> HIDE DEF K
  <2> QED
    BY <1>1, <1>2, SetInduction
<1>4. Cardinality(s) \in Nat
  BY FS_CardinalityType
<1> QED
  BY <1>3, <1>4

\* There is such a function on the subsets of a finite set.
LEMMA SumExists ==
  ASSUME NEW f, NEW r, NEW S, IsFiniteSet(S)
  PROVE  \E g : SumEq(g, f, r, S)
<1> DEFINE pick(s) == CHOOSE x \in s : TRUE
           upto(k) == {s \in SUBSET S : Cardinality(s) <= k}
           Eq(g, k) == \A s \in upto(k) : g[s] = IF s = {} THEN 0
                                        ELSE f[pick(s)][r] + g[s \ {pick(s)}]
           K == {k \in Nat : \E g : Eq(g, k)}
<1>0. \A s \in SUBSET S : IsFiniteSet(s) /\ Cardinality(s) \in Nat
  BY FS_Subset, FS_CardinalityType
<1>1. 0 \in K
  <2> DEFINE g == [s \in SUBSET S |-> 0]
  <2>1. \A s \in upto(0) : s = {}
    BY <1>0, FS_EmptySet
  <2>2. Eq(g, 0)
    BY <2>1
  <2> QED
    BY <2>2
<1>2. ASSUME NEW k \in Nat, k \in K PROVE k + 1 \in K
  <2>1. PICK g : Eq(g, k)
    BY <1>2
  <2> DEFINE h == [s \in SUBSET S |->
                     IF s = {} THEN 0
                     ELSE f[pick(s)][r] + (IF Cardinality(s) <= k + 1
                                           THEN g[s \ {pick(s)}] ELSE 0)]
  <2>2. ASSUME NEW s \in upto(k) PROVE h[s] = g[s]
    <3>1. Cardinality(s) <= k + 1
      BY <1>0
    <3>2. g[s] = IF s = {} THEN 0 ELSE f[pick(s)][r] + g[s \ {pick(s)}]
      BY <2>1
    <3> HIDE DEF pick
    <3> QED
      BY <3>1, <3>2
  <2>3. ASSUME NEW s \in upto(k + 1), s # {}
        PROVE  h[s] = f[pick(s)][r] + h[s \ {pick(s)}]
    <3> DEFINE x == pick(s)
    <3>1. x \in s
      BY <2>3
    <3> HIDE DEF x
    <3>2. Cardinality(s \ {x}) = Cardinality(s) - 1
      BY <1>0, <3>1, FS_RemoveElement
    <3>3. s \ {x} \in upto(k)
      BY <1>0, <3>2
    <3>4. h[s \ {x}] = g[s \ {x}]
      BY <2>2, <3>3
    <3>5. h[s] = f[x][r] + g[s \ {x}]
      BY <2>3 DEF x
    <3> QED
      BY <3>4, <3>5 DEF x
  <2>4. Eq(h, k + 1)
    <3> SUFFICES ASSUME NEW s \in upto(k + 1)
                 PROVE  h[s] = IF s = {} THEN 0 ELSE f[pick(s)][r] + h[s \ {pick(s)}]
      OBVIOUS
    <3>1. CASE s = {}
      BY <3>1
    <3>2. CASE s # {}
      <4> HIDE DEF h, pick
      <4> QED
        BY <2>3, <3>2
    <3> QED
      BY <3>1, <3>2
  <2> HIDE DEF h, Eq
  <2> QED
    BY <2>4
<1>3. Cardinality(S) \in K
  <2> HIDE DEF K
  <2> QED
    BY <1>0, <1>1, <1>2, SetInduction
<1>4. PICK g : Eq(g, Cardinality(S))
  BY <1>3
<1>5. \A s \in SUBSET S : s \in upto(Cardinality(S))
  BY FS_Subset
<1> DEFINE h == [s \in SUBSET S |-> g[s]]
<1>6. \A s \in SUBSET S : s # {} => s \ {pick(s)} \in SUBSET S
  OBVIOUS
<1>7. SumEq(h, f, r, S)
  <2>1. \A s \in SUBSET S : h[s] = IF s = {} THEN 0
                              ELSE f[pick(s)][r] + h[s \ {pick(s)}]
    BY <1>4, <1>5, <1>6
  <2> QED
    BY <2>1 DEF SumEq
<1> QED
  BY <1>7

\* The sum over a set is that of one of its elements and of the rest.
LEMMA TotalUnfold ==
  ASSUME NEW f, NEW r, NEW S, IsFiniteSet(S)
  PROVE  /\ S = {} => Total(f, S, r) = 0
         /\ S # {} => \E x \in S : Total(f, S, r) = f[x][r] + Total(f, S \ {x}, r)
<1> DEFINE G(s) == CHOOSE g : SumEq(g, f, r, s)
<1>1. \A s \in SUBSET S : SumEq(G(s), f, r, s)
  BY SumExists, FS_Subset
<1>2. \A s \in SUBSET S : Total(f, s, r) = G(s)[s]
  BY TotalIsSum
<1>3. \A s \in SUBSET S : G(S)[s] = G(s)[s]
  <2> TAKE s \in SUBSET S
  <2>1. SumEq(G(S), f, r, S) /\ SumEq(G(s), f, r, s) /\ IsFiniteSet(s)
    BY <1>1, FS_Subset
  <2>2. s \in SUBSET (S \cap s)
    OBVIOUS
  <2> HIDE DEF G
  <2> QED
    BY <2>1, <2>2, SumsAgree
<1> HIDE DEF G
<1>4. G(S) = [s \in SUBSET S |->
                IF s = {} THEN 0
                ELSE f[CHOOSE x \in s : TRUE][r] + G(S)[s \ {CHOOSE x \in s : TRUE}]]
  BY <1>1 DEF SumEq
<1>5. CASE S = {}
  BY <1>2, <1>4, <1>5
<1>6. CASE S # {}
  <2> DEFINE x == CHOOSE y \in S : TRUE
  <2>1. x \in S
    BY <1>6
  <2>2. G(S)[S] = f[x][r] + G(S)[S \ {x}]
    BY <1>4, <1>6
  <2> HIDE DEF x
  <2>3. Total(f, S, r) = f[x][r] + Total(f, S \ {x}, r)
    BY <1>2, <1>3, <2>2
  <2> QED
    BY <1>6, <2>1, <2>3
<1> QED
  BY <1>5, <1>6

\* A sum of naturals is a natural.
LEMMA TotalTyped ==
  ASSUME NEW f, NEW r, NEW S, IsFiniteSet(S), \A n \in S : f[n][r] \in Nat
  PROVE  Total(f, S, r) \in Nat
<1> DEFINE K == {k \in Nat : \A s \in SUBSET S : Cardinality(s) = k => Total(f, s, r) \in Nat}
<1>0. \A s \in SUBSET S : IsFiniteSet(s) /\ Cardinality(s) \in Nat
  BY FS_Subset, FS_CardinalityType
<1>1. 0 \in K
  <2>1. ASSUME NEW s \in SUBSET S, Cardinality(s) = 0 PROVE Total(f, s, r) \in Nat
    <3>1. s = {}
      BY <1>0, <2>1, FS_EmptySet
    <3> QED
      BY <1>0, <3>1, TotalUnfold
  <2> QED
    BY <2>1
<1>2. ASSUME NEW k \in Nat, k \in K PROVE k + 1 \in K
  <2>1. ASSUME NEW s \in SUBSET S, Cardinality(s) = k + 1 PROVE Total(f, s, r) \in Nat
    <3>1. IsFiniteSet(s) /\ s # {}
      BY <1>0, <2>1, FS_EmptySet
    <3>2. PICK x \in s : Total(f, s, r) = f[x][r] + Total(f, s \ {x}, r)
      BY <3>1, TotalUnfold
    <3>3. Cardinality(s \ {x}) = Cardinality(s) - 1
      BY <3>1, FS_RemoveElement
    <3>4. s \ {x} \in SUBSET S /\ Cardinality(s \ {x}) = k
      BY <2>1, <3>3
    <3>5. Total(f, s \ {x}, r) \in Nat
      BY <1>2, <3>4
    <3> QED
      BY <3>2, <3>5
  <2> QED
    BY <2>1
<1>3. Cardinality(S) \in K
  <2> HIDE DEF K
  <2> QED
    BY <1>0, <1>1, <1>2, SetInduction
<1> QED
  BY <1>3

\* Any element may be taken out of a sum first.
LEMMA TotalRemove ==
  ASSUME NEW f, NEW r, NEW S, IsFiniteSet(S), \A n \in S : f[n][r] \in Nat
  PROVE  \A n \in S : Total(f, S, r) = f[n][r] + Total(f, S \ {n}, r)
<1> DEFINE Good(s) == \A n \in s : Total(f, s, r) = f[n][r] + Total(f, s \ {n}, r)
           K == {k \in Nat : \A s \in SUBSET S : Cardinality(s) = k => Good(s)}
<1>0. \A s \in SUBSET S : IsFiniteSet(s) /\ Cardinality(s) \in Nat
  BY FS_Subset, FS_CardinalityType
<1>1. 0 \in K
  <2>1. ASSUME NEW s \in SUBSET S, Cardinality(s) = 0 PROVE Good(s)
    <3>1. s = {}
      BY <1>0, <2>1, FS_EmptySet
    <3> QED
      BY <1>0, <3>1, TotalUnfold
  <2> QED
    BY <2>1
<1>2. ASSUME NEW k \in Nat, k \in K PROVE k + 1 \in K
  <2>1. ASSUME NEW s \in SUBSET S, Cardinality(s) = k + 1 PROVE Good(s)
    <3>1. IsFiniteSet(s) /\ s # {}
      BY <1>0, <2>1, FS_EmptySet
    <3>2. PICK x \in s : Total(f, s, r) = f[x][r] + Total(f, s \ {x}, r)
      BY <3>1, TotalUnfold
    <3>3. \A y \in s : Cardinality(s \ {y}) = k
      <4> TAKE y \in s
      <4>1. Cardinality(s \ {y}) = Cardinality(s) - 1
        BY <3>1, FS_RemoveElement
      <4> QED
        BY <2>1, <4>1
    <3>4. \A y \in s : Good(s \ {y})
      <4> TAKE y \in s
      <4>1. s \ {y} \in SUBSET S /\ Cardinality(s \ {y}) = k
        BY <3>3
      <4> HIDE DEF Good
      <4> QED
        BY <1>2, <4>1
    <3>6. ASSUME NEW n \in s, n # x
          PROVE  Total(f, s, r) = f[n][r] + Total(f, s \ {n}, r)
      <4>1. (s \ {x}) \ {n} = (s \ {n}) \ {x} /\ n \in s \ {x} /\ x \in s \ {n}
        BY <3>6
      <4> DEFINE both == Total(f, (s \ {x}) \ {n}, r)
      <4>2. Total(f, s \ {x}, r) = f[n][r] + both
        BY <3>4, <4>1
      <4>3. Total(f, s \ {n}, r) = f[x][r] + both
        BY <3>4, <4>1
      <4>4. both \in Nat
        <5> DEFINE u == (s \ {x}) \ {n}
        <5>1. u \in SUBSET S
          OBVIOUS
        <5> HIDE DEF u
        <5>2. IsFiniteSet(u) /\ \A m \in u : f[m][r] \in Nat
          BY <1>0, <5>1
        <5>3. Total(f, u, r) \in Nat
          BY <5>2, TotalTyped
        <5> QED
          BY <5>3 DEF u
      <4> HIDE DEF both
      <4>5. f[n][r] \in Nat /\ f[x][r] \in Nat
        OBVIOUS
      <4> QED
        BY <3>2, <4>2, <4>3, <4>4, <4>5
    <3> QED
      BY <3>2, <3>6
  <2> HIDE DEF Good
  <2> QED
    BY <2>1
<1>3. Cardinality(S) \in K
  <2> HIDE DEF K
  <2> QED
    BY <1>0, <1>1, <1>2, SetInduction
<1> HIDE DEF Good
<1>4. Good(S)
  BY <1>3
<1> QED
  BY <1>4 DEF Good

\* What T holds at c each.
Shares(T, c) == Cardinality(T) * c

\* Equal shares of a part of the set: their number is what counts.
LEMMA TotalCounts ==
  ASSUME NEW f, NEW r, NEW S, IsFiniteSet(S), NEW B, NEW c \in Nat,
         \A n \in S \cap B : f[n][r] = c, \A n \in S \ B : f[n][r] = 0
  PROVE  Total(f, S, r) = Shares(S \cap B, c)
<1> DEFINE K == {k \in Nat : \A s \in SUBSET S : Cardinality(s) = k =>
                               Total(f, s, r) = Cardinality(s \cap B) * c}
<1>0. \A s \in SUBSET S : /\ IsFiniteSet(s) /\ Cardinality(s) \in Nat
                          /\ IsFiniteSet(s \cap B) /\ Cardinality(s \cap B) \in Nat
  BY FS_Subset, FS_CardinalityType, FS_Intersection
<1>1. 0 \in K
  <2>1. ASSUME NEW s \in SUBSET S, Cardinality(s) = 0
        PROVE  Total(f, s, r) = Cardinality(s \cap B) * c
    <3>1. s = {} /\ s \cap B = {}
      BY <1>0, <2>1, FS_EmptySet
    <3>2. Total(f, s, r) = 0 /\ Cardinality(s \cap B) = 0
      BY <1>0, <3>1, TotalUnfold, FS_EmptySet
    <3> QED
      BY <3>2
  <2> QED
    BY <2>1
<1>2. ASSUME NEW k \in Nat, k \in K PROVE k + 1 \in K
  <2>1. ASSUME NEW s \in SUBSET S, Cardinality(s) = k + 1
        PROVE  Total(f, s, r) = Cardinality(s \cap B) * c
    <3>1. IsFiniteSet(s) /\ s # {}
      <4>1. IsFiniteSet(s)
        BY <1>0
      <4>2. k + 1 # 0
        OBVIOUS
      <4>3. Cardinality(s) # 0
        BY <2>1, <4>2
      <4> QED
        BY <4>1, <4>3, FS_EmptySet
    <3>2. PICK x \in s : Total(f, s, r) = f[x][r] + Total(f, s \ {x}, r)
      BY <3>1, TotalUnfold
    <3>3. Cardinality(s \ {x}) = Cardinality(s) - 1
      BY <3>1, FS_RemoveElement
    <3>4. s \ {x} \in SUBSET S /\ Cardinality(s \ {x}) = k
      BY <2>1, <3>3
    <3>5. Total(f, s \ {x}, r) = Cardinality((s \ {x}) \cap B) * c
      BY <1>2, <3>4
    <3> DEFINE q == Cardinality(s \cap B)
               p == Cardinality((s \ {x}) \cap B)
    <3>6. q \in Nat /\ p \in Nat
      BY <1>0, <3>4
    <3>7. (s \ {x}) \cap B = (s \cap B) \ {x}
      OBVIOUS
    <3>8. p = IF x \in B THEN q - 1 ELSE q
      <4>1. IsFiniteSet(s \cap B)
        BY <1>0
      <4>2. Cardinality((s \cap B) \ {x}) =
              IF x \in s \cap B THEN Cardinality(s \cap B) - 1 ELSE Cardinality(s \cap B)
        BY <4>1, FS_RemoveElement
      <4> QED
        BY <3>7, <4>2
    <3>9. f[x][r] = IF x \in B THEN c ELSE 0
      OBVIOUS
    <3> HIDE DEF p, q
    <3>10. Total(f, s, r) = f[x][r] + p * c
      BY <3>2, <3>5 DEF p
    <3>11. CASE x \in B
      <4>1. Total(f, s, r) = c + (q - 1) * c
        BY <3>8, <3>9, <3>10, <3>11
      <4> QED
        BY <3>6, <4>1 DEF q
    <3>12. CASE x \notin B
      <4>1. Total(f, s, r) = 0 + q * c
        BY <3>8, <3>9, <3>10, <3>12
      <4>2. q * c \in Nat
        BY <3>6
      <4> QED
        BY <4>1, <4>2 DEF q
    <3> QED
      BY <3>11, <3>12
  <2> QED
    BY <2>1
<1>3. Cardinality(S) \in K
  <2> HIDE DEF K
  <2> QED
    BY <1>0, <1>1, <1>2, SetInduction
<1> QED
  BY <1>3 DEF Shares

-----------------------------------------------------------------------------
\* A finite set of naturals is bounded.
LEMMA FiniteIsBounded ==
  ASSUME NEW S, S \subseteq Nat, IsFiniteSet(S)
  PROVE  \E b \in Nat : \A x \in S : x <= b
<1> DEFINE Bounded(s) == \E b \in Nat : \A x \in s : x <= b
           K == {k \in Nat : \A s \in SUBSET S : Cardinality(s) = k => Bounded(s)}
<1>0. \A s \in SUBSET S : IsFiniteSet(s) /\ Cardinality(s) \in Nat
  BY FS_Subset, FS_CardinalityType
<1>1. 0 \in K
  <2>1. ASSUME NEW s \in SUBSET S, Cardinality(s) = 0 PROVE Bounded(s)
    <3>1. s = {} /\ 0 \in Nat
      BY <1>0, <2>1, FS_EmptySet
    <3> QED
      BY <3>1
  <2> QED
    BY <2>1
<1>2. ASSUME NEW k \in Nat, k \in K PROVE k + 1 \in K
  <2>1. ASSUME NEW s \in SUBSET S, Cardinality(s) = k + 1 PROVE Bounded(s)
    <3>1. PICK x \in s : TRUE
      <4>1. IsFiniteSet(s) /\ Cardinality(s) # 0
        BY <1>0, <2>1
      <4>2. s # {}
        BY <4>1, FS_EmptySet
      <4> QED
        BY <4>2
    <3>2. Cardinality(s \ {x}) = Cardinality(s) - 1
      BY <1>0, FS_RemoveElement
    <3>3. s \ {x} \in SUBSET S /\ Cardinality(s \ {x}) = k
      BY <2>1, <3>2
    <3>4. Bounded(s \ {x})
      <4> HIDE DEF Bounded
      <4> QED
        BY <1>2, <3>3
    <3>5. PICK b \in Nat : \A y \in s \ {x} : y <= b
      BY <3>4
    <3>6. x \in Nat
      OBVIOUS
    <3>7. CASE x <= b
      BY <3>5, <3>7
    <3>8. CASE b <= x
      <4>1. \A y \in s : y \in Nat /\ y <= x
        BY <3>5, <3>6, <3>8
      <4> QED
        BY <3>6, <4>1
    <3> QED
      BY <3>6, <3>7, <3>8
  <2> HIDE DEF Bounded
  <2> QED
    BY <2>1
<1>3. Cardinality(S) \in K
  <2> HIDE DEF K
  <2> QED
    BY <1>0, <1>1, <1>2, SetInduction
<1> HIDE DEF Bounded
<1>4. Bounded(S)
  BY <1>3
<1> QED
  BY <1>4 DEF Bounded

\* So it has a greatest element, and Max finds it.
LEMMA MaxIsGreatest ==
  ASSUME NEW S, S \subseteq Nat, S # {}, IsFiniteSet(S)
  PROVE  Max(S) \in S /\ \A x \in S : x <= Max(S)
<1> DEFINE U == {u \in Nat : \A x \in S : x <= u}
           m == Min(U)
<1>1. U \subseteq Nat /\ U # {}
  BY FiniteIsBounded
<1>2. m \in U /\ \A u \in U : m <= u
  <2> HIDE DEF U
  <2> QED
    BY <1>1, MinIsIn
<1> HIDE DEF m
<1>3. m \in S
  <2>1. SUFFICES ASSUME m \notin S PROVE FALSE
    OBVIOUS
  <2>2. \A x \in S : x < m
    BY <1>2, <2>1
  <2>3. m \in Nat /\ m > 0
    <3>1. PICK x \in S : TRUE
      OBVIOUS
    <3> QED
      BY <1>2, <2>2, <3>1
  <2>4. m - 1 \in U
    BY <2>2, <2>3
  <2>5. m <= m - 1
    BY <1>2, <2>4
  <2> QED
    BY <2>3, <2>5
<1>4. \A x \in S : x <= m
  BY <1>2
<1>5. Max(S) = m
  <2>1. \A x \in S : (\A y \in S : x >= y) => x = m
    BY <1>3, <1>4
  <2> QED
    BY <1>3, <1>4, <2>1, Zenon DEF Max
<1> QED
  BY <1>3, <1>4, <1>5

-----------------------------------------------------------------------------
\* Rounding up: CeilDiv(v, c) nodes of capacity c hold v, and no fewer do.
LEMMA CeilDivIsLeast ==
  ASSUME NEW v \in Nat, NEW c \in Nat \ {0}
  PROVE  /\ CeilDiv(v, c) \in Nat
         /\ \A k \in Nat : k * c >= v <=> k >= CeilDiv(v, c)
<1> DEFINE q == CeilDiv(v, c)
<1>1. q \in Int /\ q * c <= v + c - 1 /\ v <= q * c
  <2>1. \A x \in Nat : /\ x \div c \in Int
                       /\ (x \div c) * c <= x /\ x < (x \div c) * c + c
    OBVIOUS
  <2> QED
    BY <2>1 DEF CeilDiv
<1>2. q >= 0
  BY <1>1
<1>3. ASSUME NEW k \in Nat, k >= q PROVE k * c >= v
  BY <1>1, <1>3
<1>4. ASSUME NEW k \in Nat, k < q PROVE k * c < v
  <2> HIDE DEF q
  <2>1. (q - 1) * c < v
    BY <1>1
  <2>2. k <= q - 1
    BY <1>1, <1>4
  <2>3. k * c <= (q - 1) * c
    BY <1>1, <2>2
  <2> QED
    BY <1>1, <2>1, <2>3
<1> HIDE DEF q
<1>5. q \in Nat /\ \A k \in Nat : k * c >= v <=> k >= q
  BY <1>1, <1>2, <1>3, <1>4
<1> QED
  BY <1>5 DEF q

\* NodesFor is enough for every resource the shortfall is sized on, and no
\* number of nodes below it is: _size() neither rounds a fraction of a node away
\* nor sizes on another resource than the one that needs most.
THEOREM NodesForIsLeast ==
  ASSUME NEW short, NEW one, IsFiniteSet(DOMAIN short),
         \A r \in DOMAIN short : short[r] \in Nat /\ one[r] \in Nat
  PROVE  /\ NodesFor(short, one) \in Nat
         /\ \A k \in Nat :
              k >= NodesFor(short, one) <=>
                \A r \in SizedOn(short, one) : k * one[r] >= short[r]
<1> DEFINE C(r) == CeilDiv(short[r], one[r])
           D == SizedOn(short, one)
           S == {C(r) : r \in D} \cup {0}
<1>1. ASSUME NEW r \in D
      PROVE  C(r) \in Nat /\ \A k \in Nat : k * one[r] >= short[r] <=> k >= C(r)
  <2>1. short[r] \in Nat /\ one[r] \in Nat \ {0}
    BY DEF SizedOn
  <2> QED
    BY <2>1, CeilDivIsLeast
<1>2. NodesFor(short, one) = Max(S)
  BY DEF NodesFor
<1>3. S \subseteq Nat /\ S # {}
  BY <1>1
<1>4. \A k \in Nat : (\A x \in S : k >= x) <=> \A r \in D : k * one[r] >= short[r]
  <2> HIDE DEF C, D
  <2> QED
    BY <1>1
<1>5. IsFiniteSet(S)
  <2> DEFINE T == {C(r) : r \in D}
             g == [r \in D |-> C(r)]
  <2>1. IsFiniteSet(D)
    BY FS_Subset DEF SizedOn
  <2>2. g \in Surjection(D, T)
    <3> HIDE DEF C, D
    <3> QED
      BY DEF Surjection
  <2>3. IsFiniteSet(T)
    <3> HIDE DEF g, T, D
    <3> QED
      BY <2>1, <2>2, FS_Surjection
  <2> HIDE DEF T
  <2>4. IsFiniteSet(T \cup {0})
    BY <2>3, FS_AddElement
  <2> QED
    BY <2>4 DEF T
<1> HIDE DEF S, D
<1>6. Max(S) \in S /\ \A x \in S : x <= Max(S)
  BY <1>3, <1>5, MaxIsGreatest
<1>7. \A k \in Nat : k >= Max(S) <=> \A x \in S : k >= x
  <2>1. \A x \in S : x \in Nat
    BY <1>3
  <2> DEFINE m == Max(S)
  <2>2. m \in S /\ m \in Nat /\ \A x \in S : x <= m
    BY <1>6, <2>1
  <2> HIDE DEF m
  <2>3. ASSUME NEW k \in Nat, k >= m, NEW x \in S PROVE k >= x
    BY <2>1, <2>2, <2>3
  <2>4. \A k \in Nat : k >= m <=> \A x \in S : k >= x
    BY <2>2, <2>3
  <2> QED
    BY <2>4 DEF m
<1> QED
  BY <1>2, <1>3, <1>4, <1>6, <1>7 DEF D

-----------------------------------------------------------------------------
\* Headroom.  When the floor has no opinion of the awake pool, a node that
\* carries nothing may go: the rest of the pool is below the threshold on the
\* same load, in every resource it still has any of.
THEOREM NoOpinionLeavesRoom ==
  ASSUME NEW load, NEW cap, NEW awake, NEW idle \in SUBSET awake, NEW resources,
         NEW pct \in 1 .. 100, IsFiniteSet(awake),
         \A n \in awake, r \in resources : cap[n][r] \in Nat /\ load[n][r] \in Nat,
         HeadroomFloor(load, cap, awake, idle, resources, pct) = 0,
         NEW n \in idle, NEW r \in resources, Total(cap, awake \ {n}, r) > 0
  PROVE  ~ Full(Total(load, awake, r), Total(cap, awake \ {n}, r), pct)
<1> DEFINE used(q)  == Total(load, awake, q)
           total(q) == Total(cap, awake, q)
           left == Total(cap, awake \ {n}, r)
           caps == {cap[m][r] : m \in idle}
           rest(q) == total(q) - Max({cap[m][q] : m \in idle})
           sized == {q \in resources : total(q) > 0}
           asks == \E q \in sized : Full(used(q), total(q), pct)
           holds == /\ Cardinality(awake) >= 2 /\ idle # {}
                    /\ \E q \in sized : Full(used(q), rest(q), pct)
<1>1. Cardinality(awake) \in Nat /\ IsFiniteSet(awake \ {n}) /\ IsFiniteSet(idle)
  BY FS_CardinalityType, FS_RemoveElement, FS_Subset
<1>2. used(r) \in Nat /\ total(r) \in Nat /\ left \in Nat /\ cap[n][r] \in Nat
  BY <1>1, TotalTyped
<1>3. total(r) = cap[n][r] + left
  BY TotalRemove
<1>4. ~ asks /\ ~ holds
  <2>1. HeadroomFloor(load, cap, awake, idle, resources, pct) =
          IF pct = 0 THEN 0
          ELSE IF asks THEN Cardinality(awake) + 1
          ELSE IF holds THEN Cardinality(awake) ELSE 0
    BY DEF HeadroomFloor
  <2>2. holds => Cardinality(awake) > 0
    BY <1>1
  <2> HIDE DEF asks, holds
  <2> QED
    BY <1>1, <2>1, <2>2
<1>5. Cardinality(awake) >= 2
  <2>1. SUFFICES ASSUME Cardinality(awake) <= 1 PROVE FALSE
    BY <1>1
  <2>2. Cardinality(awake \ {n}) = Cardinality(awake) - 1
    BY FS_RemoveElement
  <2>3. Cardinality(awake \ {n}) \in Nat
    BY <1>1, FS_CardinalityType
  <2>4. Cardinality(awake \ {n}) = 0
    BY <1>1, <2>1, <2>2, <2>3
  <2>5. awake \ {n} = {}
    BY <1>1, <2>4, FS_EmptySet
  <2>6. left = 0
    BY <1>1, <2>5, TotalUnfold
  <2> QED
    BY <2>6
<1>6. r \in sized
  BY <1>2, <1>3
<1>7. Max(caps) \in Nat /\ cap[n][r] <= Max(caps)
  <2>1. caps \subseteq Nat /\ caps # {} /\ cap[n][r] \in caps
    OBVIOUS
  <2>2. IsFiniteSet(caps)
    <3> DEFINE g == [m \in idle |-> cap[m][r]]
    <3>1. g \in Surjection(idle, caps)
      BY DEF Surjection
    <3> HIDE DEF g, caps
    <3> QED
      BY <1>1, <3>1, FS_Surjection
  <2> HIDE DEF caps
  <2> QED
    BY <2>1, <2>2, MaxIsGreatest
<1>8. ~ Full(used(r), rest(r), pct)
  BY <1>4, <1>5, <1>6
<1>9. rest(r) = total(r) - Max(caps)
  OBVIOUS
<1> DEFINE u == used(r)
           z == rest(r)
           c == Max(caps)
           d == cap[n][r]
           tot == total(r)
<1>10. u \in Nat /\ z \in Int /\ z <= left /\ left \in Nat /\ left > 0
  BY <1>2, <1>3, <1>7, <1>9
<1>11. IF z > 0 THEN ~ (100 * u >= pct * z) ELSE ~ (u > 0)
  BY <1>8 DEF Full
<1> SUFFICES ~ (100 * u >= pct * left)
  BY DEF Full
<1> HIDE DEF u, z, left
<1>12. CASE z > 0
  <2>1. pct * z <= pct * left
    BY <1>10
  <2> QED
    BY <1>10, <1>11, <1>12, <2>1
<1>13. CASE ~ (z > 0)
  <2>1. u = 0
    BY <1>10, <1>11, <1>13
  <2>2. pct * left > 0
    BY <1>10
  <2> QED
    BY <1>10, <2>1, <2>2
<1> QED
  BY <1>12, <1>13

\* So the sleep is not regretted at the next tick: as long as no more is requested
\* of the pool, the floor for what is left of it does not ask for one node more.
THEOREM SleepIsNotRegretted ==
  ASSUME NEW load, NEW cap, NEW awake, NEW idle \in SUBSET awake, NEW resources,
         NEW pct \in 1 .. 100, IsFiniteSet(awake),
         \A m \in awake, r \in resources : cap[m][r] \in Nat /\ load[m][r] \in Nat,
         HeadroomFloor(load, cap, awake, idle, resources, pct) = 0,
         NEW n \in idle, NEW next, NEW idleNext,
         \A m \in awake \ {n}, r \in resources : next[m][r] \in Nat,
         \A r \in resources : Total(next, awake \ {n}, r) <= Total(load, awake, r)
  PROVE  HeadroomFloor(next, cap, awake \ {n}, idleNext, resources, pct)
           <= Cardinality(awake \ {n})
<1> DEFINE rest == awake \ {n}
           used(q)  == Total(next, rest, q)
           total(q) == Total(cap, rest, q)
           sized == {q \in resources : total(q) > 0}
           asks == \E q \in sized : Full(used(q), total(q), pct)
           holds == /\ Cardinality(rest) >= 2 /\ idleNext # {}
                    /\ \E q \in sized :
                         Full(used(q), total(q) - Max({cap[m][q] : m \in idleNext}), pct)
<1>1. IsFiniteSet(rest) /\ Cardinality(rest) \in Nat
  BY FS_RemoveElement, FS_CardinalityType
<1>2. ASSUME NEW q \in resources, total(q) > 0, Full(used(q), total(q), pct) PROVE FALSE
  <2> DEFINE u == used(q)
             w == Total(load, awake, q)
             z == total(q)
  <2>1. ~ Full(w, z, pct)
    BY <1>2, NoOpinionLeavesRoom
  <2>2. u \in Nat /\ w \in Nat /\ z \in Nat /\ u <= w
    BY <1>1, TotalTyped
  <2>3. z > 0 /\ Full(u, z, pct)
    BY <1>2
  <2> HIDE DEF u, w, z
  <2>4. 100 * u >= pct * z /\ ~ (100 * w >= pct * z)
    BY <2>1, <2>3 DEF Full
  <2> QED
    BY <2>2, <2>3, <2>4
<1>3. ~ asks
  BY <1>2
<1>4. HeadroomFloor(next, cap, rest, idleNext, resources, pct) =
        IF pct = 0 THEN 0
        ELSE IF asks THEN Cardinality(rest) + 1
        ELSE IF holds THEN Cardinality(rest) ELSE 0
  BY DEF HeadroomFloor
<1> HIDE DEF asks, holds, rest
<1>5. HeadroomFloor(next, cap, rest, idleNext, resources, pct) <= Cardinality(rest)
  BY <1>1, <1>3, <1>4
<1> QED
  BY <1>5 DEF rest
=============================================================================
