------------------------------ MODULE Extrema -------------------------------
(***************************************************************************)
(* Lemmas about the least, the greatest and the furthest of some numbers.  *)
(***************************************************************************)
EXTENDS Candles, FiniteSetsExt, WellFoundedInduction, TLAPS

\* Where a least number is known, it is the Min.
LEMMA LeastIs ==
  ASSUME NEW S \in SUBSET Int, NEW x \in S, \A y \in S : x <= y
  PROVE  Min(S) = x
<1>1. \A z \in S : (\A y \in S : z <= y) => z = x
  OBVIOUS
<1> QED
  BY <1>1 DEF Min

LEMMA TwoInts ==
  ASSUME NEW a \in Int, NEW b \in Int
  PROVE  /\ Max({a, b}) = (IF a >= b THEN a ELSE b)
         /\ Min({a, b}) = (IF a <= b THEN a ELSE b)
BY DEF Max, Min

\* The smallest and the largest element of an interval.
LEMMA IntervalEnds ==
  ASSUME NEW a \in Int, NEW b \in Int, a <= b
  PROVE  Min(a .. b) = a /\ Max(a .. b) = b
<1>1. /\ a \in a .. b /\ \A y \in a .. b : a <= y
      /\ b \in a .. b /\ \A y \in a .. b : b >= y
  OBVIOUS
<1>2. \A x \in a .. b : (\A y \in a .. b : x <= y) => x = a
  OBVIOUS
<1>3. \A x \in a .. b : (\A y \in a .. b : x >= y) => x = b
  OBVIOUS
<1> QED
  BY <1>1, <1>2, <1>3 DEF Min, Max

\* Bounded sets of numbers have a first and a last one.
LEMMA HasLeast ==
  ASSUME NEW S \in SUBSET Nat, S # {}
  PROVE  \E x \in S : \A y \in S : x <= y
<1>1. IsWellFoundedOn(OpToRel(<, Nat), Nat)
  BY NatLessThanWellFounded
<1>2. PICK x \in S : \A y \in S : ~(<<y, x>> \in OpToRel(<, Nat))
  BY <1>1, WFMin
<1>3. \A y \in S : ~(y < x)
  BY <1>2 DEF OpToRel
<1> QED
  BY <1>3

LEMMA HasGreatest ==
  ASSUME NEW S \in SUBSET Nat, S # {}, NEW b \in Nat, \A y \in S : y <= b
  PROVE  \E x \in S : \A y \in S : y <= x
<1> DEFINE T == {b - y : y \in S}
<1>1. T \in SUBSET Nat
  <2>1. \A y \in S : b - y \in Nat
    OBVIOUS
  <2> QED
    BY <2>1
<1>2. T # {}
  <2>1. PICK y \in S : TRUE
    OBVIOUS
  <2>2. b - y \in T
    OBVIOUS
  <2> QED
    BY <2>2
<1> HIDE DEF T
<1>3. PICK z \in T : \A y \in T : z <= y
  BY <1>1, <1>2, HasLeast
<1>4. PICK x \in S : z = b - x
  BY DEF T
<1>5. \A y \in S : b - x <= b - y
  BY <1>3, <1>4 DEF T
<1> QED
  BY <1>5

LEMMA MinMax ==
  ASSUME NEW S \in SUBSET Nat, S # {}, NEW b \in Nat, \A y \in S : y <= b
  PROVE  /\ Min(S) \in S /\ \A y \in S : Min(S) <= y
         /\ Max(S) \in S /\ \A y \in S : y <= Max(S)
<1>1. \E x \in S : \A y \in S : x <= y
  BY HasLeast
<1>2. \E x \in S : \A y \in S : x >= y
  BY HasGreatest
<1> QED
  BY <1>1, <1>2 DEF Min, Max

\* Of finitely many values one is as great as any.
LEMMA Peak ==
  ASSUME NEW n \in Nat, NEW V \in [1 .. n -> Int], NEW S \in SUBSET (1 .. n), S # {}
  PROVE  \E x \in S : \A k \in S : V[k] <= V[x]
<1> DEFINE P(m) == \E x \in S \cap (1 .. m) : \A k \in S \cap (1 .. m) : V[k] <= V[x]
           bad == {m \in 1 .. n : S \cap (1 .. m) # {} /\ ~P(m)}
<1>1. bad = {}
  <2> SUFFICES ASSUME bad # {} PROVE FALSE
    OBVIOUS
  <2>1. bad \in SUBSET Nat
    OBVIOUS
  <2> HIDE DEF bad
  <2>2. PICK m \in bad : \A y \in bad : m <= y
    BY <2>1, HasLeast
  <2> USE DEF bad
  <2>3. m \in 1 .. n /\ S \cap (1 .. m) # {} /\ ~P(m)
    BY <2>2
  <2> HIDE DEF P
  <2>4. S \cap (1 .. m - 1) = {} \/ P(m - 1)
    <3>1. m - 1 \notin bad
      BY <2>2, <2>3
    <3>2. m - 1 \in 1 .. n \/ 1 .. m - 1 = {}
      BY <2>3
    <3> QED
      BY <3>1, <3>2
  <2> HIDE DEF bad
  <2> USE DEF P
  <2>5. \A k \in S \cap (1 .. m) : k \in S \cap (1 .. m - 1) \/ k = m
    BY <2>3
  <2>6. \A k \in S : k \in 1 .. n /\ V[k] \in Int
    OBVIOUS
  <2>7. CASE S \cap (1 .. m - 1) = {}
    <3>1. m \in S \cap (1 .. m) /\ \A k \in S \cap (1 .. m) : k = m
      BY <2>3, <2>5, <2>7
    <3> QED
      BY <2>3, <2>6, <3>1
  <2>8. CASE P(m - 1)
    <3>1. PICK x \in S \cap (1 .. m - 1) : \A k \in S \cap (1 .. m - 1) : V[k] <= V[x]
      BY <2>8
    <3>2. x \in S \cap (1 .. m)
      BY <2>3
    <3>3. CASE m \in S /\ V[m] > V[x]
      <4>1. \A k \in S \cap (1 .. m) : V[k] <= V[m]
        BY <2>5, <2>6, <3>1, <3>3
      <4>2. m \in S \cap (1 .. m)
        BY <2>3, <3>3
      <4> QED
        BY <2>3, <4>1, <4>2
    <3>4. CASE ~(m \in S /\ V[m] > V[x])
      <4>1. \A k \in S \cap (1 .. m) : V[k] <= V[x]
        BY <2>5, <2>6, <3>1, <3>2, <3>4
      <4> QED
        BY <2>3, <3>2, <4>1
    <3> QED
      BY <3>3, <3>4
  <2> QED
    BY <2>4, <2>7, <2>8
<1>2. S \cap (1 .. n) = S /\ n \in 1 .. n
  <2>1. S \cap (1 .. n) = S
    OBVIOUS
  <2>2. PICK x \in S : x \in 1 .. n
    OBVIOUS
  <2> QED
    BY <2>1, <2>2
<1> HIDE DEF P
<1>3. P(n)
  BY <1>1, <1>2
<1> QED
  BY <1>2, <1>3 DEF P
=============================================================================
