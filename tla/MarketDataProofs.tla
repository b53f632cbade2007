-------------------------- MODULE MarketDataProofs --------------------------
(***************************************************************************)
(* Proofs about MarketData, for every market, calendar, window and number  *)
(* of runs.                                                                *)
(***************************************************************************)
EXTENDS MarketData, Extrema, FiniteSetTheorems, SequenceTheorems

\* A finite set has one arrangement in the order of a relation that is total on
\* it, and the arrangement has every member.
LEMMA ArrangedIs ==
  ASSUME NEW S, IsFiniteSet(S), NEW R,
         \A i \in S : <<i, i>> \notin R,
         \A i, j, k \in S : <<i, j>> \in R /\ <<j, k>> \in R => <<i, k>> \in R,
         \A i, j \in S : i = j \/ <<i, j>> \in R \/ <<j, i>> \in R
  PROVE  LET A == Arranged(S, R)
             N == Cardinality(S) IN
         /\ N \in Nat /\ A \in [1 .. N -> S]
         /\ \A m, n \in 1 .. N : m < n => <<A[m], A[n]>> \in R
         /\ \A i \in S : \E n \in 1 .. N : A[n] = i
<1> DEFINE N == Cardinality(S)
           Below(i) == {j \in S : <<j, i>> \in R}
           c == [i \in S |-> Cardinality(Below(i))]
           rank == [i \in S |-> c[i] + 1]
           A == Arranged(S, R)
<1>1. N \in Nat
  BY FS_CardinalityType
<1>2. \A i \in S : IsFiniteSet(Below(i)) /\ Cardinality(Below(i)) \in 0 .. N - 1
  <2> TAKE i \in S
  <2>1. IsFiniteSet(S \ {i}) /\ Cardinality(S \ {i}) = N - 1
    BY FS_RemoveElement
  <2>2. Below(i) \in SUBSET (S \ {i})
    OBVIOUS
  <2> HIDE DEF Below
  <2>3. IsFiniteSet(Below(i)) /\ Cardinality(Below(i)) <= Cardinality(S \ {i})
    BY <2>1, <2>2, FS_Subset
  <2>4. Cardinality(Below(i)) \in Nat
    BY <2>3, FS_CardinalityType
  <2> QED
    BY <1>1, <2>1, <2>3, <2>4
<1>3. \A i, j \in S : <<i, j>> \in R => c[i] < c[j]
  <2> SUFFICES ASSUME NEW i \in S, NEW j \in S, <<i, j>> \in R PROVE c[i] < c[j]
    OBVIOUS
  <2>1. i \notin Below(i) /\ IsFiniteSet(Below(i))
    BY <1>2
  <2>2. Cardinality(Below(i) \cup {i}) = Cardinality(Below(i)) + 1
    BY <2>1, FS_AddElement
  <2>3. Below(i) \cup {i} \in SUBSET Below(j)
    OBVIOUS
  <2>4. Cardinality(Below(i) \cup {i}) <= Cardinality(Below(j))
    BY <1>2, <2>3, FS_Subset
  <2>5. c[i] = Cardinality(Below(i)) /\ c[j] = Cardinality(Below(j))
    OBVIOUS
  <2> HIDE DEF Below
  <2>6. c[i] \in Nat /\ c[j] \in Nat
    BY <1>2
  <2> QED
    BY <2>2, <2>4, <2>5, <2>6
<1>13. \A i \in S : c[i] = Cardinality(Below(i))
  OBVIOUS
<1> HIDE DEF Below, c, N
<1>14. \A i \in S : c[i] \in 0 .. N - 1
  BY <1>2, <1>13
<1>4. \A i, j \in S : c[i] = c[j] => i = j
  <2> SUFFICES ASSUME NEW i \in S, NEW j \in S, c[i] = c[j], i # j PROVE FALSE
    OBVIOUS
  <2>1. c[i] \in Int /\ c[j] \in Int
    BY <1>1, <1>14
  <2>2. <<i, j>> \in R \/ <<j, i>> \in R
    OBVIOUS
  <2>3. c[i] < c[j] \/ c[j] < c[i]
    BY <1>3, <2>2
  <2> QED
    BY <2>1, <2>3
<1>5. rank \in Injection(S, 1 .. N)
  <2>1. rank \in [S -> 1 .. N]
    BY <1>1, <1>14
  <2>2. \A i, j \in S : rank[i] = rank[j] => i = j
    BY <1>1, <1>4, <1>14
  <2> QED
    BY <2>1, <2>2 DEF Injection, IsInjective
<1>6. IsFiniteSet(1 .. N) /\ Cardinality(1 .. N) = N
  BY <1>1, FS_Interval
<1>7. rank \in Surjection(S, 1 .. N)
  BY <1>5, <1>6, FS_Injection DEF N
<1>8. \A n \in 1 .. N : \E i \in S : c[i] = n - 1
  <2> TAKE n \in 1 .. N
  <2>1. PICK i \in S : rank[i] = n
    BY <1>7 DEF Surjection
  <2>2. c[i] + 1 = n
    BY <2>1
  <2> QED
    BY <1>1, <1>14, <2>2
<1>9. \A n \in 1 .. N : A[n] \in S /\ c[A[n]] = n - 1
  <2> TAKE n \in 1 .. N
  <2>1. A[n] = CHOOSE i \in S : Cardinality(Below(i)) = n - 1
    BY DEF Arranged, N, Below
  <2>2. \E i \in S : Cardinality(Below(i)) = n - 1
    BY <1>8, <1>13
  <2>3. A[n] \in S /\ Cardinality(Below(A[n])) = n - 1
    BY <2>1, <2>2
  <2> QED
    BY <2>3, <1>13
<1>10. A \in [1 .. N -> S]
  BY <1>9 DEF Arranged, N
<1> HIDE DEF A, rank
<1>11. \A m, n \in 1 .. N : m < n => <<A[m], A[n]>> \in R
  <2> SUFFICES ASSUME NEW m \in 1 .. N, NEW n \in 1 .. N, m < n PROVE <<A[m], A[n]>> \in R
    OBVIOUS
  <2>1. c[A[m]] = m - 1 /\ c[A[n]] = n - 1 /\ A[m] \in S /\ A[n] \in S
    BY <1>9
  <2>2. ~(<<A[n], A[m]>> \in R)
    BY <1>1, <1>3, <2>1
  <2>3. A[m] # A[n]
    BY <1>1, <2>1
  <2> QED
    BY <2>1, <2>2, <2>3
<1>12. \A i \in S : \E n \in 1 .. N : A[n] = i
  <2> TAKE i \in S
  <2> DEFINE n == c[i] + 1
  <2> HIDE DEF n
  <2>1. n \in 1 .. N /\ n - 1 = c[i]
    BY <1>1, <1>14 DEF n
  <2>2. A[n] \in S /\ c[A[n]] = c[i]
    BY <1>9, <2>1
  <2>3. A[n] = i
    BY <1>4, <2>2
  <2> QED
    BY <2>1, <2>3
<1> QED
  BY <1>1, <1>10, <1>11, <1>12 DEF A, N

\* Numbers in ascending order.
LEMMA AscendingIs ==
  ASSUME NEW V, V \subseteq Nat, NEW b \in Nat, \A i \in V : i <= b
  PROVE  LET A == Ascending(V) IN
         \E N \in Nat :
           /\ A \in [1 .. N -> V]
           /\ \A m, n \in 1 .. N : m < n => A[m] < A[n]
           /\ \A i \in V : \E n \in 1 .. N : A[n] = i
<1> DEFINE Q == {p \in V \X V : p[1] < p[2]}
<1>1. \A i, j \in V : <<i, j>> \in Q <=> i < j
  OBVIOUS
<1>2. IsFiniteSet(V)
  BY FS_BoundedSetOfNaturals
<1> HIDE DEF Q
<1>3. \A i \in V : <<i, i>> \notin Q
  BY <1>1
<1>4. \A i, j, k \in V : <<i, j>> \in Q /\ <<j, k>> \in Q => <<i, k>> \in Q
  BY <1>1
<1>5. \A i, j \in V : i = j \/ <<i, j>> \in Q \/ <<j, i>> \in Q
  <2> TAKE i, j \in V
  <2>1. i = j \/ i < j \/ j < i
    OBVIOUS
  <2> QED
    BY <1>1, <2>1
<1> DEFINE A == Arranged(V, Q)
           N == Cardinality(V)
<1>6. /\ N \in Nat /\ A \in [1 .. N -> V]
      /\ \A m, n \in 1 .. N : m < n => <<A[m], A[n]>> \in Q
      /\ \A i \in V : \E n \in 1 .. N : A[n] = i
  BY ONLY <1>2, <1>3, <1>4, <1>5, ArrangedIs
<1> HIDE DEF A, N
<1>7. \A m, n \in 1 .. N : m < n => A[m] < A[n]
  BY <1>1, <1>6
<1>8. A = Ascending(V)
  BY DEF A, Q, Ascending
<1> QED
  BY <1>6, <1>7, <1>8

----------------------------------------------------------------------------
\* What the normaliser does to rows of whole numbers of ticks.

\* The sort goes through all n rows, by slot and then as they were supplied.
SortedBy(n, rows, order) ==
  /\ order \in [1 .. n -> 1 .. n]
  /\ Sorted(rows) = [i \in 1 .. n |-> rows[order[i]]]
  /\ \A i, j \in 1 .. n : i < j =>
       \/ rows[order[i]].slot < rows[order[j]].slot
       \/ rows[order[i]].slot = rows[order[j]].slot /\ order[i] < order[j]
  /\ \A k \in 1 .. n : \E i \in 1 .. n : order[i] = k

LEMMA SortedIs ==
  ASSUME NEW n \in Nat, NEW rows, DOMAIN rows = 1 .. n, \A i \in 1 .. n : rows[i].slot \in Int
  PROVE  \E order : SortedBy(n, rows, order)
<1> DEFINE S == 1 .. n
           R == Earlier(rows)
           order == Arranged(S, R)
<1>1. IsFiniteSet(S) /\ Cardinality(S) = n
  BY FS_Interval
<1>2. \A i, j \in S : <<i, j>> \in R <=>
        rows[i].slot < rows[j].slot \/ (rows[i].slot = rows[j].slot /\ i < j)
  BY DEF Earlier
<1>3. \A i \in S : rows[i].slot \in Int /\ i \in Int
  OBVIOUS
<1> HIDE DEF R, S
<1>4. \A i \in S : <<i, i>> \notin R
  BY <1>2, <1>3
<1>5. \A i, j, k \in S : <<i, j>> \in R /\ <<j, k>> \in R => <<i, k>> \in R
  <2> TAKE i, j, k \in S
  <2>1. /\ rows[i].slot \in Int /\ rows[j].slot \in Int /\ rows[k].slot \in Int
        /\ i \in Int /\ j \in Int /\ k \in Int
    BY <1>3
  <2> QED
    BY <1>2, <2>1
<1>6. \A i, j \in S : i = j \/ <<i, j>> \in R \/ <<j, i>> \in R
  <2> TAKE i, j \in S
  <2>1. rows[i].slot \in Int /\ rows[j].slot \in Int /\ i \in Int /\ j \in Int
    BY <1>3
  <2> QED
    BY <1>2, <2>1
<1>7. /\ order \in [1 .. Cardinality(S) -> S]
      /\ \A i, j \in 1 .. Cardinality(S) : i < j => <<order[i], order[j]>> \in R
      /\ \A k \in S : \E i \in 1 .. Cardinality(S) : order[i] = k
  BY ONLY <1>1, <1>4, <1>5, <1>6, ArrangedIs
<1>8. Sorted(rows) = [i \in 1 .. n |-> rows[order[i]]]
  BY DEF Sorted, R, S
<1> HIDE DEF order
<1>9. /\ order \in [1 .. n -> 1 .. n]
      /\ \A i, j \in 1 .. n : i < j => <<order[i], order[j]>> \in R
      /\ \A k \in 1 .. n : \E i \in 1 .. n : order[i] = k
  BY <1>1, <1>7 DEF S
<1>10. \A i, j \in 1 .. n : i < j =>
         \/ rows[order[i]].slot < rows[order[j]].slot
         \/ rows[order[i]].slot = rows[order[j]].slot /\ order[i] < order[j]
  BY <1>2, <1>9 DEF S
<1> QED
  BY <1>8, <1>9, <1>10 DEF SortedBy

\* The rows picked are those at the indices, in the order of the indices.
PickedAt(rows, indices, c, at) ==
  /\ c \in Nat /\ at \in [1 .. c -> indices]
  /\ Picked(rows, indices) = [i \in 1 .. c |-> rows[at[i]]]
  /\ \A i, j \in 1 .. c : i < j => at[i] < at[j]
  /\ \A k \in indices : \E i \in 1 .. c : at[i] = k

LEMMA PickedIs ==
  ASSUME NEW n \in Nat, NEW rows, NEW indices \in SUBSET (1 .. n)
  PROVE  \E c, at : PickedAt(rows, indices, c, at)
<1>1. indices \in SUBSET Nat /\ \A k \in indices : k <= n
  OBVIOUS
<1> DEFINE at == Ascending(indices)
<1>2. PICK c \in Nat :
        /\ at \in [1 .. c -> indices]
        /\ \A i, j \in 1 .. c : i < j => at[i] < at[j]
        /\ \A k \in indices : \E i \in 1 .. c : at[i] = k
  BY <1>1, AscendingIs
<1>3. Picked(rows, indices) = [i \in DOMAIN at |-> rows[at[i]]]
  BY DEF Picked
<1> HIDE DEF at
<1>4. PickedAt(rows, indices, c, at)
  BY <1>2, <1>3 DEF PickedAt
<1> QED
  BY <1>4

\* Of the copies of a slot the one supplied last is kept, and the slots ascend.
LastOfSlots(n, rows, c, from) ==
  /\ c \in Nat /\ from \in [1 .. c -> 1 .. n]
  /\ DropDuplicates(Sorted(rows)) = [i \in 1 .. c |-> rows[from[i]]]
  /\ \A i, j \in 1 .. c : i < j => rows[from[i]].slot < rows[from[j]].slot
  /\ \A k \in 1 .. n :
       (\E i \in 1 .. c : from[i] = k)
         <=> \A j \in 1 .. n : rows[j].slot = rows[k].slot => j <= k

LEMMA DropDuplicatesIs ==
  ASSUME NEW n \in Nat, NEW rows, DOMAIN rows = 1 .. n, \A i \in 1 .. n : rows[i].slot \in Int
  PROVE  \E c, from : LastOfSlots(n, rows, c, from)
<1> DEFINE sorted == Sorted(rows)
           kept == {i \in DOMAIN sorted :
                      \A j \in DOMAIN sorted : i < j => sorted[j].slot # sorted[i].slot}
<1>14. PICK order : SortedBy(n, rows, order)
  BY SortedIs
<1>1. /\ order \in [1 .. n -> 1 .. n]
      /\ sorted = [i \in 1 .. n |-> rows[order[i]]]
      /\ \A i, j \in 1 .. n : i < j =>
           \/ rows[order[i]].slot < rows[order[j]].slot
           \/ rows[order[i]].slot = rows[order[j]].slot /\ order[i] < order[j]
      /\ \A k \in 1 .. n : \E i \in 1 .. n : order[i] = k
  BY <1>14 DEF SortedBy
<1>2. DropDuplicates(sorted) = Picked(sorted, kept)
  BY DEF DropDuplicates
<1> HIDE DEF sorted
<1>3. kept \in SUBSET (1 .. n)
  BY <1>1
<1>4. \A i \in 1 .. n : i \in kept <=>
        \A j \in 1 .. n : i < j => rows[order[j]].slot # rows[order[i]].slot
  BY <1>1
<1> HIDE DEF kept
<1>5. PICK c, at : PickedAt(sorted, kept, c, at)
  BY <1>3, PickedIs
<1>6. /\ c \in Nat /\ at \in [1 .. c -> kept]
      /\ Picked(sorted, kept) = [i \in 1 .. c |-> sorted[at[i]]]
      /\ \A i, j \in 1 .. c : i < j => at[i] < at[j]
      /\ \A k \in kept : \E i \in 1 .. c : at[i] = k
  BY <1>5 DEF PickedAt
<1> DEFINE from == [i \in 1 .. c |-> order[at[i]]]
<1>7. \A i \in 1 .. c : at[i] \in kept /\ at[i] \in 1 .. n /\ from[i] = order[at[i]]
  BY <1>3, <1>6
<1>8. from \in [1 .. c -> 1 .. n]
  BY <1>1, <1>7
<1> HIDE DEF from
<1>9. DropDuplicates(sorted) = [i \in 1 .. c |-> rows[from[i]]]
  <2>1. \A i \in 1 .. c : sorted[at[i]] = rows[from[i]]
    BY <1>1, <1>7
  <2> QED
    BY <1>2, <1>6, <2>1
<1>10. ASSUME NEW i \in 1 .. c, NEW j \in 1 .. c, i < j
       PROVE  rows[from[i]].slot < rows[from[j]].slot
  <2>1. at[i] \in 1 .. n /\ at[j] \in 1 .. n /\ at[i] < at[j]
    BY <1>6, <1>7, <1>10
  <2>2. rows[order[at[j]]].slot # rows[order[at[i]]].slot
    BY <1>4, <1>7, <2>1
  <2> QED
    BY <1>1, <1>7, <2>1, <2>2
<1>11. ASSUME NEW k \in 1 .. n, NEW i \in 1 .. c, from[i] = k
       PROVE  \A j \in 1 .. n : rows[j].slot = rows[k].slot => j <= k
  <2> SUFFICES ASSUME NEW j \in 1 .. n, rows[j].slot = rows[k].slot PROVE j <= k
    OBVIOUS
  <2>1. PICK m \in 1 .. n : order[m] = j
    BY <1>1
  <2>2. at[i] \in kept /\ at[i] \in 1 .. n /\ order[at[i]] = k
    BY <1>7, <1>11
  <2>3. ~(at[i] < m)
    BY <1>4, <2>1, <2>2
  <2>4. m = at[i] \/ m < at[i]
    BY <2>2, <2>3
  <2>5. CASE m < at[i]
    <3>1. rows[j].slot < rows[k].slot \/ j < k
      BY <1>1, <2>1, <2>2, <2>5
    <3>2. rows[j].slot \in Int /\ rows[k].slot \in Int
      OBVIOUS
    <3> QED
      BY <3>1, <3>2
  <2>6. CASE m = at[i]
    BY <2>1, <2>2, <2>6
  <2> QED
    BY <2>4, <2>5, <2>6
<1>12. ASSUME NEW k \in 1 .. n, \A j \in 1 .. n : rows[j].slot = rows[k].slot => j <= k
       PROVE  \E i \in 1 .. c : from[i] = k
  <2>1. PICK m \in 1 .. n : order[m] = k
    BY <1>1
  <2>2. ASSUME NEW j \in 1 .. n, m < j PROVE rows[order[j]].slot # rows[order[m]].slot
    <3>1. order[j] \in 1 .. n /\ order[m] \in 1 .. n
      BY <1>1
    <3>2. CASE rows[order[j]].slot = rows[order[m]].slot
      <4>1. order[j] <= order[m]
        BY <1>12, <2>1, <3>1, <3>2
      <4>2. ~(rows[order[m]].slot < rows[order[j]].slot)
        BY <3>1, <3>2
      <4>3. order[m] < order[j]
        BY <1>1, <2>2, <4>2
      <4> QED
        BY <3>1, <4>1, <4>3
    <3> QED
      BY <3>2
  <2>3. m \in kept
    BY <1>4, <2>2
  <2>4. PICK i \in 1 .. c : at[i] = m
    BY <1>6, <2>3
  <2> QED
    BY <1>7, <2>1, <2>4
<1>13. \A k \in 1 .. n :
         (\E i \in 1 .. c : from[i] = k)
           <=> \A j \in 1 .. n : rows[j].slot = rows[k].slot => j <= k
  BY <1>11, <1>12
<1>15. LastOfSlots(n, rows, c, from)
  BY <1>6, <1>8, <1>9, <1>10, <1>13 DEF sorted, LastOfSlots
<1> QED
  BY <1>15

\* The rows of the frame: the last copies, without the invalid ones.
ValidLastOfSlots(n, rows, c, from) ==
  LET F == FloorToGrid(rows) IN
  /\ c \in Nat /\ from \in [1 .. c -> 1 .. n]
  /\ Normalize(rows) = [i \in 1 .. c |-> F[from[i]]]
  /\ \A i, j \in 1 .. c : i < j => F[from[i]].slot < F[from[j]].slot
  /\ \A k \in 1 .. n :
       (\E i \in 1 .. c : from[i] = k)
         <=> /\ \A j \in 1 .. n : F[j].slot = F[k].slot => j <= k
             /\ WellFormed(F[k].bar)

LEMMA NormalizeIs ==
  ASSUME NEW n \in Nat, NEW rows, DOMAIN rows = 1 .. n, \A i \in 1 .. n : rows[i].at \in Nat
  PROVE  \E c, from : ValidLastOfSlots(n, rows, c, from)
<1> DEFINE F == FloorToGrid(rows)
           D == DropDuplicates(Sorted(F))
<1>1. DOMAIN F = 1 .. n /\ \A i \in 1 .. n : F[i].slot = rows[i].at \div GridStep
  BY DEF FloorToGrid
<1>2. \A i \in 1 .. n : F[i].slot \in Int
  <2> TAKE i \in 1 .. n
  <2>1. rows[i].at \in Int /\ GridStep \in Nat /\ GridStep > 0
    BY NormalizationAssumption
  <2>2. rows[i].at \div GridStep \in Int
    BY <2>1
  <2> QED
    BY <1>1, <2>2
<1> HIDE DEF F
<1>3. PICK d, from : LastOfSlots(n, F, d, from)
  BY <1>1, <1>2, DropDuplicatesIs
<1>4. /\ d \in Nat /\ from \in [1 .. d -> 1 .. n]
      /\ D = [i \in 1 .. d |-> F[from[i]]]
      /\ \A i, j \in 1 .. d : i < j => F[from[i]].slot < F[from[j]].slot
      /\ \A k \in 1 .. n :
           (\E i \in 1 .. d : from[i] = k)
             <=> \A j \in 1 .. n : F[j].slot = F[k].slot => j <= k
  BY <1>3 DEF LastOfSlots
<1> DEFINE valid == {i \in DOMAIN D : WellFormed(D[i].bar)}
<1>5. Normalize(rows) = Picked(D, valid)
  BY DEF Normalize, DropInvalid, F
<1> HIDE DEF D
<1>6. valid \in SUBSET (1 .. d)
  BY <1>4
<1>7. \A i \in 1 .. d : i \in valid <=> WellFormed(F[from[i]].bar)
  BY <1>4
<1> HIDE DEF valid
<1>8. PICK c, at : PickedAt(D, valid, c, at)
  BY <1>4, <1>6, PickedIs
<1>9. /\ c \in Nat /\ at \in [1 .. c -> valid]
      /\ Picked(D, valid) = [i \in 1 .. c |-> D[at[i]]]
      /\ \A i, j \in 1 .. c : i < j => at[i] < at[j]
      /\ \A k \in valid : \E i \in 1 .. c : at[i] = k
  BY <1>8 DEF PickedAt
<1> DEFINE of == [i \in 1 .. c |-> from[at[i]]]
<1>10. \A i \in 1 .. c : at[i] \in valid /\ at[i] \in 1 .. d /\ of[i] = from[at[i]]
  BY <1>6, <1>9
<1>11. of \in [1 .. c -> 1 .. n]
  BY <1>4, <1>10
<1> HIDE DEF of
<1>12. Normalize(rows) = [i \in 1 .. c |-> F[of[i]]]
  <2>1. \A i \in 1 .. c : D[at[i]] = F[of[i]]
    BY <1>4, <1>10
  <2> QED
    BY <1>5, <1>9, <2>1
<1>13. \A i, j \in 1 .. c : i < j => F[of[i]].slot < F[of[j]].slot
  BY <1>4, <1>9, <1>10
<1>14. ASSUME NEW k \in 1 .. n, NEW i \in 1 .. c, of[i] = k
       PROVE  /\ \A j \in 1 .. n : F[j].slot = F[k].slot => j <= k
              /\ WellFormed(F[k].bar)
  <2>1. at[i] \in 1 .. d /\ from[at[i]] = k /\ at[i] \in valid
    BY <1>10, <1>14
  <2> QED
    BY <1>4, <1>7, <2>1
<1>15. ASSUME NEW k \in 1 .. n, WellFormed(F[k].bar),
              \A j \in 1 .. n : F[j].slot = F[k].slot => j <= k
       PROVE  \E i \in 1 .. c : of[i] = k
  <2>1. PICK m \in 1 .. d : from[m] = k
    BY <1>4, <1>15
  <2>2. m \in valid
    BY <1>7, <1>15, <2>1
  <2>3. PICK i \in 1 .. c : at[i] = m
    BY <1>9, <2>2
  <2> QED
    BY <1>10, <2>1, <2>3
<1>16. \A k \in 1 .. n :
         (\E i \in 1 .. c : of[i] = k)
           <=> /\ \A j \in 1 .. n : F[j].slot = F[k].slot => j <= k
               /\ WellFormed(F[k].bar)
  BY <1>14, <1>15
<1>17. ValidLastOfSlots(n, rows, c, of)
  BY <1>9, <1>11, <1>12, <1>13, <1>16 DEF F, ValidLastOfSlots
<1> QED
  BY <1>17

----------------------------------------------------------------------------
\* Frames and the bars built from them, for every timeframe.

\* A frame that has every hour of a window aggregates it as any other frame
\* that has the same candles there.
LEMMA AggregatesAlike ==
  ASSUME NEW n \in Nat \ {0}, NEW p \in Int, NEW F, NEW G,
         SlotsOf(n, p) \subseteq DOMAIN F, SlotsOf(n, p) \subseteq DOMAIN G,
         \A s \in SlotsOf(n, p) : F[s] = G[s]
  PROVE  Aggregate(n, F, p) = Aggregate(n, G, p)
<1> DEFINE S == SlotsOf(n, p)
           a == n * p
<1>1. a \in Int /\ a <= a + n - 1 /\ a + n - 1 \in Int /\ S = a .. a + n - 1
  BY DEF SlotsOf
<1>2. S \cap DOMAIN F = S /\ S \cap DOMAIN G = S
  OBVIOUS
<1>3. Min(S) = a /\ Max(S) = a + n - 1
  BY <1>1, IntervalEnds
<1>4. Min(S) \in S /\ Max(S) \in S
  BY <1>1, <1>3
<1>5. F[Min(S)] = G[Min(S)] /\ F[Max(S)] = G[Max(S)]
  BY <1>4
<1>6. {F[s].high : s \in S} = {G[s].high : s \in S} /\ {F[s].low : s \in S} = {G[s].low : s \in S}
  OBVIOUS
<1> HIDE DEF S
<1> QED
  BY <1>2, <1>5, <1>6 DEF Aggregate, S

----------------------------------------------------------------------------
\* A slot lies in its period.
LEMMA SlotInPeriod ==
  ASSUME NEW n \in Nat \ {0}, NEW s \in Nat
  PROVE  PeriodOf(n, s) \in Nat /\ s \in SlotsOf(n, PeriodOf(n, s))
<1>1. s \div n \in Nat /\ n * (s \div n) <= s /\ s <= n * (s \div n) + n - 1
  OBVIOUS
<1> QED
  BY <1>1 DEF PeriodOf, SlotsOf

----------------------------------------------------------------------------
\* What a frame F looks like when only its bars up to e are known.

LEMMA KnownExtent ==
  ASSUME NEW F, DOMAIN F \in SUBSET Nat, NEW b \in Nat, \A s \in DOMAIN F : s <= b,
         NEW e \in DOMAIN F
  PROVE  LET K == Before(F, e + 1) IN
         /\ DOMAIN K = {s \in DOMAIN F : s <= e}
         /\ \A s \in DOMAIN K : K[s] = F[s]
         /\ ObservedStart(K) = ObservedStart(F)
         /\ ObservedEnd(K) = e + 1 /\ e + 1 <= ObservedEnd(F)
<1> DEFINE K == Before(F, e + 1)
<1>1. DOMAIN K = {s \in DOMAIN F : s <= e} /\ \A s \in DOMAIN K : K[s] = F[s]
  BY DEF Before
<1> HIDE DEF K
<1>2. /\ Min(DOMAIN F) \in DOMAIN F /\ \A s \in DOMAIN F : Min(DOMAIN F) <= s
      /\ Max(DOMAIN F) \in DOMAIN F /\ \A s \in DOMAIN F : s <= Max(DOMAIN F)
  BY MinMax
<1>3. DOMAIN K \in SUBSET Nat /\ e \in DOMAIN K /\ \A s \in DOMAIN K : s <= e
  BY <1>1
<1>4. /\ Min(DOMAIN K) \in DOMAIN K /\ \A s \in DOMAIN K : Min(DOMAIN K) <= s
      /\ Max(DOMAIN K) \in DOMAIN K /\ \A s \in DOMAIN K : s <= Max(DOMAIN K)
  BY <1>3, MinMax
<1>5. Min(DOMAIN F) \in DOMAIN K
  BY <1>1, <1>2
<1>6. Min(DOMAIN K) = Min(DOMAIN F)
  BY <1>1, <1>2, <1>4, <1>5
<1>7. Max(DOMAIN K) = e /\ e <= Max(DOMAIN F)
  BY <1>2, <1>3, <1>4
<1> QED
  BY <1>1, <1>2, <1>6, <1>7 DEF ObservedStart, ObservedEnd, K

\* A period that was over by then is built from the same bars.
LEMMA KnownPeriod ==
  ASSUME NEW F, DOMAIN F \in SUBSET Nat, NEW b \in Nat, \A s \in DOMAIN F : s <= b,
         NEW e \in DOMAIN F, NEW n \in Nat \ {0}, NEW p \in Nat, CloseTime(n, p) <= e + 1
  PROVE  LET K == Before(F, e + 1) IN
         /\ p \in DOMAIN Resample(n, K) <=> p \in DOMAIN Resample(n, F)
         /\ p \in DOMAIN Resample(n, F) => Resample(n, K)[p] = Resample(n, F)[p]
<1> DEFINE K == Before(F, e + 1)
           I == SlotsOf(n, p) \cap DOMAIN F
<1>1. /\ DOMAIN K = {s \in DOMAIN F : s <= e}
      /\ \A s \in DOMAIN K : K[s] = F[s]
      /\ ObservedStart(K) = ObservedStart(F)
      /\ ObservedEnd(K) = e + 1 /\ e + 1 <= ObservedEnd(F)
  BY KnownExtent
<1> HIDE DEF K
<1>2. \A s \in SlotsOf(n, p) : s <= e
  BY DEF SlotsOf, CloseTime
<1>3. SlotsOf(n, p) \cap DOMAIN K = I
  BY <1>1, <1>2
<1>4. p \in Periods(n, K) <=> p \in Periods(n, F)
  <2>1. ASSUME NEW s \in DOMAIN F, p = PeriodOf(n, s) PROVE s \in DOMAIN K
    BY <1>1, <1>2, <2>1, SlotInPeriod
  <2>2. DOMAIN K \subseteq DOMAIN F
    BY <1>1
  <2> QED
    BY <2>1, <2>2 DEF Periods
<1>5. CloseTime(n, p) \in Int /\ n * p \in Int /\ e \in Int
  BY DEF CloseTime
<1>6. Max(DOMAIN F) \in Nat
  BY MinMax
<1>7. Inside(n, K, p) <=> Inside(n, F, p)
  BY <1>1, <1>5, <1>6 DEF Inside, ObservedEnd
<1>8. p \in DOMAIN Resample(n, K) <=> p \in DOMAIN Resample(n, F)
  BY <1>4, <1>7 DEF Resample
<1>9. ASSUME p \in DOMAIN Resample(n, F)
      PROVE  Resample(n, K)[p] = Resample(n, F)[p]
  <2>1. PICK s \in DOMAIN F : p = PeriodOf(n, s)
    BY <1>9 DEF Resample, Periods
  <2>2. s \in I
    BY <2>1, SlotInPeriod
  <2>3. I \in SUBSET Nat /\ I # {} /\ \A t \in I : t <= b
    BY <2>2
  <2>4. Min(I) \in I /\ Max(I) \in I
    BY <2>3, MinMax
  <2>5. \A t \in I : K[t] = F[t]
    BY <1>1, <1>3
  <2>6. /\ {K[t].high : t \in I} = {F[t].high : t \in I}
        /\ {K[t].low : t \in I} = {F[t].low : t \in I}
        /\ K[Min(I)] = F[Min(I)] /\ K[Max(I)] = F[Max(I)]
    BY <2>4, <2>5
  <2> HIDE DEF I
  <2>7. Aggregate(n, K, p) = Aggregate(n, F, p)
    BY <1>3, <2>6 DEF Aggregate, I
  <2> QED
    BY <1>8, <1>9, <2>7 DEF Resample
<1> QED
  BY <1>8, <1>9 DEF K

\* The context of a bar is settled when it closes.
LEMMA ContextSettled ==
  ASSUME NEW F, DOMAIN F \in SUBSET Nat, NEW b \in Nat, \A s \in DOMAIN F : s <= b,
         NEW e \in DOMAIN F, NEW n \in Nat \ {0},
         NEW s \in DOMAIN Before(F, e + 1)
  PROVE  Context(n, Resample(n, Before(F, e + 1)), s) = Context(n, Resample(n, F), s)
<1> DEFINE K == Before(F, e + 1)
           soon == Resample(n, K)
           late == Resample(n, F)
           t == CloseTime(1, s)
<1>1. s \in Nat /\ s <= e /\ e \in Nat
  BY KnownExtent
<1>2. t = s + 1
  BY <1>1 DEF CloseTime
<1>3. \A p \in DOMAIN soon \cup DOMAIN late : p \in Nat
  <2>1. DOMAIN soon \subseteq Periods(n, K) /\ DOMAIN late \subseteq Periods(n, F)
    BY DEF Resample
  <2>2. DOMAIN K \subseteq Nat
    BY DEF Before
  <2>3. Periods(n, K) \subseteq Nat /\ Periods(n, F) \subseteq Nat
    BY <2>2, SlotInPeriod DEF Periods
  <2> QED
    BY <2>1, <2>3
<1>4. \A p \in Nat : CloseTime(n, p) <= t => CloseTime(n, p) <= e + 1
  BY <1>1, <1>2 DEF CloseTime
<1>5. \A p \in Nat : CloseTime(n, p) <= t =>
        /\ p \in DOMAIN soon <=> p \in DOMAIN late
        /\ p \in DOMAIN late => soon[p] = late[p]
  BY <1>4, KnownPeriod
<1> HIDE DEF soon, late, t, K
<1>6. ClosedBy(n, soon, t) = ClosedBy(n, late, t)
  BY <1>3, <1>5 DEF ClosedBy
<1>7. \A p \in ClosedBy(n, late, t) : soon[p] = late[p]
  BY <1>3, <1>5 DEF ClosedBy
<1>8. LatestClosedBar(n, soon, t) = LatestClosedBar(n, late, t)
  BY <1>6, <1>7 DEF LatestClosedBar
<1> QED
  BY <1>8 DEF Context, soon, late, t, K

\* A bar of a higher timeframe, once there, is never revised.
LEMMA BarsSettled ==
  ASSUME NEW F, DOMAIN F \in SUBSET Nat, NEW b \in Nat, \A s \in DOMAIN F : s <= b,
         NEW e \in DOMAIN F, NEW n \in Nat \ {0},
         NEW p \in DOMAIN Resample(n, Before(F, e + 1))
  PROVE  /\ p \in DOMAIN Resample(n, F)
         /\ Resample(n, Before(F, e + 1))[p] = Resample(n, F)[p]
<1> DEFINE K == Before(F, e + 1)
<1>1. ObservedEnd(K) = e + 1 /\ DOMAIN K \subseteq Nat
  BY KnownExtent
<1>2. p \in Periods(n, K) /\ Inside(n, K, p)
  BY DEF Resample
<1>3. p \in Nat
  BY <1>1, <1>2, SlotInPeriod DEF Periods
<1>4. CloseTime(n, p) <= e + 1
  BY <1>1, <1>2 DEF Inside
<1> QED
  BY <1>3, <1>4, KnownPeriod

\* Nor is a 4H bar.
LEMMA EmittedSettled ==
  ASSUME NEW F, DOMAIN F \in SUBSET Nat, NEW b \in Nat, \A s \in DOMAIN F : s <= b,
         NEW e \in DOMAIN F, NEW p \in DOMAIN BuildH4(Before(F, e + 1))
  PROVE  /\ p \in DOMAIN BuildH4(F)
         /\ BuildH4(Before(F, e + 1))[p] = BuildH4(F)[p]
<1> DEFINE K == Before(F, e + 1)
           H == HoursPerH4
<1>1. /\ DOMAIN K = {s \in DOMAIN F : s <= e}
      /\ \A s \in DOMAIN K : K[s] = F[s]
  BY KnownExtent
<1> HIDE DEF K
<1>2. H \in Nat \ {0}
  BY TimeframesAssumption
<1>3. p \in Periods(H, K) /\ Disposition(K, p) = "emitted"
  BY DEF BuildH4, K
<1>4. p \in Nat /\ p \in Periods(H, F)
  BY <1>1, <1>2, <1>3, SlotInPeriod DEF Periods
<1>5. SlotsOf(H, p) \subseteq DOMAIN K
  BY <1>3 DEF Disposition, MissingHours
<1>6. SlotsOf(H, p) \subseteq DOMAIN F /\ \A s \in SlotsOf(H, p) : K[s] = F[s]
  BY <1>1, <1>5
<1>7. /\ Min(DOMAIN F) \in DOMAIN F /\ \A s \in DOMAIN F : Min(DOMAIN F) <= s
      /\ Max(DOMAIN F) \in DOMAIN F /\ \A s \in DOMAIN F : s <= Max(DOMAIN F)
  BY MinMax
<1>8. SlotsOf(H, p) \subseteq Extent(F)
  BY <1>6, <1>7 DEF Extent
<1>9. Disposition(F, p) = "emitted"
  BY <1>6, <1>8 DEF Disposition, AtEdge, MissingHours
<1>10. Aggregate(H, K, p) = Aggregate(H, F, p)
  BY <1>2, <1>4, <1>5, <1>6, AggregatesAlike
<1> QED
  BY <1>3, <1>4, <1>9, <1>10 DEF BuildH4, K

----------------------------------------------------------------------------

\* The decoder drops the hours in which nothing traded.
LEMMA DecodedHoursTraded ==
  ASSUME NEW records \in SUBSET Int
  PROVE  Decode("1h", records) \subseteq traded
<1> SUFFICES ASSUME NEW s \in records, ~IsProviderPadding("1h", s) PROVE s \in traded
  BY DEF Decode
<1>1. Duration("1h") = 1 /\ PeriodOf(1, s) = s /\ SlotsOf(1, s) = {s}
  BY DEF Duration, PeriodOf, SlotsOf
<1> QED
  BY <1>1 DEF IsProviderPadding

----------------------------------------------------------------------------
\* Files hold records, whatever else went wrong; only hours that traded are
\* decoded; and a run that returned hands over the hours it decoded.
HoursInv ==
  /\ traded \subseteq 0 .. Horizon - 1
  /\ cache \in [Native \X AllMonths -> (SUBSET Int) \cup {NoFile, Torn}]
  /\ got \in [Native -> SUBSET Int]
  /\ got["1h"] \subseteq traded
  /\ lane = "rows" => pc = "idle"
  /\ pc = "done" => frame = [s \in got["1h"] |-> Quote[s]]

LEMMA HoursInit == Init => HoursInv
<1> SUFFICES ASSUME Init PROVE HoursInv
  OBVIOUS
<1>1. traded \subseteq 0 .. Horizon - 1
  <2>1. CASE lane = "native"
    BY <2>1, MarketDataAssumption DEF Init
  <2>2. CASE lane # "native"
    BY <2>2 DEF Init
  <2> QED
    BY <2>1, <2>2
<1>2. cache \in [Native \X AllMonths -> (SUBSET Int) \cup {NoFile, Torn}]
  BY DEF Init
<1>3. got \in [Native -> SUBSET Int] /\ got["1h"] \subseteq traded
  BY DEF Init, Nothing, Native
<1> QED
  BY <1>1, <1>2, <1>3 DEF Init, HoursInv

\* One more file decoded keeps the hours apart that traded.
LEMMA ReceiveStep ==
  ASSUME HoursInv, NEW f \in Native \X AllMonths, NEW records \in SUBSET Int,
         Receive(f, records), traded' = traded
  PROVE  got' \in [Native -> SUBSET Int] /\ got'["1h"] \subseteq traded
<1>1. f[1] \in Native
  OBVIOUS
<1>2. Decode(f[1], records) \subseteq Int
  BY DEF Decode
<1>3. got[f[1]] \cup Decode(f[1], records) \in SUBSET Int
  BY <1>1, <1>2 DEF HoursInv
<1>4. got' \in [Native -> SUBSET Int]
  BY <1>1, <1>3 DEF HoursInv, Receive
<1>5. CASE f[1] = "1h"
  BY <1>4, <1>5, DecodedHoursTraded DEF HoursInv, Receive, Native
<1>6. CASE f[1] # "1h"
  BY <1>4, <1>6 DEF HoursInv, Receive, Native
<1> QED
  BY <1>5, <1>6

LEMMA HoursStep == HoursInv /\ [Next]_vars => HoursInv'
<1> SUFFICES ASSUME HoursInv, [Next]_vars PROVE HoursInv'
  OBVIOUS
<1> USE DEF HoursInv
<1>1. CASE UNCHANGED vars
  BY <1>1 DEF vars, native
<1>2. CASE Tick
  BY <1>2 DEF Tick
<1>3. ASSUME NEW s \in Starts, NEW e \in Ends, Run(s, e) PROVE HoursInv'
  BY <1>3 DEF Run, Nothing, Native
<1>4. ASSUME NEW f \in Native \X AllMonths, ReadCached(f) PROVE HoursInv'
  <2>1. cache[f] \in SUBSET Int
    BY <1>4 DEF ReadCached
  <2>2. got' \in [Native -> SUBSET Int] /\ got'["1h"] \subseteq traded
    BY <1>4, <2>1, ReceiveStep DEF ReadCached, ToNextFile
  <2> QED
    BY <1>4, <2>2 DEF ReadCached, Reading, ToNextFile
<1>5. ASSUME NEW f \in Native \X AllMonths, Download(f) PROVE HoursInv'
  <2>1. Payload(f[1], f[2]) \in SUBSET Int
    BY MarketDataAssumption DEF Payload, Opens, AllMonths
  <2>2. got' \in [Native -> SUBSET Int] /\ got'["1h"] \subseteq traded
    BY <1>5, <2>1, ReceiveStep DEF Download, ToNextFile
  <2>3. cache' \in [Native \X AllMonths -> (SUBSET Int) \cup {NoFile, Torn}]
    BY <1>5, <2>1 DEF Download
  <2> QED
    BY <1>5, <2>2, <2>3 DEF Download, Reading, ToNextFile
<1>6. ASSUME NEW f \in Native \X AllMonths, GiveUp(f) PROVE HoursInv'
  BY <1>6 DEF GiveUp, Reading, ToNextFile
<1>7. ASSUME NEW f \in Native \X AllMonths, Refuse(f) PROVE HoursInv'
  BY <1>7 DEF Refuse, Abort, Nothing, Native, Reading
<1>8. ASSUME NEW f \in Native \X AllMonths, Cut(f) PROVE HoursInv'
  <2>1. cache' \in [Native \X AllMonths -> (SUBSET Int) \cup {NoFile, Torn}]
    BY <1>8 DEF Cut
  <2> QED
    BY <1>8, <2>1 DEF Cut, Abort, Nothing, Native, Reading
<1>9. CASE Finish
  <2>1. got' \in [Native -> SUBSET Int] /\ got'["1h"] \subseteq traded
    BY <1>9 DEF Finish, Clip, Native
  <2>2. got'["1h"] = Clip(got["1h"])
    BY <1>9 DEF Finish, Native
  <2> QED
    BY <1>9, <2>1, <2>2 DEF Finish
<1>10. ASSUME NEW row \in Rows, Supply(row) PROVE HoursInv'
  BY <1>10 DEF Supply, native
<1> QED
  BY <1>1, <1>2, <1>3, <1>4, <1>5, <1>6, <1>7, <1>8, <1>9, <1>10 DEF Next

----------------------------------------------------------------------------
\* A window is emitted only with all of its hours, so what was lost on the way
\* can withhold a 4H bar but not change one.
LEMMA EmittedFromTraded == HoursInv => H4FromFourTraded
<1> SUFFICES ASSUME HoursInv, pc = "done", NEW p \in DOMAIN BuildH4(frame)
    PROVE  /\ SlotsOf(HoursPerH4, p) \subseteq traded
           /\ BuildH4(frame)[p] = Aggregate(HoursPerH4, [s \in traded |-> Quote[s]], p)
  BY DEF H4FromFourTraded
<1> DEFINE complete == [s \in traded |-> Quote[s]]
<1>1. frame = [s \in got["1h"] |-> Quote[s]] /\ got["1h"] \subseteq traded /\ traded \subseteq Int
  BY MarketDataAssumption DEF HoursInv
<1>2. HoursPerH4 \in Nat \ {0}
  BY TimeframesAssumption
<1>3. p \in Periods(HoursPerH4, frame) /\ Disposition(frame, p) = "emitted"
  BY DEF BuildH4
<1>4. p \in Int
  <2>1. PICK s \in DOMAIN frame : p = s \div HoursPerH4
    BY <1>3 DEF Periods, PeriodOf
  <2>2. s \in Int
    BY <1>1
  <2> QED
    BY <1>2, <2>1, <2>2
<1>5. SlotsOf(HoursPerH4, p) \subseteq DOMAIN frame
  BY <1>3 DEF Disposition, MissingHours
<1>6. \A s \in SlotsOf(HoursPerH4, p) : s \in traded /\ frame[s] = complete[s]
  BY <1>1, <1>5
<1>7. Aggregate(HoursPerH4, frame, p) = Aggregate(HoursPerH4, complete, p)
  BY <1>2, <1>4, <1>5, <1>6, AggregatesAlike
<1>8. BuildH4(frame)[p] = Aggregate(HoursPerH4, frame, p)
  BY <1>3 DEF BuildH4
<1> QED
  BY <1>6, <1>7, <1>8

\* Whatever fails, is cut, cached too early or padded: no 4H bar is ever made of
\* anything but four hours in which the market traded.
THEOREM H4FromFourTradedHolds == Spec => []H4FromFourTraded
<1>1. Spec => []HoursInv
  BY HoursInit, HoursStep, PTL DEF Spec
<1> QED
  BY <1>1, EmittedFromTraded, PTL

----------------------------------------------------------------------------
\* The rows of the other lane are whole numbers of ticks apart from its epoch,
\* and its frame is what the normaliser made of the rows so far.
RowsInv ==
  /\ supplied \in Seq(Rows)
  /\ lane = "rows" => DOMAIN frame = {} \/ frame = FrameOf(Normalize(supplied))

LEMMA RowsInit == Init => RowsInv
BY DEF Init, RowsInv, NoFrame

LEMMA RowsStep == HoursInv /\ RowsInv /\ [Next]_vars => RowsInv'
<1> SUFFICES ASSUME HoursInv, RowsInv, [Next]_vars PROVE RowsInv'
  OBVIOUS
<1> USE DEF RowsInv
<1>1. ASSUME NEW row \in Rows, Supply(row) PROVE RowsInv'
  BY <1>1 DEF Supply
<1>2. CASE UNCHANGED vars
  BY <1>2 DEF vars
<1>3. ASSUME lane' = lane /\ supplied' = supplied /\ lane # "rows" PROVE RowsInv'
  BY <1>3
<1>4. CASE Tick
  BY <1>3, <1>4 DEF Tick
<1>5. ASSUME NEW s \in Starts, NEW e \in Ends, Run(s, e) PROVE RowsInv'
  BY <1>3, <1>5 DEF Run
<1>6. pc = "fetch" => lane # "rows"
  BY DEF HoursInv
<1>7. ASSUME NEW f \in Native \X AllMonths,
             ReadCached(f) \/ Download(f) \/ GiveUp(f) \/ Refuse(f) \/ Cut(f)
      PROVE  RowsInv'
  <2>1. pc = "fetch"
    BY <1>7 DEF ReadCached, Download, GiveUp, Refuse, Cut, Reading
  <2>2. lane' = lane /\ supplied' = supplied
    BY <1>7 DEF ReadCached, Download, GiveUp, Refuse, Cut, Abort, ToNextFile
  <2> QED
    BY <1>3, <1>6, <2>1, <2>2
<1>8. CASE Finish
  BY <1>3, <1>6, <1>8 DEF Finish
<1> QED
  BY <1>1, <1>2, <1>4, <1>5, <1>7, <1>8 DEF Next

LEMMA RowsAreTicks ==
  ASSUME RowsInv
  PROVE  /\ Len(supplied) \in Nat /\ DOMAIN supplied = 1 .. Len(supplied)
         /\ \A i \in 1 .. Len(supplied) : supplied[i].at \in Nat
<1>1. Len(supplied) \in Nat /\ DOMAIN supplied = 1 .. Len(supplied)
  BY DEF RowsInv
<1>2. \A i \in 1 .. Len(supplied) : supplied[i] \in Rows
  BY DEF RowsInv
<1> QED
  BY <1>1, <1>2, MarketDataAssumption

LEMMA LastCopies == RowsInv => LastCopyWins
<1> SUFFICES ASSUME RowsInv PROVE LastCopyWins
  OBVIOUS
<1> DEFINE rows == Normalize(supplied)
           n == Len(supplied)
           slot(i) == supplied[i].at \div GridStep
           copies(s) == {i \in DOMAIN supplied : supplied[i].at \div GridStep = s}
           last == {Max(copies(slot(i))) : i \in DOMAIN supplied}
           row(i) == [slot |-> slot(i), bar |-> supplied[i].bar]
           F == FloorToGrid(supplied)
<1>1. n \in Nat /\ DOMAIN supplied = 1 .. n /\ \A i \in 1 .. n : supplied[i].at \in Nat
  BY RowsAreTicks
<1>2. \A i \in 1 .. n : F[i] = row(i)
  BY <1>1 DEF FloorToGrid
<1>3. \A i \in 1 .. n : F[i].slot = slot(i) /\ F[i].bar = supplied[i].bar
  BY <1>1 DEF FloorToGrid
<1> HIDE DEF n, F
<1>4. PICK c, from : ValidLastOfSlots(n, supplied, c, from)
  BY <1>1, NormalizeIs
<1>5. /\ c \in Nat /\ from \in [1 .. c -> 1 .. n]
      /\ rows = [i \in 1 .. c |-> F[from[i]]]
      /\ \A i, j \in 1 .. c : i < j => F[from[i]].slot < F[from[j]].slot
      /\ \A k \in 1 .. n :
           (\E i \in 1 .. c : from[i] = k)
             <=> /\ \A j \in 1 .. n : F[j].slot = F[k].slot => j <= k
                 /\ WellFormed(F[k].bar)
  BY <1>4 DEF ValidLastOfSlots, F
<1> HIDE DEF rows, slot
<1>6. \A i, j \in DOMAIN rows : i < j => rows[i].slot < rows[j].slot
  BY <1>5
\* The last copies are those without a later one.
<1>7. \A k : k \in last <=> k \in 1 .. n /\ \A j \in 1 .. n : slot(j) = slot(k) => j <= k
  <2>1. ASSUME NEW i \in 1 .. n
        PROVE  /\ Max(copies(slot(i))) \in copies(slot(i))
               /\ \A j \in copies(slot(i)) : j <= Max(copies(slot(i)))
    <3> DEFINE S == copies(slot(i))
    <3>1. S \in SUBSET Nat /\ S # {} /\ \A j \in S : j <= n
      BY <1>1 DEF slot
    <3> HIDE DEF S
    <3>2. Max(S) \in S /\ \A j \in S : j <= Max(S)
      BY <1>1, <3>1, MinMax
    <3> QED
      BY <3>2 DEF S
  <2>2. \A i \in 1 .. n : \A j : j \in copies(slot(i)) <=> j \in 1 .. n /\ slot(j) = slot(i)
    BY <1>1 DEF slot
  <2>3. ASSUME NEW k \in last
        PROVE  k \in 1 .. n /\ \A j \in 1 .. n : slot(j) = slot(k) => j <= k
    <3>1. PICK i \in 1 .. n : k = Max(copies(slot(i)))
      BY <1>1
    <3> HIDE DEF copies
    <3>2. k \in copies(slot(i)) /\ \A j \in copies(slot(i)) : j <= k
      BY <2>1, <3>1
    <3> QED
      BY <2>2, <3>2
  <2>4. ASSUME NEW k \in 1 .. n, \A j \in 1 .. n : slot(j) = slot(k) => j <= k
        PROVE  k \in last
    <3> DEFINE m == Max(copies(slot(k)))
    <3>1. m \in last
      BY <1>1
    <3> HIDE DEF copies, last
    <3>2. m \in copies(slot(k)) /\ \A j \in copies(slot(k)) : j <= m
      BY <2>1
    <3> HIDE DEF m
    <3>3. m \in 1 .. n /\ slot(m) = slot(k) /\ k <= m
      BY <2>2, <3>2
    <3>4. m = k
      BY <2>4, <3>3
    <3> QED
      BY <3>1, <3>4
  <2> QED
    BY <2>3, <2>4
<1> HIDE DEF last
<1>8. \A k \in 1 .. n :
        (\E i \in 1 .. c : from[i] = k) <=> k \in last /\ WellFormed(supplied[k].bar)
  <2> TAKE k \in 1 .. n
  <2>1. k \in last <=> \A j \in 1 .. n : F[j].slot = F[k].slot => j <= k
    <3>1. \A j \in 1 .. n : F[j].slot = F[k].slot <=> slot(j) = slot(k)
      BY <1>3
    <3> QED
      BY <1>7, <3>1
  <2>2. WellFormed(F[k].bar) <=> WellFormed(supplied[k].bar)
    BY <1>3
  <2> QED
    BY <1>5, <2>1, <2>2
<1>9. \A i \in 1 .. c : from[i] \in 1 .. n /\ rows[i] = row(from[i])
  BY <1>2, <1>5
<1>10. \A r : r \in ToSet(rows) <=> \E i \in 1 .. c : r = row(from[i])
  <2>1. DOMAIN rows = 1 .. c
    BY <1>5
  <2>2. \A r : r \in ToSet(rows) <=> \E i \in 1 .. c : r = rows[i]
    BY <2>1 DEF ToSet
  <2> HIDE DEF row
  <2> QED
    BY <1>9, <2>2
<1> HIDE DEF row
<1>11. \A r : r \in ToSet(rows)
         <=> \E k \in {m \in last : WellFormed(supplied[m].bar)} : r = row(k)
  <2>1. ASSUME NEW r, NEW i \in 1 .. c, r = row(from[i])
        PROVE  \E k \in {m \in last : WellFormed(supplied[m].bar)} : r = row(k)
    BY <1>8, <1>9, <2>1
  <2>2. ASSUME NEW r, NEW k \in last, WellFormed(supplied[k].bar), r = row(k)
        PROVE  \E i \in 1 .. c : r = row(from[i])
    BY <1>7, <1>8, <2>2
  <2> QED
    BY <1>10, <2>1, <2>2
<1>12. ToSet(rows) = {row(k) : k \in {m \in last : WellFormed(supplied[m].bar)}}
  BY <1>11
<1> QED
  BY <1>6, <1>12 DEF LastCopyWins, rows, row, last, slot

\* Whatever rows are supplied and in whatever order: each slot keeps its last
\* copy, or loses its bar to it when it is invalid, and the frame is in order.
THEOREM LastCopyWinsHolds == Spec => []LastCopyWins
<1>1. Spec => []HoursInv
  BY HoursInit, HoursStep, PTL DEF Spec
<1>2. Spec => []RowsInv
  BY <1>1, RowsInit, RowsStep, PTL DEF Spec
<1> QED
  BY <1>2, LastCopies, PTL

----------------------------------------------------------------------------
\* Both lanes hand over bars in slots up to some last one.
LEMMA FrameBounded ==
  HoursInv /\ RowsInv /\ HandedOver => \E b \in Nat : DOMAIN frame \subseteq 0 .. b
<1> SUFFICES ASSUME HoursInv, RowsInv, HandedOver PROVE \E b \in Nat : DOMAIN frame \subseteq 0 .. b
  OBVIOUS
<1>1. CASE pc = "done"
  <2>1. DOMAIN frame \subseteq 0 .. Horizon - 1
    BY <1>1 DEF HoursInv
  <2>2. Horizon \in Nat /\ 0 .. Horizon - 1 \subseteq 0 .. Horizon
    BY MarketDataAssumption
  <2> QED
    BY <2>1, <2>2
<1>2. CASE DOMAIN frame = {}
  BY <1>2
<1>3. CASE frame = FrameOf(Normalize(supplied)) /\ DOMAIN frame # {}
  <2> DEFINE n == Len(supplied)
             F == FloorToGrid(supplied)
             rows == Normalize(supplied)
  <2>1. n \in Nat /\ DOMAIN supplied = 1 .. n /\ \A i \in 1 .. n : supplied[i].at \in Nat
    BY RowsAreTicks
  <2>2. \A i \in 1 .. n : F[i].slot \in Nat
    <3> TAKE i \in 1 .. n
    <3>1. F[i].slot = supplied[i].at \div GridStep
      BY <2>1 DEF FloorToGrid
    <3>2. supplied[i].at \in Nat /\ GridStep \in Nat /\ GridStep > 0
      BY <2>1, NormalizationAssumption
    <3>3. supplied[i].at \div GridStep \in Nat
      BY <3>2
    <3> QED
      BY <3>1, <3>3
  <2> HIDE DEF n, F
  <2>3. PICK c, from : ValidLastOfSlots(n, supplied, c, from)
    BY <2>1, NormalizeIs
  <2>4. /\ c \in Nat /\ from \in [1 .. c -> 1 .. n]
        /\ rows = [i \in 1 .. c |-> F[from[i]]]
        /\ \A i, j \in 1 .. c : i < j => F[from[i]].slot < F[from[j]].slot
    BY <2>3 DEF ValidLastOfSlots, F
  <2> HIDE DEF rows
  <2>5. \A s : s \in DOMAIN frame <=> \E i \in 1 .. c : s = rows[i].slot
    BY <1>3, <2>4 DEF FrameOf, rows
  <2>6. \A i \in 1 .. c : rows[i].slot \in Nat
    BY <2>2, <2>4
  <2>7. c \in 1 .. c
    BY <1>3, <2>4, <2>5
  <2>8. \A i \in 1 .. c : rows[i].slot <= rows[c].slot
    <3> TAKE i \in 1 .. c
    <3>1. i = c \/ i < c
      BY <2>4
    <3>2. rows[i].slot \in Nat /\ rows[c].slot \in Nat
      BY <2>6, <2>7
    <3> QED
      BY <2>4, <2>7, <3>1, <3>2
  <2>9. \A s \in DOMAIN frame : s \in 0 .. rows[c].slot
    <3> TAKE s \in DOMAIN frame
    <3>1. PICK i \in 1 .. c : s = rows[i].slot
      BY <2>5
    <3> QED
      BY <2>6, <2>7, <2>8, <3>1
  <2> QED
    BY <2>6, <2>7, <2>9
<1> QED
  BY <1>1, <1>2, <1>3 DEF HandedOver, RowsInv

\* Any such frame settles the context of a bar when the bar closes.
LEMMA FramesSettleContexts == HoursInv /\ RowsInv => ContextsSettled
<1> SUFFICES ASSUME HoursInv, RowsInv, HandedOver, NEW e \in DOMAIN frame
    PROVE  LET known == Before(frame, e + 1) IN
           /\ \A n \in {HoursPerH4, DayLength} :
                LET soon == Resample(n, known)
                    late == Resample(n, frame) IN
                /\ \A p \in DOMAIN soon : p \in DOMAIN late /\ soon[p] = late[p]
                /\ \A s \in DOMAIN known : Context(n, soon, s) = Context(n, late, s)
           /\ \A p \in DOMAIN BuildH4(known) :
                p \in DOMAIN BuildH4(frame) /\ BuildH4(known)[p] = BuildH4(frame)[p]
  BY DEF ContextsSettled
<1>1. PICK b \in Nat : DOMAIN frame \subseteq 0 .. b
  BY FrameBounded
<1>2. DOMAIN frame \in SUBSET Nat /\ \A s \in DOMAIN frame : s <= b
  BY <1>1
<1>3. {HoursPerH4, DayLength} \subseteq Nat \ {0}
  BY TimeframesAssumption
<1>4. ASSUME NEW n \in {HoursPerH4, DayLength}
      PROVE  LET soon == Resample(n, Before(frame, e + 1))
                 late == Resample(n, frame) IN
             /\ \A p \in DOMAIN soon : p \in DOMAIN late /\ soon[p] = late[p]
             /\ \A s \in DOMAIN Before(frame, e + 1) : Context(n, soon, s) = Context(n, late, s)
  BY <1>2, <1>3, BarsSettled, ContextSettled
<1>5. \A p \in DOMAIN BuildH4(Before(frame, e + 1)) :
        p \in DOMAIN BuildH4(frame) /\ BuildH4(Before(frame, e + 1))[p] = BuildH4(frame)[p]
  BY <1>2, EmittedSettled
<1> QED
  BY <1>4, <1>5

\* Whatever a run was given of the market, and whatever rows a provider supplied,
\* what a bar knows of the 4H and of the daily timeframe when it closes is what a
\* longer frame says of it.
THEOREM ContextsSettledHolds == Spec => []ContextsSettled
<1>1. Spec => []HoursInv
  BY HoursInit, HoursStep, PTL DEF Spec
<1>2. Spec => []RowsInv
  BY <1>1, RowsInit, RowsStep, PTL DEF Spec
<1> QED
  BY <1>1, <1>2, FramesSettleContexts, PTL
----------------------------------------------------------------------------
\* Four accounts of one frame F, whose first bar is lo and whose last is hi.

\* A window lies inside the extent iff the report does not put it at the edge,
\* and the resampler keeps it iff the report finds it eligible.
LEMMA EdgesAgree ==
  ASSUME NEW F, DOMAIN F \in SUBSET Nat, DOMAIN F # {},
         NEW b \in Nat, \A s \in DOMAIN F : s <= b,
         NEW n \in Nat \ {0}, NEW p \in Int
  PROVE  /\ Inside(n, F, p) <=> ~Boundary(n, F, p)
         /\ Inside(n, F, p) <=> SlotsOf(n, p) \subseteq Extent(F)
<1> DEFINE lo == Min(DOMAIN F)
           hi == Max(DOMAIN F)
           a == n * p
<1>1. lo \in Nat /\ hi \in Nat /\ lo <= hi
  BY MinMax
<1>2. a \in Int
  OBVIOUS
<1> HIDE DEF lo, hi, a
<1>3. Inside(n, F, p) <=> a >= lo /\ a + n <= hi + 1
  BY DEF Inside, ObservedStart, ObservedEnd, CloseTime, lo, hi, a
<1>4. Boundary(n, F, p) <=> a < lo \/ a + n > hi + 1
  BY DEF Boundary, ObservedStart, ObservedEnd, CloseTime, lo, hi, a
<1>5. SlotsOf(n, p) = a .. a + n - 1 /\ Extent(F) = lo .. hi
  BY DEF SlotsOf, Extent, lo, hi, a
<1>6. a .. a + n - 1 \subseteq lo .. hi <=> a >= lo /\ a + n <= hi + 1
  <2>1. a \in a .. a + n - 1 /\ a + n - 1 \in a .. a + n - 1
    BY <1>2
  <2> QED
    BY <1>1, <1>2, <2>1
<1> QED
  BY <1>1, <1>2, <1>3, <1>4, <1>5, <1>6

\* The gaps are apart, each is as long as it is said to be, and together they
\* are the slots of the extent that have no bar.
LEMMA GapsAre ==
  ASSUME NEW F, DOMAIN F \in SUBSET Nat, DOMAIN F # {},
         NEW b \in Nat, \A s \in DOMAIN F : s <= b
  PROVE  LET gaps == DetectGaps(F) IN
         /\ UNION {g.start .. g.end - 1 : g \in gaps} = Extent(F) \ DOMAIN F
         /\ \A g \in gaps : g.bar_count = Cardinality(g.start .. g.end - 1)
         /\ \A g, h \in gaps : g = h \/ g.end < h.start \/ h.end < g.start
<1> DEFINE gaps == DetectGaps(F)
           gap(e) == [start |-> e[1] + 1, end |-> e[2], bar_count |-> e[2] - e[1] - 1]
<1>1. /\ Min(DOMAIN F) \in DOMAIN F /\ \A s \in DOMAIN F : Min(DOMAIN F) <= s
      /\ Max(DOMAIN F) \in DOMAIN F /\ \A s \in DOMAIN F : s <= Max(DOMAIN F)
  BY MinMax
<1>2. \A e : e \in GapEdges(F) <=>
        /\ e \in (DOMAIN F) \X (DOMAIN F) /\ e[2] > e[1] + 1
        /\ \A s \in DOMAIN F : s <= e[1] \/ s >= e[2]
  BY DEF GapEdges
<1>3. \A g : g \in gaps <=> \E e \in GapEdges(F) : g = gap(e)
  BY DEF DetectGaps
<1>4. \A e \in GapEdges(F) :
        /\ e[1] \in DOMAIN F /\ e[2] \in DOMAIN F /\ e[1] \in Nat /\ e[2] \in Nat
        /\ e = <<e[1], e[2]>> /\ e[2] > e[1] + 1
  BY <1>2
<1>5. \A e \in GapEdges(F) :
        gap(e).start = e[1] + 1 /\ gap(e).end = e[2] /\ gap(e).bar_count = e[2] - e[1] - 1
  OBVIOUS
<1> HIDE DEF gaps, gap
<1>6. ASSUME NEW g \in gaps, NEW s \in g.start .. g.end - 1
      PROVE  s \in Extent(F) \ DOMAIN F
  <2>1. PICK e \in GapEdges(F) : g = gap(e)
    BY <1>3
  <2>2. s \in Int /\ e[1] < s /\ s < e[2] /\ e[1] \in Nat /\ e[2] \in Nat
    BY <1>4, <1>5, <1>6, <2>1
  <2>3. s \notin DOMAIN F
    BY <1>2, <2>2
  <2>4. Min(DOMAIN F) <= e[1] /\ e[2] <= Max(DOMAIN F)
    BY <1>1, <1>4
  <2>5. Min(DOMAIN F) \in Nat /\ Max(DOMAIN F) \in Nat
    BY <1>1
  <2> QED
    BY <2>2, <2>3, <2>4, <2>5 DEF Extent
<1>7. ASSUME NEW s \in Extent(F), s \notin DOMAIN F
      PROVE  \E g \in gaps : s \in g.start .. g.end - 1
  <2> DEFINE below == {t \in DOMAIN F : t < s}
             above == {t \in DOMAIN F : s < t}
  <2>1. Min(DOMAIN F) \in Nat /\ Max(DOMAIN F) \in Nat
    BY <1>1
  <2>2. s \in Nat /\ Min(DOMAIN F) <= s /\ s <= Max(DOMAIN F)
    BY <2>1 DEF Extent
  <2>3. Min(DOMAIN F) \in below /\ Max(DOMAIN F) \in above
    BY <1>1, <1>7, <2>1, <2>2
  <2>4. /\ below \in SUBSET Nat /\ below # {} /\ \A t \in below : t <= b
        /\ above \in SUBSET Nat /\ above # {}
    BY <2>3
  <2> HIDE DEF below, above
  <2>5. PICK x \in below : \A t \in below : t <= x
    BY <2>4, HasGreatest
  <2>6. PICK y \in above : \A t \in above : y <= t
    BY <2>4, HasLeast
  <2>7. x \in DOMAIN F /\ y \in DOMAIN F /\ x < s /\ s < y /\ x \in Nat /\ y \in Nat
    BY DEF below, above
  <2>8. \A t \in DOMAIN F : t <= x \/ t >= y
    <3> TAKE t \in DOMAIN F
    <3>1. t < s \/ s < t
      BY <1>7, <2>2
    <3> QED
      BY <2>5, <2>6, <3>1 DEF below, above
  <2> DEFINE e == <<x, y>>
  <2>9. e \in GapEdges(F)
    BY <1>2, <2>2, <2>7, <2>8
  <2>10. gap(e).start = x + 1 /\ gap(e).end = y
    BY <1>5, <2>9
  <2>11. gap(e) \in gaps
    BY <1>3, <2>9
  <2> HIDE DEF e
  <2>12. s \in gap(e).start .. gap(e).end - 1
    BY <2>2, <2>7, <2>10
  <2> QED
    BY <2>11, <2>12
<1>8. ASSUME NEW g \in gaps PROVE g.bar_count = Cardinality(g.start .. g.end - 1)
  <2>1. PICK e \in GapEdges(F) : g = gap(e)
    BY <1>3
  <2>2. g.start = e[1] + 1 /\ g.end = e[2] /\ g.bar_count = e[2] - e[1] - 1
    BY <1>5, <2>1
  <2>3. e[1] \in Nat /\ e[2] \in Nat /\ e[2] > e[1] + 1
    BY <1>4
  <2>4. Cardinality(e[1] + 1 .. e[2] - 1) =
          IF e[1] + 1 > e[2] - 1 THEN 0 ELSE e[2] - 1 - (e[1] + 1) + 1
    <3>1. e[1] + 1 \in Int /\ e[2] - 1 \in Int
      BY <2>3
    <3> QED
      BY <3>1, FS_Interval
  <2> QED
    BY <2>2, <2>3, <2>4
<1>9. ASSUME NEW g \in gaps, NEW h \in gaps
      PROVE  g = h \/ g.end < h.start \/ h.end < g.start
  <2>1. PICK e \in GapEdges(F) : g = gap(e)
    BY <1>3
  <2>2. PICK f \in GapEdges(F) : h = gap(f)
    BY <1>3
  <2>3. /\ e[1] \in DOMAIN F /\ e[2] \in DOMAIN F /\ f[1] \in DOMAIN F /\ f[2] \in DOMAIN F
        /\ e[1] \in Nat /\ e[2] \in Nat /\ f[1] \in Nat /\ f[2] \in Nat
        /\ e[2] > e[1] + 1 /\ f[2] > f[1] + 1
        /\ e = <<e[1], e[2]>> /\ f = <<f[1], f[2]>>
    BY <1>4
  <2>4. (f[1] <= e[1] \/ f[1] >= e[2]) /\ (f[2] <= e[1] \/ f[2] >= e[2])
    BY <1>2, <2>3
  <2>5. (e[1] <= f[1] \/ e[1] >= f[2]) /\ (e[2] <= f[1] \/ e[2] >= f[2])
    BY <1>2, <2>3
  <2>6. (e[1] = f[1] /\ e[2] = f[2]) \/ e[2] <= f[1] \/ f[2] <= e[1]
    BY <2>3, <2>4, <2>5
  <2>7. e = f \/ e[2] < f[1] + 1 \/ f[2] < e[1] + 1
    BY <2>3, <2>6
  <2> QED
    BY <1>5, <2>1, <2>2, <2>7
<1>10. UNION {g.start .. g.end - 1 : g \in gaps} = Extent(F) \ DOMAIN F
  BY <1>6, <1>7
<1> QED
  BY <1>8, <1>9, <1>10 DEF gaps

\* What the four say of one window p of n slots that has a bar.
LEMMA WindowsAgree ==
  ASSUME NEW F, DOMAIN F \in SUBSET Nat, DOMAIN F # {},
         NEW b \in Nat, \A s \in DOMAIN F : s <= b, NEW p \in Int
  PROVE  LET H == HoursPerH4 IN
         /\ Inside(H, F, p) <=> Quality(H, F, p) # "boundary_incomplete"
         /\ Disposition(F, p) = "emitted" <=> Quality(H, F, p) = "complete"
         /\ Disposition(F, p) = "emitted" => Inside(H, F, p)
         /\ Disposition(F, p) = "withheld_market_closed" <=> Quality(H, F, p) = "market_gap"
         /\ WindowCause(F, p) = "none" <=> Disposition(F, p) = "emitted"
<1> DEFINE H == HoursPerH4
           inside == Inside(H, F, p)
           whole == SlotsOf(H, p) \subseteq DOMAIN F
           shut == ClosedHours(F, p) = MissingHours(F, p)
<1>1. H \in Nat \ {0}
  BY TimeframesAssumption
<1>2. (inside <=> ~Boundary(H, F, p)) /\ (inside <=> ~AtEdge(F, p))
  BY <1>1, EdgesAgree DEF AtEdge
<1>3. whole <=> MissingHours(F, p) = {}
  BY DEF MissingHours
<1>4. whole => inside
  <2>1. DOMAIN F \subseteq Extent(F)
    <3>1. /\ Min(DOMAIN F) \in DOMAIN F /\ \A s \in DOMAIN F : Min(DOMAIN F) <= s
          /\ Max(DOMAIN F) \in DOMAIN F /\ \A s \in DOMAIN F : s <= Max(DOMAIN F)
      BY MinMax
    <3>2. Min(DOMAIN F) \in Int /\ Max(DOMAIN F) \in Int
      BY <3>1
    <3> QED
      BY <3>1, <3>2 DEF Extent
  <2> QED
    BY <1>1, <2>1, EdgesAgree
<1>5. inside => (shut <=> \A s \in Missing(H, F, p) : IsClosed(F, s))
  <2> SUFFICES ASSUME inside PROVE shut <=> \A s \in Missing(H, F, p) : IsClosed(F, s)
    OBVIOUS
  <2>1. SlotsOf(H, p) \subseteq Extent(F)
    BY <1>1, EdgesAgree
  <2>2. Missing(H, F, p) = MissingHours(F, p)
    BY <2>1 DEF Missing, MissingHours
  <2> QED
    BY <2>2 DEF ClosedHours
<1> HIDE DEF inside, whole, shut
<1>6. Quality(H, F, p) =
        IF ~inside THEN "boundary_incomplete"
        ELSE IF whole THEN "complete"
        ELSE IF shut THEN "market_gap" ELSE "degraded_unknown"
  <2>1. Quality(H, F, p) =
          IF Boundary(H, F, p) THEN "boundary_incomplete"
          ELSE IF whole THEN "complete"
          ELSE IF \A s \in Missing(H, F, p) : IsClosed(F, s) THEN "market_gap"
          ELSE "degraded_unknown"
    BY DEF Quality, whole
  <2> QED
    BY <1>2, <1>5, <2>1
<1>7. Disposition(F, p) =
        IF ~inside THEN "withheld_boundary"
        ELSE IF whole THEN "emitted"
        ELSE IF shut THEN "withheld_market_closed" ELSE "withheld_undetermined"
  <2>1. Disposition(F, p) =
          IF AtEdge(F, p) THEN "withheld_boundary"
          ELSE IF MissingHours(F, p) = {} THEN "emitted"
          ELSE IF shut THEN "withheld_market_closed" ELSE "withheld_undetermined"
    BY DEF Disposition, shut
  <2> QED
    BY <1>2, <1>3, <2>1
<1>8. WindowCause(F, p) = "none" <=> whole
  BY <1>3 DEF WindowCause
<1>9. inside <=> Quality(H, F, p) # "boundary_incomplete"
  BY <1>6
<1>10. /\ Disposition(F, p) = "emitted" <=> inside /\ whole
       /\ Quality(H, F, p) = "complete" <=> inside /\ whole
  BY <1>6, <1>7
<1>11. Disposition(F, p) = "withheld_market_closed" <=> Quality(H, F, p) = "market_gap"
  BY <1>6, <1>7
<1> QED
  BY <1>4, <1>8, <1>9, <1>10, <1>11 DEF inside

LEMMA FrameAccounts == HoursInv /\ RowsInv => AccountsAgree
<1> SUFFICES ASSUME HoursInv, RowsInv, HandedOver, DOMAIN frame # {} PROVE AccountsAgree
  BY DEF AccountsAgree
<1> DEFINE F == frame
           H == HoursPerH4
           report == CoverageReport(H, F)
           bars == Resample(H, F)
           h4 == BuildH4(F)
           gaps == DetectGaps(F)
           absent == UNION {g.start .. g.end - 1 : g \in gaps}
<1>1. PICK b \in Nat : DOMAIN F \subseteq 0 .. b
  BY FrameBounded
<1>2. DOMAIN F \in SUBSET Nat /\ DOMAIN F # {} /\ \A s \in DOMAIN F : s <= b
  BY <1>1
<1>3. H \in Nat \ {0}
  BY TimeframesAssumption
<1>4. Periods(H, F) \subseteq Nat
  BY <1>2, <1>3, SlotInPeriod DEF Periods
<1>5. \A p \in Periods(H, F) :
        /\ Inside(H, F, p) <=> Quality(H, F, p) # "boundary_incomplete"
        /\ Disposition(F, p) = "emitted" <=> Quality(H, F, p) = "complete"
        /\ Disposition(F, p) = "emitted" => Inside(H, F, p)
        /\ Disposition(F, p) = "withheld_market_closed" <=> Quality(H, F, p) = "market_gap"
        /\ WindowCause(F, p) = "none" <=> Disposition(F, p) = "emitted"
  <2> TAKE p \in Periods(H, F)
  <2>1. p \in Int
    BY <1>4
  <2> QED
    BY <1>2, <2>1, WindowsAgree
<1>6. /\ absent = Extent(F) \ DOMAIN F
      /\ \A g \in gaps : g.bar_count = Cardinality(g.start .. g.end - 1)
      /\ \A g, h \in gaps : g = h \/ g.end < h.start \/ h.end < g.start
  BY <1>2, GapsAre
<1>7. /\ DOMAIN report = Periods(H, F)
      /\ \A p \in Periods(H, F) :
           /\ report[p].quality = Quality(H, F, p)
           /\ report[p].missing = Cardinality(Missing(H, F, p))
           /\ report[p].longest = LongestRun(Missing(H, F, p))
  BY DEF CoverageReport
<1>8. /\ DOMAIN bars = {p \in Periods(H, F) : Inside(H, F, p)}
      /\ \A p \in DOMAIN bars : bars[p] = Aggregate(H, F, p)
  BY DEF Resample
<1>9. /\ DOMAIN h4 = {p \in Periods(H, F) : Disposition(F, p) = "emitted"}
      /\ \A p \in DOMAIN h4 : h4[p] = Aggregate(H, F, p)
  BY DEF BuildH4
<1>10. \A p \in Periods(H, F) : Missing(H, F, p) = SlotsOf(H, p) \cap absent
  BY <1>6 DEF Missing
<1> HIDE DEF report, bars, h4, gaps, absent, H
<1>11. DOMAIN bars = {p \in DOMAIN report : ProductionEligible(report[p])}
  BY <1>5, <1>7, <1>8 DEF ProductionEligible
<1>12. DOMAIN h4 = {p \in DOMAIN report : report[p].quality = "complete"}
  BY <1>5, <1>7, <1>9
<1>13. \A p \in DOMAIN h4 : h4[p] = bars[p]
  BY <1>5, <1>8, <1>9
<1>14. \A p \in DOMAIN report :
         /\ (Disposition(F, p) = "withheld_market_closed") = (report[p].quality = "market_gap")
         /\ (WindowCause(F, p) = "none") = (p \in DOMAIN h4)
         /\ report[p].missing = Cardinality(SlotsOf(H, p) \cap absent)
         /\ report[p].longest = LongestRun(SlotsOf(H, p) \cap absent)
  <2> TAKE p \in DOMAIN report
  <2>1. p \in Periods(H, F)
    BY <1>7
  <2>2. (Disposition(F, p) = "withheld_market_closed") = (report[p].quality = "market_gap")
    BY <1>5, <1>7, <2>1
  <2>3. (WindowCause(F, p) = "none") = (p \in DOMAIN h4)
    BY <1>5, <1>9, <2>1
  <2> QED
    BY <1>7, <1>10, <2>1, <2>2, <2>3
<1> QED
  BY <1>6, <1>11, <1>12, <1>13, <1>14 DEF AccountsAgree, report, bars, h4, gaps, absent, H

\* For every frame that is handed over, the resampler, the coverage report, the
\* 4H builder and the gap detection account for the same bars.
THEOREM AccountsAgreeHolds == Spec => []AccountsAgree
<1>1. Spec => []HoursInv
  BY HoursInit, HoursStep, PTL DEF Spec
<1>2. Spec => []RowsInv
  BY <1>1, RowsInit, RowsStep, PTL DEF Spec
<1> QED
  BY <1>1, <1>2, FrameAccounts, PTL

----------------------------------------------------------------------------
\* What may be trusted of the cache, and what a run still has to read.

\* All candles of month m that the market has.
Whole(f) == Decode(f[1], Opens(f[1], f[2]))

Wanted(start, end) == Native \X MonthsInWindow(start, end)

\* A file that can be read, and was neither stored early nor left empty by a crash,
\* has all records of its month.
CacheTrusted ==
  \A f \in Native \X AllMonths :
    cache[f] \notin {NoFile, Torn} /\ f \notin early \cup emptied =>
      cache[f] = Opens(f[1], f[2])

\* A file of the window is still to be read, was given up, or is in hand.
NothingSkipped ==
  pc = "fetch" =>
    \A f \in Wanted(window.start, window.end) :
      \/ \E i \in 1 .. Len(queue) : queue[i] = f
      \/ f \in failures
      \/ f \in early \cup emptied
      \/ Whole(f) \subseteq got[f[1]]

CompleteInv ==
  /\ queue \in Seq(Native \X AllMonths)
  /\ CacheTrusted /\ NothingSkipped /\ SuccessMeansComplete

\* A month that is over was answered in full.
LEMMA PayloadOfPastMonth ==
  ASSUME NEW tf \in Native, NEW m \in Nat, now \in Nat, MonthLength * (m + 1) <= now
  PROVE  Payload(tf, m) = Opens(tf, m)
<1> DEFINE D == Duration(tf)
           over == MonthLength * (m + 1)
<1>1. D \in Nat \ {0} /\ MonthLength \in Nat \ {0} /\ MonthLength % D = 0
  <2>1. DayLength \in Nat \ {0} /\ MonthLength \in Nat \ {0} /\ MonthLength % DayLength = 0
    BY TimeframesAssumption, MarketDataAssumption
  <2>2. MonthLength % 1 = 0
    BY <2>1
  <2> QED
    BY <2>1, <2>2 DEF Duration, Native
<1>2. over \in Nat /\ MonthLength * m \in Nat
  BY <1>1
<1> SUFFICES ASSUME NEW s \in MonthLength * m .. over - 1, s % D = 0 PROVE s + D <= now
  BY DEF Payload, Opens
<1>3. s \in Nat /\ s < over
  BY <1>2
<1> HIDE DEF D
<1>4. PICK k \in Nat : MonthLength = D * k
  <2>1. MonthLength = D * (MonthLength \div D) + (MonthLength % D) /\ MonthLength \div D \in Nat
    BY <1>1
  <2> QED
    BY <1>1, <2>1
<1>5. PICK j \in Nat : s = D * j
  <2>1. s = D * (s \div D) + (s % D) /\ s \div D \in Nat
    BY <1>1, <1>3
  <2> QED
    BY <1>1, <2>1
<1>6. over = D * (k * (m + 1)) /\ k * (m + 1) \in Nat
  BY <1>1, <1>4
<1>7. \A q \in Nat : D * j < D * q => D * j + D <= D * q
  <2> TAKE q \in Nat
  <2>1. CASE j < q
    <3>1. PICK r \in Nat : q = j + 1 + r
      <4>1. q - j - 1 \in Nat /\ q = j + 1 + (q - j - 1)
        BY <2>1
      <4> QED
        BY <4>1
    <3>2. D * q = D * j + D + D * r /\ D * r \in Nat /\ D * j \in Nat
      BY <1>1, <3>1
    <3> QED
      BY <1>1, <3>2
  <2>2. CASE q <= j
    <3>1. PICK r \in Nat : j = q + r
      <4>1. j - q \in Nat /\ j = q + (j - q)
        BY <2>2
      <4> QED
        BY <4>1
    <3>2. D * j = D * q + D * r /\ D * r \in Nat /\ D * q \in Nat
      BY <1>1, <3>1
    <3> QED
      BY <3>2
  <2> QED
    BY <2>1, <2>2
<1> HIDE DEF over
<1>8. s + D <= over
  <2> DEFINE q == k * (m + 1)
  <2> HIDE DEF q
  <2>1. q \in Nat /\ over = D * q
    BY <1>6 DEF q
  <2> QED
    BY <1>3, <1>5, <1>7, <2>1
<1> QED
  BY <1>1, <1>2, <1>3, <1>8 DEF over

\* The provider's clock stands at one of its hours.
ClockInv == now \in Nows

LEMMA NextHour ==
  ASSUME NEW t \in Nat, t < Max(Nows)
  PROVE  Min({u \in Nows : u > t}) \in Nows
<1> DEFINE later == {u \in Nows : u > t}
<1>1. Nows \in SUBSET Nat /\ Nows # {} /\ Horizon \in Nat /\ \A u \in Nows : u <= Horizon
  BY MarketDataAssumption
<1>2. Max(Nows) \in Nows
  BY <1>1, MinMax
<1>3. later \in SUBSET Nat /\ later # {} /\ \A u \in later : u <= Horizon
  BY <1>1, <1>2
<1> HIDE DEF later
<1>4. Min(later) \in later
  BY <1>1, <1>3, MinMax
<1> QED
  BY <1>4 DEF later

LEMMA ClockInit == Init => ClockInv
<1>1. Nows \in SUBSET Nat /\ Nows # {} /\ Horizon \in Nat /\ \A u \in Nows : u <= Horizon
  BY MarketDataAssumption
<1>2. Min(Nows) \in Nows
  BY <1>1, MinMax
<1> QED
  BY <1>2 DEF Init, ClockInv

LEMMA ClockStep == ClockInv /\ [Next]_vars => ClockInv'
<1> SUFFICES ASSUME ClockInv, [Next]_vars PROVE ClockInv'
  OBVIOUS
<1>1. now \in Nows /\ now \in Nat
  BY MarketDataAssumption DEF ClockInv
<1>2. CASE Tick
  BY <1>1, <1>2, NextHour DEF Tick, ClockInv
<1>3. ASSUME now' = now PROVE ClockInv'
  BY <1>1, <1>3 DEF ClockInv
<1>4. CASE UNCHANGED vars
  BY <1>3, <1>4 DEF vars, native
<1>5. ASSUME NEW s \in Starts, NEW e \in Ends, Run(s, e) PROVE ClockInv'
  BY <1>3, <1>5 DEF Run
<1>6. ASSUME NEW f \in Native \X AllMonths,
             ReadCached(f) \/ Download(f) \/ GiveUp(f) \/ Refuse(f) \/ Cut(f)
      PROVE  ClockInv'
  BY <1>3, <1>6 DEF ReadCached, Download, GiveUp, Refuse, Cut, Abort, ToNextFile
<1>7. CASE Finish
  BY <1>3, <1>7 DEF Finish
<1>8. ASSUME NEW row \in Rows, Supply(row) PROVE ClockInv'
  BY <1>3, <1>8 DEF Supply, native
<1> QED
  BY <1>2, <1>4, <1>5, <1>6, <1>7, <1>8 DEF Next

\* The queue of a run has every file of its window.
LEMMA FilesOfWindow ==
  ASSUME NEW tf, NEW start, NEW end
  PROVE  LET files == Files(tf, start, end) IN
         /\ files \in Seq({tf} \X AllMonths)
         /\ \A m \in MonthsInWindow(start, end) : \E i \in 1 .. Len(files) : files[i] = <<tf, m>>
<1> DEFINE S == MonthsInWindow(start, end)
           B == Horizon \div MonthLength
           months == Ascending(S)
           files == Files(tf, start, end)
<1>1. B \in Nat
  BY MarketDataAssumption
<1>2. S \subseteq AllMonths
  BY DEF MonthsInWindow
<1>3. S \in SUBSET Nat /\ \A m \in S : m <= B
  BY <1>1, <1>2 DEF AllMonths
<1> HIDE DEF S, B
<1>4. PICK N \in Nat :
        /\ months \in [1 .. N -> S]
        /\ \A i \in S : \E n \in 1 .. N : months[n] = i
  BY <1>1, <1>3, AscendingIs
<1>5. files = [i \in DOMAIN months |-> <<tf, months[i]>>]
  BY DEF Files, S
<1> HIDE DEF months, files
<1>6. files \in [1 .. N -> {tf} \X AllMonths]
  BY <1>2, <1>4, <1>5
<1>7. files \in Seq({tf} \X AllMonths) /\ Len(files) = N
  BY <1>6, SeqDef, LenProperties
<1>8. \A m \in S : \E i \in 1 .. N : files[i] = <<tf, m>>
  BY <1>4, <1>5
<1> QED
  BY <1>7, <1>8 DEF files, S

LEMMA QueueOfWindow ==
  ASSUME NEW start, NEW end
  PROVE  LET q == Files("1h", start, end) \o Files("1d", start, end) IN
         /\ q \in Seq(Native \X AllMonths)
         /\ \A f \in Wanted(start, end) : \E i \in 1 .. Len(q) : q[i] = f
<1> DEFINE A == Files("1h", start, end)
           B == Files("1d", start, end)
           q == A \o B
<1>1. A \in Seq({"1h"} \X AllMonths) /\ B \in Seq({"1d"} \X AllMonths)
  BY FilesOfWindow
<1>2. \A m \in MonthsInWindow(start, end) :
        /\ \E i \in 1 .. Len(A) : A[i] = <<"1h", m>>
        /\ \E i \in 1 .. Len(B) : B[i] = <<"1d", m>>
  BY FilesOfWindow
<1> HIDE DEF A, B
<1>3. A \in Seq(Native \X AllMonths) /\ B \in Seq(Native \X AllMonths)
  <2>1. \A i \in 1 .. Len(A) : A[i] \in Native \X AllMonths
    BY <1>1 DEF Native
  <2>2. \A i \in 1 .. Len(B) : B[i] \in Native \X AllMonths
    BY <1>1 DEF Native
  <2>3. A \in [1 .. Len(A) -> Native \X AllMonths] /\ Len(A) \in Nat
    BY <1>1, <2>1
  <2>4. B \in [1 .. Len(B) -> Native \X AllMonths] /\ Len(B) \in Nat
    BY <1>1, <2>2
  <2> QED
    BY <2>3, <2>4, SeqDef
<1>4. /\ q \in Seq(Native \X AllMonths) /\ Len(q) = Len(A) + Len(B)
      /\ \A i \in 1 .. Len(A) : q[i] = A[i]
      /\ \A i \in 1 .. Len(B) : q[Len(A) + i] = B[i]
  BY <1>3
<1>5. Len(A) \in Nat /\ Len(B) \in Nat
  BY <1>1
<1> HIDE DEF q
<1>6. ASSUME NEW f \in Wanted(start, end) PROVE \E i \in 1 .. Len(q) : q[i] = f
  <2>1. f[2] \in MonthsInWindow(start, end) /\ (f = <<"1h", f[2]>> \/ f = <<"1d", f[2]>>)
    BY DEF Wanted, Native
  <2>2. CASE f = <<"1h", f[2]>>
    <3>1. PICK i \in 1 .. Len(A) : A[i] = f
      BY <1>2, <2>1, <2>2
    <3>2. i \in 1 .. Len(q) /\ q[i] = f
      BY <1>4, <1>5, <3>1
    <3> QED
      BY <3>2
  <2>3. CASE f = <<"1d", f[2]>>
    <3>1. PICK i \in 1 .. Len(B) : B[i] = f
      BY <1>2, <2>1, <2>3
    <3>2. Len(A) + i \in 1 .. Len(q) /\ q[Len(A) + i] = f
      BY <1>4, <1>5, <3>1
    <3> QED
      BY <3>2
  <2> QED
    BY <2>1, <2>2, <2>3
<1> QED
  BY <1>4, <1>6 DEF q, A, B

\* One file on.
LEMMA NextInQueue ==
  ASSUME NEW S, NEW q \in Seq(S), q # <<>>
  PROVE  /\ Tail(q) \in Seq(S)
         /\ \A f : (\E i \in 1 .. Len(q) : q[i] = f)
                     => f = Head(q) \/ \E i \in 1 .. Len(Tail(q)) : Tail(q)[i] = f
<1>1. /\ Tail(q) \in Seq(S) /\ Len(q) \in Nat /\ Len(Tail(q)) = Len(q) - 1
      /\ \A i \in 1 .. Len(q) - 1 : Tail(q)[i] = q[i + 1]
      /\ Head(q) = q[1]
  OBVIOUS
<1>2. ASSUME NEW f, NEW i \in 1 .. Len(q), q[i] = f
      PROVE  f = Head(q) \/ \E j \in 1 .. Len(Tail(q)) : Tail(q)[j] = f
  <2>1. CASE i = 1
    BY <1>1, <1>2, <2>1
  <2>2. CASE i # 1
    <3>1. i - 1 \in 1 .. Len(Tail(q)) /\ i - 1 + 1 = i
      BY <1>1, <2>2
    <3>2. Tail(q)[i - 1] = f
      BY <1>1, <1>2, <3>1
    <3> QED
      BY <3>1, <3>2
  <2> QED
    BY <2>1, <2>2
<1> QED
  BY <1>1, <1>2

\* What the run reads of a file that may be trusted is all there is of it.
LEMMA ReadIsWhole ==
  ASSUME HoursInv, ClockInv, CacheTrusted, NEW f \in Native \X AllMonths,
         ReadCached(f) \/ Download(f)
  PROVE  /\ CacheTrusted' /\ early \subseteq early' /\ emptied' = emptied
         /\ f \in (early \cup emptied)' \/ Whole(f) \subseteq got'[f[1]]
         /\ \A tf \in Native : got[tf] \subseteq got'[tf]
<1>1. f[1] \in Native /\ f[2] \in Nat /\ got \in [Native -> SUBSET Int]
  BY MarketDataAssumption DEF HoursInv, AllMonths
<1>2. ASSUME NEW records, Receive(f, records)
      PROVE  /\ Decode(f[1], records) \subseteq got'[f[1]]
             /\ \A tf \in Native : got[tf] \subseteq got'[tf]
  BY <1>1, <1>2 DEF Receive
<1>3. CASE ReadCached(f)
  <2>1. /\ cache' = cache /\ early' = early /\ emptied' = emptied
        /\ Decode(f[1], cache[f]) \subseteq got'[f[1]]
        /\ \A tf \in Native : got[tf] \subseteq got'[tf]
    BY <1>2, <1>3 DEF ReadCached, ToNextFile
  <2>2. f \notin early \cup emptied => cache[f] = Opens(f[1], f[2])
    BY <1>3 DEF ReadCached, CacheTrusted
  <2>3. CacheTrusted'
    BY <2>1 DEF CacheTrusted
  <2> QED
    BY <2>1, <2>2, <2>3 DEF Whole
<1>4. CASE Download(f)
  <2> DEFINE answer == Payload(f[1], f[2])
  <2>1. /\ cache' = [cache EXCEPT ![f] = answer]
        /\ early' = IF MonthLength * (f[2] + 1) <= now THEN early ELSE early \cup {f}
        /\ emptied' = emptied
        /\ Decode(f[1], answer) \subseteq got'[f[1]]
        /\ \A tf \in Native : got[tf] \subseteq got'[tf]
    BY <1>2, <1>4 DEF Download, ToNextFile
  <2>2. now \in Nat
    BY MarketDataAssumption DEF ClockInv
  <2>3. f \notin early' => answer = Opens(f[1], f[2])
    BY <1>1, <2>1, <2>2, PayloadOfPastMonth
  <2> HIDE DEF answer
  <2>4. \A g \in Native \X AllMonths : cache'[g] = IF g = f THEN answer ELSE cache[g]
    BY <2>1 DEF HoursInv
  <2>5. early \subseteq early'
    BY <2>1
  <2>6. CacheTrusted'
    <3> SUFFICES ASSUME NEW g \in Native \X AllMonths, cache'[g] \notin {NoFile, Torn},
                        g \notin (early \cup emptied)'
        PROVE  cache'[g] = Opens(g[1], g[2])
      BY DEF CacheTrusted
    <3>1. CASE g = f
      BY <2>3, <2>4, <3>1
    <3>2. CASE g # f
      BY <2>1, <2>4, <2>5, <3>2 DEF CacheTrusted
    <3> QED
      BY <3>1, <3>2
  <2> QED
    BY <2>1, <2>3, <2>5, <2>6 DEF Whole
<1> QED
  BY <1>3, <1>4

LEMMA CompleteInit == Init => CompleteInv
BY DEF Init, CompleteInv, CacheTrusted, NothingSkipped, SuccessMeansComplete

LEMMA CompleteStep ==
  HoursInv /\ ClockInv /\ CompleteInv /\ [Next]_vars => CompleteInv'
<1> SUFFICES ASSUME HoursInv, ClockInv, CompleteInv, [Next]_vars PROVE CompleteInv'
  OBVIOUS
<1>1. queue \in Seq(Native \X AllMonths) /\ CacheTrusted /\ NothingSkipped /\ SuccessMeansComplete
  BY DEF CompleteInv
<1>2. ASSUME traded' = traded
      PROVE  \A f : Whole(f)' = Whole(f)
  BY <1>2 DEF Whole, Decode, IsProviderPadding, Opens
<1>3. CASE UNCHANGED vars
  <2>1. UNCHANGED <<traded, cache, pc, window, queue, got, failures, early, emptied>>
    BY <1>3 DEF vars, native
  <2> QED
    BY <1>1, <2>1 DEF CompleteInv, CacheTrusted, NothingSkipped, SuccessMeansComplete,
       Whole, Decode, IsProviderPadding, Opens, Clip
<1>4. CASE Tick
  <2>1. UNCHANGED <<traded, cache, pc, window, queue, got, failures, early, emptied>>
    BY <1>4 DEF Tick
  <2> QED
    BY <1>1, <2>1 DEF CompleteInv, CacheTrusted, NothingSkipped, SuccessMeansComplete,
       Whole, Decode, IsProviderPadding, Opens, Clip
<1>5. ASSUME NEW row \in Rows, Supply(row) PROVE CompleteInv'
  <2>1. UNCHANGED <<traded, cache, pc, window, queue, got, failures, early, emptied>>
    BY <1>5 DEF Supply, native
  <2> QED
    BY <1>1, <2>1 DEF CompleteInv, CacheTrusted, NothingSkipped, SuccessMeansComplete,
       Whole, Decode, IsProviderPadding, Opens, Clip
<1>6. ASSUME NEW s \in Starts, NEW e \in Ends, Run(s, e) PROVE CompleteInv'
  <2>1. /\ pc' = "fetch" /\ cache' = cache /\ early' = early /\ emptied' = emptied
        /\ window'.start = s /\ window'.end = e
        /\ queue' = Files("1h", s, e) \o Files("1d", s, e)
    BY <1>6 DEF Run
  <2>2. /\ queue' \in Seq(Native \X AllMonths)
        /\ \A f \in Wanted(s, e) : \E i \in 1 .. Len(queue') : queue'[i] = f
    BY <2>1, QueueOfWindow
  <2>3. NothingSkipped'
    BY <2>1, <2>2 DEF NothingSkipped
  <2>4. CacheTrusted' /\ SuccessMeansComplete'
    BY <1>1, <2>1 DEF CacheTrusted, SuccessMeansComplete
  <2> QED
    BY <2>2, <2>3, <2>4 DEF CompleteInv
<1>7. ASSUME NEW f \in Native \X AllMonths, ReadCached(f) \/ Download(f) \/ GiveUp(f)
      PROVE  CompleteInv'
  <2>1. /\ pc = "fetch" /\ queue # <<>> /\ Head(queue) = f /\ queue' = Tail(queue)
        /\ traded' = traded /\ pc' = pc /\ window' = window
    BY <1>7 DEF ReadCached, Download, GiveUp, Reading, ToNextFile
  <2>2. /\ queue' \in Seq(Native \X AllMonths)
        /\ \A g : (\E i \in 1 .. Len(queue) : queue[i] = g)
                    => g = f \/ \E i \in 1 .. Len(queue') : queue'[i] = g
    <3>1. /\ Tail(queue) \in Seq(Native \X AllMonths)
          /\ \A g : (\E i \in 1 .. Len(queue) : queue[i] = g)
                      => \/ g = Head(queue)
                         \/ \E i \in 1 .. Len(Tail(queue)) : Tail(queue)[i] = g
      BY ONLY <1>1, <2>1, NextInQueue
    <3> QED
      BY <2>1, <3>1
  <2>3. /\ CacheTrusted' /\ early \subseteq early' /\ emptied' = emptied
        /\ failures \subseteq failures'
        /\ f \in (early \cup emptied)' \/ f \in failures' \/ Whole(f) \subseteq got'[f[1]]
        /\ \A tf \in Native : got[tf] \subseteq got'[tf]
    <3>1. CASE ReadCached(f) \/ Download(f)
      <4>1. failures' = failures
        BY <3>1 DEF ReadCached, Download
      <4> QED
        BY <1>1, <3>1, <4>1, ReadIsWhole
    <3>2. CASE GiveUp(f)
      <4>1. failures' = failures \cup {f} /\ UNCHANGED <<cache, got, early, emptied>>
        BY <3>2 DEF GiveUp, ToNextFile
      <4>2. CacheTrusted'
        BY <1>1, <4>1 DEF CacheTrusted
      <4> QED
        BY <4>1, <4>2
    <3> QED
      BY <1>7, <3>1, <3>2
  <2>4. NothingSkipped'
    <3> SUFFICES ASSUME NEW g \in Wanted(window.start, window.end)
        PROVE  \/ \E i \in 1 .. Len(queue') : queue'[i] = g
               \/ g \in failures'
               \/ g \in (early \cup emptied)'
               \/ Whole(g) \subseteq got'[g[1]]
      BY <1>2, <2>1 DEF NothingSkipped
    <3>1. g[1] \in Native
      BY DEF Wanted
    <3>2. \/ \E i \in 1 .. Len(queue) : queue[i] = g
          \/ g \in failures
          \/ g \in early \cup emptied
          \/ Whole(g) \subseteq got[g[1]]
      BY <1>1, <2>1 DEF NothingSkipped
    <3> QED
      BY <2>2, <2>3, <3>1, <3>2
  <2>5. SuccessMeansComplete'
    BY <2>1 DEF SuccessMeansComplete
  <2> QED
    BY <2>2, <2>3, <2>4, <2>5 DEF CompleteInv
<1>8. ASSUME NEW f \in Native \X AllMonths, Refuse(f) \/ Cut(f) PROVE CompleteInv'
  <2>1. pc' = "idle" /\ queue' = <<>>
    BY <1>8 DEF Refuse, Cut, Abort
  <2>2. CacheTrusted'
    <3>1. CASE Refuse(f)
      BY <1>1, <3>1 DEF Refuse, CacheTrusted
    <3>2. CASE Cut(f)
      <4>1. PICK bytes \in {{}, Torn} :
              /\ cache' = [cache EXCEPT ![f] = bytes]
              /\ emptied' = IF bytes = Torn THEN emptied ELSE emptied \cup {f}
        BY <3>2 DEF Cut
      <4>2. /\ early' = early /\ emptied \subseteq emptied'
            /\ \A g \in Native \X AllMonths : g # f => cache'[g] = cache[g]
            /\ cache'[f] = Torn \/ f \in emptied'
        BY <3>2, <4>1 DEF Cut, HoursInv
      <4> QED
        BY <1>1, <4>2 DEF CacheTrusted
    <3> QED
      BY <1>8, <3>1, <3>2
  <2> QED
    BY <2>1, <2>2 DEF CompleteInv, NothingSkipped, SuccessMeansComplete
<1>9. CASE Finish
  <2>1. /\ pc = "fetch" /\ queue = <<>> /\ pc' = "done"
        /\ got' = [tf \in Native |-> Clip(got[tf])]
        /\ UNCHANGED <<traded, cache, window, queue, early, emptied>> /\ failures \subseteq failures'
    BY <1>9 DEF Finish
  <2>2. CacheTrusted'
    BY <1>1, <2>1 DEF CacheTrusted
  <2>3. SuccessMeansComplete'
    <3> SUFFICES ASSUME failures' = {}, NEW f \in Native \X MonthsInWindow(window.start, window.end),
                        f \notin early \cup emptied
        PROVE  Clip(Whole(f)) \subseteq got'[f[1]]
      <4>1. \A f : Clip(Decode(f[1], Opens(f[1], f[2])))' = Clip(Whole(f))
        BY <2>1 DEF Whole, Decode, IsProviderPadding, Opens, Clip
      <4> QED
        BY <2>1, <4>1 DEF SuccessMeansComplete
    <3>1. f \in Wanted(window.start, window.end) /\ f[1] \in Native
      BY DEF Wanted
    <3>2. failures = {} /\ ~(\E i \in 1 .. Len(queue) : queue[i] = f)
      BY <2>1
    <3>3. Whole(f) \subseteq got[f[1]]
      BY <1>1, <2>1, <3>1, <3>2 DEF NothingSkipped
    <3>4. got'[f[1]] = Clip(got[f[1]])
      BY <2>1, <3>1
    <3> QED
      BY <3>3, <3>4 DEF Clip
  <2>4. NothingSkipped'
    BY <2>1 DEF NothingSkipped
  <2> QED
    BY <1>1, <2>1, <2>2, <2>3, <2>4 DEF CompleteInv
<1> QED
  BY <1>3, <1>4, <1>5, <1>6, <1>7, <1>8, <1>9 DEF Next

\* Runs may fail, abort and be repeated over any cache: one that reports no
\* failure has all there is of every month, but for the files that were stored
\* before their month was over and those that a crash left empty.
THEOREM SuccessMeansCompleteHolds == Spec => []SuccessMeansComplete
<1>1. Spec => []HoursInv
  BY HoursInit, HoursStep, PTL DEF Spec
<1>2. Spec => []ClockInv
  BY ClockInit, ClockStep, PTL DEF Spec
<1>3. Spec => []CompleteInv
  BY <1>1, <1>2, CompleteInit, CompleteStep, PTL DEF Spec
<1>4. CompleteInv => SuccessMeansComplete
  BY DEF CompleteInv
<1> QED
  BY <1>3, <1>4, PTL
=============================================================================
