-------------------------- MODULE InversionsProofs --------------------------
(***************************************************************************)
(* Proofs about Inversions, for every set of candles, open times and       *)
(* configurations, and frames of any length: the walk of FairValueGaps and *)
(* the fill tracker of Zones follow one definition of a fill.              *)
(***************************************************************************)
EXTENDS Inversions, Extrema

\* A zone has two edges apart.
IsZone(z) ==
  z.direction \in Directions /\ z.top \in Int /\ z.bottom \in Int /\ z.top > z.bottom

\* The thresholds of a fill.
HasThresholds(c) == c.full \in 1 .. Whole /\ c.partial \in 0 .. Whole

\* How deep prices are in a zone, and which of two is deeper.
LEMMA DepthIs ==
  ASSUME NEW z, IsZone(z), NEW p \in Int, NEW q \in Int
  PROVE  /\ Depth(z, p) \in 0 .. z.top - z.bottom
         /\ Depth(z, p) > 0 <=> Deeper(z, p, EntryEdge(z))
         /\ Depth(z, p) = z.top - z.bottom <=> ~Deeper(z, FarEdge(z), p)
         /\ Depth(z, q) < z.top - z.bottom =>
              (Depth(z, q) < Depth(z, p) <=> Deeper(z, p, q) /\ Deeper(z, p, EntryEdge(z)))
<1>1. CASE z.direction = "bullish"
  BY <1>1 DEF IsZone, Depth, Distance, EntryEdge, FarEdge, Deeper, Beyond, Opposite
<1>2. CASE z.direction = "bearish"
  BY <1>2 DEF IsZone, Depth, Distance, EntryEdge, FarEdge, Deeper, Beyond, Opposite
<1> QED
  BY <1>1, <1>2 DEF IsZone, Directions

\* A price in the zone fills it once it is deep enough, a deeper one too, and one
\* at the far edge whatever the threshold.
LEMMA FillsIs ==
  ASSUME NEW z, IsZone(z), NEW p \in Int, NEW q \in Int, NEW full \in 1 .. Whole
  PROVE  /\ Fills(z, p, full) => Depth(z, p) > 0
         /\ Depth(z, p) = z.top - z.bottom => Fills(z, p, full)
         /\ Fills(z, p, full) /\ Depth(z, p) <= Depth(z, q) => Fills(z, q, full)
<1> DEFINE h == z.top - z.bottom
<1>1. h \in Nat \ {0}
  BY DEF IsZone
<1>2. Depth(z, p) \in 0 .. h /\ Depth(z, q) \in 0 .. h
  BY DepthIs
<1> HIDE DEF h
<1>3. full * h \in Nat /\ full * h > 0 /\ full * h <= 4 * h
  <2>1. full = 1 \/ full = 2 \/ full = 3 \/ full = 4
    BY DEF Whole
  <2> QED
    BY <1>1, <2>1
<1>4. \A r : Fills(z, r, full) <=> Depth(z, r) * 4 >= full * h
  BY DEF Fills, Whole, h
<1> DEFINE x == full * h
<1> HIDE DEF x
<1>5. x \in Nat /\ x > 0 /\ x <= 4 * h /\ \A r : Fills(z, r, full) <=> Depth(z, r) * 4 >= x
  BY <1>3, <1>4 DEF x
<1>6. Fills(z, p, full) => Depth(z, p) > 0
  BY <1>2, <1>5
<1>7. Depth(z, p) = h => Fills(z, p, full)
  BY <1>1, <1>5
<1>8. Fills(z, p, full) /\ Depth(z, p) <= Depth(z, q) => Fills(z, q, full)
  BY <1>1, <1>2, <1>5
<1> QED
  BY <1>6, <1>7, <1>8 DEF h

----------------------------------------------------------------------------
\* The bars after bar t of a frame F, and what they do to zone z.

DepthAt(F, z, k) == Depth(z, Reach(z, F[k]))

FillsAt(F, c, z, k) == Fills(z, Reach(z, F[k]), c.full)

FilledBy(F, c, z, t, k) == \E i \in t + 1 .. k : FillsAt(F, c, z, i)

\* Bar k trades deeper into the zone than the bars since t, before it is filled.
Deepens(F, c, z, t, k) ==
  /\ ~FilledBy(F, c, z, t, k - 1)
  /\ DepthAt(F, z, k) > 0
  /\ \A i \in t + 1 .. k - 1 : DepthAt(F, z, i) < DepthAt(F, z, k)

Emits(F, c, z, t, k) ==
  Deepens(F, c, z, t, k) /\ (Enters(z, Reach(z, F[k]), c.partial) \/ FillsAt(F, c, z, k))

Emitted(F, c, z, k) ==
  [zone |-> z, bar |-> k, price |-> Reach(z, F[k]),
   after |-> IF FillsAt(F, c, z, k) THEN "mitigated" ELSE "partially_filled"]

LEMMA ReachIs ==
  ASSUME NEW z, z.direction \in Directions, NEW F \in Seq(Bars), NEW k \in 1 .. Len(F)
  PROVE  Reach(z, F[k]) \in Int
<1>1. F[k] \in Bars
  OBVIOUS
<1> QED
  BY <1>1, BarsAssumption DEF WellFormed, Reach, Extreme

\* Before the zone is filled no bar reaches its far edge, and the first bar to
\* fill it is deeper than every bar before.
LEMMA FirstFill ==
  ASSUME NEW F \in Seq(Bars), NEW c, HasThresholds(c), NEW z, IsZone(z),
         NEW t \in Nat, NEW k \in t + 1 .. Len(F), ~FilledBy(F, c, z, t, k - 1)
  PROVE  /\ \A i \in t + 1 .. k - 1 : DepthAt(F, z, i) < z.top - z.bottom
         /\ FillsAt(F, c, z, k) => Deepens(F, c, z, t, k)
<1>1. \A i \in t + 1 .. k : i \in 1 .. Len(F) /\ Reach(z, F[i]) \in Int
  BY ReachIs DEF IsZone
<1>2. \A i \in t + 1 .. k - 1 : i \in t + 1 .. k /\ ~FillsAt(F, c, z, i)
  BY DEF FilledBy
<1>3. \A i \in t + 1 .. k : DepthAt(F, z, i) \in 0 .. z.top - z.bottom
  BY <1>1, DepthIs DEF DepthAt
<1>4. c.full \in 1 .. Whole
  BY DEF HasThresholds
<1>5. ASSUME NEW i \in t + 1 .. k - 1 PROVE DepthAt(F, z, i) < z.top - z.bottom
  <2>1. DepthAt(F, z, i) # z.top - z.bottom
    BY <1>1, <1>2, <1>4, FillsIs DEF FillsAt, DepthAt
  <2>2. z.top - z.bottom \in Int
    BY DEF IsZone
  <2> QED
    BY <1>2, <1>3, <2>1, <2>2
<1>6. k \in t + 1 .. k
  OBVIOUS
<1>7. ASSUME FillsAt(F, c, z, k) PROVE Deepens(F, c, z, t, k)
  <2>1. DepthAt(F, z, k) > 0
    BY <1>1, <1>4, <1>6, <1>7, FillsIs DEF FillsAt, DepthAt
  <2>2. ASSUME NEW i \in t + 1 .. k - 1 PROVE DepthAt(F, z, i) < DepthAt(F, z, k)
    <3>1. ~(DepthAt(F, z, k) <= DepthAt(F, z, i))
      BY <1>1, <1>2, <1>4, <1>6, <1>7, FillsIs DEF FillsAt, DepthAt
    <3>2. DepthAt(F, z, k) \in Int /\ DepthAt(F, z, i) \in Int
      BY <1>2, <1>3, <1>6
    <3> QED
      BY <3>1, <3>2
  <2> QED
    BY <2>1, <2>2 DEF Deepens
<1> QED
  BY <1>5, <1>7

\* The tracker of composites.py emits these bars.
LEMMA TrackerIs ==
  ASSUME NEW F \in Seq(Bars), NEW T, NEW c, HasThresholds(c), NEW z, IsZone(z),
         NEW t \in Nat, NEW instant, BarsFrom(T, instant) = t + 1 .. Len(F)
  PROVE  \A u : u \in TrackZoneFill(F, T, c, z, instant)
                  <=> \E k \in t + 1 .. Len(F) : Emits(F, c, z, t, k) /\ u = Emitted(F, c, z, k)
<1> DEFINE window == BarsFrom(T, instant)
           n == Len(F)
           depth(k) == Depth(z, Reach(z, F[k]))
           deepens == {k \in window : depth(k) > 0 /\ \A i \in window : i < k => depth(i) < depth(k)}
           full == {k \in deepens : Fills(z, Reach(z, F[k]), c.full)}
           emitted == {k \in deepens : /\ Enters(z, Reach(z, F[k]), c.partial) \/ k \in full
                                       /\ \A i \in full : k <= i}
           record(k) == [zone |-> z, bar |-> k, price |-> Reach(z, F[k]),
                         after |-> IF k \in full THEN "mitigated" ELSE "partially_filled"]
<1>1. n \in Nat
  OBVIOUS
<1>2. TrackZoneFill(F, T, c, z, instant) = {record(k) : k \in emitted}
  BY DEF TrackZoneFill
<1>3. \A k : k \in deepens <=>
        /\ k \in t + 1 .. n /\ DepthAt(F, z, k) > 0
        /\ \A i \in t + 1 .. k - 1 : DepthAt(F, z, i) < DepthAt(F, z, k)
  <2>1. ASSUME NEW k \in t + 1 .. n
        PROVE  \A i : i \in t + 1 .. k - 1 <=> i \in t + 1 .. n /\ i < k
    BY <1>1
  <2>2. \A k : k \in deepens <=>
          /\ k \in t + 1 .. n /\ DepthAt(F, z, k) > 0
          /\ \A i \in t + 1 .. n : i < k => DepthAt(F, z, i) < DepthAt(F, z, k)
    BY DEF DepthAt
  <2> HIDE DEF deepens, n
  <2> QED
    BY <2>1, <2>2
<1>4. \A k : k \in full <=> k \in deepens /\ FillsAt(F, c, z, k)
  BY DEF FillsAt
<1>5. \A k : k \in emitted <=>
        /\ k \in deepens /\ (Enters(z, Reach(z, F[k]), c.partial) \/ k \in full)
        /\ \A i \in full : k <= i
  OBVIOUS
<1> HIDE DEF deepens, full, emitted, n
<1>6. ASSUME NEW k \in deepens
      PROVE  (\A i \in full : k <= i) <=> ~FilledBy(F, c, z, t, k - 1)
  <2>1. k \in t + 1 .. n
    BY <1>3
  <2>2. ASSUME NEW i \in full, ~(k <= i) PROVE FilledBy(F, c, z, t, k - 1)
    <3>1. i \in t + 1 .. n /\ FillsAt(F, c, z, i)
      BY <1>3, <1>4
    <3>2. i \in t + 1 .. k - 1
      BY <1>1, <2>1, <2>2, <3>1
    <3> QED
      BY <3>1, <3>2 DEF FilledBy
  <2>3. ASSUME FilledBy(F, c, z, t, k - 1) PROVE \E i \in full : ~(k <= i)
    <3> DEFINE S == {i \in t + 1 .. k - 1 : FillsAt(F, c, z, i)}
    <3>1. S \in SUBSET Nat /\ S # {}
      BY <2>3 DEF FilledBy
    <3> HIDE DEF S
    <3>2. PICK m \in S : \A i \in S : m <= i
      BY <3>1, HasLeast
    <3>3. m \in t + 1 .. k - 1 /\ FillsAt(F, c, z, m)
      BY DEF S
    <3>4. m \in t + 1 .. n /\ m < k
      BY <1>1, <2>1, <3>3
    <3>5. ~FilledBy(F, c, z, t, m - 1)
      <4> SUFFICES ASSUME NEW i \in t + 1 .. m - 1, FillsAt(F, c, z, i) PROVE FALSE
        BY DEF FilledBy
      <4>1. i \in S
        BY <2>1, <3>3 DEF S
      <4>2. m <= i
        BY <3>2, <4>1
      <4> QED
        BY <3>3, <4>2
    <3>6. Deepens(F, c, z, t, m)
      BY <3>3, <3>4, <3>5, FirstFill DEF n
    <3>7. m \in full
      BY <1>3, <1>4, <3>3, <3>4, <3>6 DEF Deepens
    <3>8. ~(k <= m)
      BY <2>1, <3>4
    <3> QED
      BY <3>7, <3>8
  <2> QED
    BY <2>2, <2>3
<1>7. \A k : k \in emitted <=> k \in t + 1 .. n /\ Emits(F, c, z, t, k)
  BY <1>3, <1>4, <1>5, <1>6 DEF Emits, Deepens
<1>8. \A k \in emitted : record(k) = Emitted(F, c, z, k)
  <2> TAKE k \in emitted
  <2>1. k \in full <=> FillsAt(F, c, z, k)
    BY <1>4, <1>5
  <2> QED
    BY <2>1 DEF Emitted
<1> HIDE DEF record
<1>9. \A u : u \in {record(k) : k \in emitted} <=> \E k \in emitted : u = Emitted(F, c, z, k)
  BY <1>8
<1> QED
  BY <1>2, <1>7, <1>9 DEF n

----------------------------------------------------------------------------
\* Of bars that do not overlap, those from the close of bar t on come after it.
LEMMA FromIs ==
  ASSUME NEW n \in Nat, NEW T \in [1 .. n -> Nat], Increasing(T), NEW t \in 1 .. n
  PROVE  BarsFrom(T, CloseTime(T, t)) = t + 1 .. n
<1>1. Duration \in Nat \ {0}
  BY DurationAssumption
<1>2. \A k \in 1 .. n : T[k] >= T[t] + Duration <=> k \in t + 1 .. n
  <2> TAKE k \in 1 .. n
  <2>1. T[k] \in Nat /\ T[t] \in Nat
    OBVIOUS
  <2>2. k > t => T[t] + Duration <= T[k]
    BY DEF Increasing
  <2>3. k < t => T[k] + Duration <= T[t]
    BY DEF Increasing
  <2> QED
    BY <1>1, <2>1, <2>2, <2>3
<1>3. DOMAIN T = 1 .. n
  OBVIOUS
<1>4. \A k \in t + 1 .. n : k \in 1 .. n
  OBVIOUS
<1> QED
  BY <1>2, <1>3, <1>4 DEF BarsFrom, CloseTime

\* The prices that bound a bar lie within it.
LEMMA BoundsOf ==
  ASSUME NEW c \in Configs, NEW bar \in Bars
  PROVE  /\ Upper(c, bar) \in Int /\ bar.low <= Upper(c, bar)
         /\ Lower(c, bar) \in Int /\ Lower(c, bar) <= bar.high
BY BarsAssumption DEF WellFormed, Upper, Lower

LEMMA ConfigFields ==
  ASSUME NEW c \in Configs
  PROVE  HasThresholds(c) /\ c.minGap \in Nat
BY GapAssumption DEF ConfigType, HasThresholds

\* A gap is a zone made of its first and third candle.
LEMMA GapIs ==
  ASSUME NEW n \in Nat, NEW F \in [1 .. n -> Bars], NEW T, NEW c \in Configs,
         NEW z \in GapsOf(F, T, c)
  PROVE  /\ z.third \in 3 .. n /\ IsZone(z)
         /\ z = Gap(F, c, z.direction, z.third)
<1>1. PICK d \in Directions, third \in DOMAIN F :
        IsGap(F, T, c, d, third) /\ z = Gap(F, c, d, third)
  BY DEF GapsOf
<1>2. third \in 3 .. n
  BY <1>1 DEF IsGap
<1>3. F[third] \in Bars /\ F[third - 2] \in Bars
  BY <1>2
<1>4. /\ Upper(c, F[third]) \in Int /\ Lower(c, F[third]) \in Int
      /\ Upper(c, F[third - 2]) \in Int /\ Lower(c, F[third - 2]) \in Int
  BY <1>3, BoundsOf
<1>5. z.direction = d /\ z.third = third
  BY <1>1 DEF Gap
<1>6. z.top \in Int /\ z.bottom \in Int
  BY <1>1, <1>4 DEF Gap
<1>7. z.top > z.bottom
  BY <1>1 DEF IsGap
<1> QED
  BY <1>1, <1>2, <1>5, <1>6, <1>7 DEF IsZone

----------------------------------------------------------------------------
\* What the walk knows of zone z, formed by bar t, after bar k of frame F.

FilledStatus(F, c, z, t, k) ==
  IF FilledBy(F, c, z, t, k) THEN "mitigated"
  ELSE IF \E i \in t + 1 .. k : Emits(F, c, z, t, i) THEN "partially_filled" ELSE "active"

\* The deepest price so far is one that price reached, and no bar that came
\* before the zone was filled went deeper.
DeepestIs(F, c, z, t, k, d) ==
  /\ d \in Int /\ ~Deeper(z, EntryEdge(z), d)
  /\ d = EntryEdge(z) \/ \E i \in t + 1 .. k : d = Reach(z, F[i])
  /\ \A i \in t + 1 .. k : ~FilledBy(F, c, z, t, i - 1) => ~Deeper(z, Reach(z, F[i]), d)

LEMMA FilledStep ==
  ASSUME NEW F, NEW c, NEW z, NEW t \in Nat, NEW k \in Nat \ {0}
  PROVE  FilledBy(F, c, z, t, k) <=> FilledBy(F, c, z, t, k - 1) \/ (t < k /\ FillsAt(F, c, z, k))
<1>1. \A i : i \in t + 1 .. k <=> i \in t + 1 .. k - 1 \/ (t < k /\ i = k)
  OBVIOUS
<1> QED
  BY <1>1 DEF FilledBy

\* A bar beyond the deepest price so far is one that deepens the fill.
LEMMA DeepensIs ==
  ASSUME NEW F \in Seq(Bars), NEW c, HasThresholds(c), NEW z, IsZone(z),
         NEW t \in Nat, NEW k \in t + 1 .. Len(F), NEW d, DeepestIs(F, c, z, t, k - 1, d),
         ~FilledBy(F, c, z, t, k - 1)
  PROVE  Deeper(z, Reach(z, F[k]), d) <=> Deepens(F, c, z, t, k)
<1> DEFINE p == Reach(z, F[k])
           e == EntryEdge(z)
           R == {Reach(z, F[i]) : i \in t + 1 .. k - 1}
<1>1. \A i \in t + 1 .. k : i \in 1 .. Len(F) /\ Reach(z, F[i]) \in Int
  BY ReachIs DEF IsZone
<1>2. p \in Int /\ e \in Int /\ \A q \in R : q \in Int
  BY <1>1 DEF IsZone, EntryEdge
<1>3. \A i \in t + 1 .. k - 1 : ~FilledBy(F, c, z, t, i - 1)
  BY DEF FilledBy
<1>4. d \in Int /\ ~Deeper(z, e, d) /\ (d = e \/ d \in R) /\ \A q \in R : ~Deeper(z, q, d)
  BY <1>3 DEF DeepestIs
<1>5. \A q \in R : Depth(z, q) < z.top - z.bottom
  BY FirstFill DEF DepthAt
<1>6. Deepens(F, c, z, t, k) <=> Depth(z, p) > 0 /\ \A q \in R : Depth(z, q) < Depth(z, p)
  BY DEF Deepens, DepthAt
<1> HIDE DEF p, e, R
<1>7. Depth(z, p) > 0 <=> Deeper(z, p, e)
  BY <1>2, DepthIs DEF e
<1>8. \A q \in R : Depth(z, q) < Depth(z, p) <=> Deeper(z, p, q) /\ Deeper(z, p, e)
  BY <1>2, <1>5, DepthIs DEF e
<1>9. Deepens(F, c, z, t, k) <=> Deeper(z, p, e) /\ \A q \in R : Deeper(z, p, q)
  BY <1>6, <1>7, <1>8
<1>10. \A x, y \in Int : Deeper(z, p, x) /\ ~Deeper(z, y, x) => Deeper(z, p, y)
  BY <1>2 DEF Deeper, Beyond
<1>11. Deeper(z, p, d) <=> Deeper(z, p, e) /\ \A q \in R : Deeper(z, p, q)
  BY <1>2, <1>4, <1>10
<1> QED
  BY <1>9, <1>11 DEF p

\* The update that fills a zone is its last.
LEMMA LastEmitted ==
  ASSUME NEW F \in Seq(Bars), NEW c, HasThresholds(c), NEW z, IsZone(z),
         NEW t \in Nat, NEW k \in t .. Len(F), FilledBy(F, c, z, t, k)
  PROVE  \E m \in t + 1 .. k :
           /\ Emits(F, c, z, t, m) /\ FillsAt(F, c, z, m)
           /\ \A i \in t + 1 .. k : Emits(F, c, z, t, i) => i <= m
<1> DEFINE S == {i \in t + 1 .. k : FillsAt(F, c, z, i)}
<1>1. S \in SUBSET Nat /\ S # {}
  BY DEF FilledBy
<1> HIDE DEF S
<1>2. PICK m \in S : \A i \in S : m <= i
  BY <1>1, HasLeast
<1>3. m \in t + 1 .. k /\ FillsAt(F, c, z, m)
  BY DEF S
<1>4. ~FilledBy(F, c, z, t, m - 1)
  <2> SUFFICES ASSUME NEW i \in t + 1 .. m - 1, FillsAt(F, c, z, i) PROVE FALSE
    BY DEF FilledBy
  <2>1. i \in S
    BY <1>3 DEF S
  <2> QED
    BY <1>2, <1>3, <2>1
<1>5. m \in t + 1 .. Len(F)
  BY <1>3
<1>6. Emits(F, c, z, t, m)
  BY <1>3, <1>4, <1>5, FirstFill DEF Emits
<1>7. ASSUME NEW i \in t + 1 .. k, Emits(F, c, z, t, i) PROVE i <= m
  <2> SUFFICES ASSUME ~(i <= m) PROVE FALSE
    OBVIOUS
  <2>1. m \in t + 1 .. i - 1
    BY <1>3
  <2> QED
    BY <1>3, <1>7, <2>1 DEF Emits, Deepens, FilledBy
<1> QED
  BY <1>3, <1>6, <1>7

\* The last of the updates of a zone tells its status.
LEMMA StatusIs ==
  ASSUME NEW F \in Seq(Bars), NEW c, HasThresholds(c), NEW z, IsZone(z),
         NEW t \in Nat, NEW k \in Nat, k <= Len(F), NEW S,
         \A u : u \in S <=> \E i \in t + 1 .. k : Emits(F, c, z, t, i) /\ u = Emitted(F, c, z, i)
  PROVE  (IF S = {} THEN "active" ELSE (CHOOSE u \in S : \A v \in S : v.bar <= u.bar).after)
           = FilledStatus(F, c, z, t, k)
<1> DEFINE u0 == CHOOSE u \in S : \A v \in S : v.bar <= u.bar
           E == {i \in t + 1 .. k : Emits(F, c, z, t, i)}
<1>1. S = {} <=> E = {}
  OBVIOUS
<1>2. \A i \in E : Emitted(F, c, z, i).bar = i
  BY DEF Emitted
<1>3. ASSUME E # {} PROVE \E m \in E : u0 = Emitted(F, c, z, m) /\ \A i \in E : i <= m
  <2>1. E \in SUBSET Nat /\ \A i \in E : i <= k
    OBVIOUS
  <2>2. \A u : u \in S <=> \E i \in E : u = Emitted(F, c, z, i)
    OBVIOUS
  <2> HIDE DEF E
  <2>3. PICK g \in E : \A i \in E : i <= g
    BY <1>3, <2>1, HasGreatest
  <2>4. Emitted(F, c, z, g) \in S /\ \A v \in S : v.bar <= Emitted(F, c, z, g).bar
    BY <1>2, <2>2, <2>3
  <2>5. u0 \in S /\ \A v \in S : v.bar <= u0.bar
    BY <2>4
  <2> HIDE DEF u0
  <2>6. PICK m \in E : u0 = Emitted(F, c, z, m)
    BY <2>2, <2>5
  <2>7. \A i \in E : i <= m
    BY <1>2, <2>2, <2>5, <2>6
  <2> QED
    BY <2>6, <2>7
<1>4. CASE FilledBy(F, c, z, t, k)
  <2>0. t <= k
    BY <1>4 DEF FilledBy
  <2>1. PICK m \in t + 1 .. k :
          /\ Emits(F, c, z, t, m) /\ FillsAt(F, c, z, m)
          /\ \A i \in t + 1 .. k : Emits(F, c, z, t, i) => i <= m
    <3>1. k \in t .. Len(F)
      BY <2>0
    <3> QED
      BY <1>4, <3>1, LastEmitted
  <2>2. m \in E
    BY <2>1
  <2>3. PICK g \in E : u0 = Emitted(F, c, z, g) /\ \A i \in E : i <= g
    BY <1>3, <2>2
  <2>4. g = m
    BY <2>1, <2>2, <2>3
  <2>5. u0.after = "mitigated"
    BY <2>1, <2>3, <2>4 DEF Emitted
  <2> QED
    BY <1>1, <1>4, <2>2, <2>5 DEF FilledStatus
<1>5. CASE ~FilledBy(F, c, z, t, k) /\ E # {}
  <2>1. PICK g \in E : u0 = Emitted(F, c, z, g)
    BY <1>3, <1>5
  <2>2. ~FillsAt(F, c, z, g)
    BY <1>5 DEF FilledBy
  <2> HIDE DEF u0
  <2>3. u0.after = "partially_filled"
    BY <2>1, <2>2 DEF Emitted
  <2> QED
    BY <1>1, <1>5, <2>3 DEF FilledStatus, u0
<1>6. CASE ~FilledBy(F, c, z, t, k) /\ E = {}
  BY <1>1, <1>6 DEF FilledStatus
<1> QED
  BY <1>4, <1>5, <1>6

----------------------------------------------------------------------------
\* The walk.

Walked ==
  /\ frame \in [1 .. Len(frame) -> Bars] /\ opens \in [1 .. Len(frame) -> Nat]
  /\ Len(frame) \in Nat /\ Increasing(opens)
  /\ config \in Configs /\ zones = GapsOf(frame, opens, config)
  /\ index \in 0 .. Len(frame)

\* The walk has recorded what the bars so far did to each zone.
Followed ==
  /\ active \subseteq zones
  /\ \A z \in zones :
       /\ z \in active <=> z.third <= index /\ ~FilledBy(frame, config, z, z.third, index)
       /\ DeepestIs(frame, config, z, z.third, index, deepest[z])
       /\ status[z] = FilledStatus(frame, config, z, z.third, index)
  /\ \A u : u \in fills <=>
       \E z \in zones : \E i \in z.third + 1 .. index :
         Emits(frame, config, z, z.third, i) /\ u = Emitted(frame, config, z, i)

WalkInv == Walked /\ Followed

LEMMA ZonesAre ==
  ASSUME Walked
  PROVE  /\ frame \in Seq(Bars) /\ HasThresholds(config)
         /\ \A z \in zones : IsZone(z) /\ z.third \in 3 .. Len(frame)
<1>1. frame \in Seq(Bars)
  BY DEF Walked
<1> QED
  BY <1>1, GapIs, ConfigFields DEF Walked

LEMMA WalkStarts == Init => WalkInv
<1> SUFFICES ASSUME Init PROVE WalkInv
  OBVIOUS
<1>1. PICK n \in 0 .. MaxBars :
        opens \in [1 .. n -> OpenTimes] /\ Increasing(opens) /\ frame \in [1 .. n -> Bars]
  BY DEF Init
<1>2. n \in Nat /\ Len(frame) = n
  BY <1>1
<1>3. opens \in [1 .. n -> Nat]
  BY <1>1, GapAssumption
<1>4. Walked
  BY <1>1, <1>2, <1>3 DEF Init, Walked
<1>5. ASSUME NEW z \in zones
      PROVE  /\ z \in active <=> z.third <= index /\ ~FilledBy(frame, config, z, z.third, index)
             /\ DeepestIs(frame, config, z, z.third, index, deepest[z])
             /\ status[z] = FilledStatus(frame, config, z, z.third, index)
  <2>1. IsZone(z) /\ z.third \in 3 .. Len(frame)
    BY <1>4, ZonesAre
  <2>2. index = 0 /\ deepest[z] = EntryEdge(z) /\ status[z] = "active" /\ active = {}
    BY DEF Init
  <2>3. z.third + 1 .. index = {}
    BY <1>2, <2>1, <2>2
  <2>4. EntryEdge(z) \in Int
    BY <2>1 DEF IsZone, EntryEdge
  <2>5. ~Deeper(z, EntryEdge(z), EntryEdge(z))
    BY <2>4 DEF Deeper, Beyond
  <2>6. ~(z.third <= index)
    BY <1>2, <2>1, <2>2
  <2>7. ~FilledBy(frame, config, z, z.third, index)
    BY <2>3 DEF FilledBy
  <2> QED
    BY <2>2, <2>3, <2>4, <2>5, <2>6, <2>7 DEF DeepestIs, FilledStatus
<1>6. \A z \in zones : z.third + 1 .. index = {}
  <2>1. index = 0
    BY DEF Init
  <2>2. \A z \in zones : z.third \in 3 .. Len(frame)
    BY <1>4, ZonesAre
  <2> QED
    BY <1>2, <2>1, <2>2
<1> QED
  BY <1>4, <1>5, <1>6 DEF WalkInv, Followed, Init

\* What bar j does to an admitted zone is what the tracker says of it.
LEMMA TriesIs ==
  ASSUME WalkInv, NEW j \in 1 .. Len(frame), j = index + 1, NEW z \in zones
  PROVE  /\ Tries(z, j) <=> z.third < j /\ Deepens(frame, config, z, z.third, j)
         /\ Mitigates(z, j) <=> /\ z.third < j /\ FillsAt(frame, config, z, j)
                                /\ ~FilledBy(frame, config, z, z.third, j - 1)
         /\ Updates(z, j) <=> z.third < j /\ Emits(frame, config, z, z.third, j)
<1> DEFINE t == z.third
<1>1. IsZone(z) /\ t \in 3 .. Len(frame) /\ frame \in Seq(Bars) /\ HasThresholds(config)
  BY ZonesAre DEF WalkInv
<1>2. index \in Nat /\ j - 1 = index
  BY DEF WalkInv, Walked
<1>3. /\ z \in active <=> t <= j - 1 /\ ~FilledBy(frame, config, z, t, j - 1)
      /\ DeepestIs(frame, config, z, t, j - 1, deepest[z])
  BY <1>2 DEF WalkInv, Followed
<1>4. t < j => j \in t + 1 .. Len(frame)
  BY <1>1, <1>2
<1>5. Tries(z, j) <=> /\ t < j /\ ~FilledBy(frame, config, z, t, j - 1)
                      /\ Deeper(z, Reach(z, frame[j]), deepest[z])
  BY <1>1, <1>2, <1>3 DEF Tries, Admitted
<1>6. Tries(z, j) <=> t < j /\ Deepens(frame, config, z, t, j)
  <2>1. CASE t < j /\ ~FilledBy(frame, config, z, t, j - 1)
    BY <1>1, <1>3, <1>4, <1>5, <2>1, DeepensIs
  <2>2. CASE ~(t < j /\ ~FilledBy(frame, config, z, t, j - 1))
    BY <1>5, <2>2 DEF Deepens
  <2> QED
    BY <2>1, <2>2
<1>7. Mitigates(z, j) <=> t < j /\ Deepens(frame, config, z, t, j) /\ FillsAt(frame, config, z, j)
  BY <1>6 DEF Mitigates, FillsAt
<1>8. t < j /\ ~FilledBy(frame, config, z, t, j - 1) /\ FillsAt(frame, config, z, j)
        => Deepens(frame, config, z, t, j)
  BY <1>1, <1>4, FirstFill
<1>9. Mitigates(z, j) <=> t < j /\ FillsAt(frame, config, z, j)
                          /\ ~FilledBy(frame, config, z, t, j - 1)
  BY <1>7, <1>8 DEF Deepens
<1>10. Updates(z, j) <=> t < j /\ Emits(frame, config, z, t, j)
  BY <1>6, <1>7 DEF Updates, Emits, Deepens, DepthAt
<1> QED
  BY <1>6, <1>9, <1>10

LEMMA WalkSteps == WalkInv /\ [Next]_vars => WalkInv'
<1> SUFFICES ASSUME WalkInv, [Next]_vars PROVE WalkInv'
  OBVIOUS
<1>1. CASE UNCHANGED vars
  BY <1>1 DEF vars, WalkInv, Walked, Followed
<1>2. CASE Next
  <2>1. PICK j \in DOMAIN frame : WalkBar /\ j = index + 1
    BY <1>2 DEF Next, WalkBar
  <2>2. /\ index' = j
        /\ deepest' = [z \in zones |-> IF Tries(z, j) THEN Reach(z, frame[j]) ELSE deepest[z]]
        /\ status' = [z \in zones |-> StatusAfter(z, j)]
        /\ fills' = fills \cup {FillUpdate(z, j) : z \in {z \in zones : Updates(z, j)}}
        /\ active' = {z \in Admitted(j) : ~Mitigates(z, j)}
        /\ UNCHANGED <<frame, opens, config, zones>>
    BY <2>1 DEF WalkBar
  <2>3. j \in 1 .. Len(frame) /\ Len(frame) \in Nat /\ index \in Nat /\ j - 1 = index
    BY <2>1 DEF WalkInv, Walked
  <2>4. Walked'
    BY <2>2, <2>3 DEF WalkInv, Walked
  <2> DEFINE filled(z, k) == FilledBy(frame, config, z, z.third, k)
             emits(z, k)  == Emits(frame, config, z, z.third, k)
  <2>5. ASSUME NEW z \in zones
        PROVE  /\ z \in active' <=> z.third <= j /\ ~filled(z, j)
               /\ DeepestIs(frame, config, z, z.third, j, deepest'[z])
               /\ status'[z] = FilledStatus(frame, config, z, z.third, j)
               /\ Updates(z, j) => FillUpdate(z, j) = Emitted(frame, config, z, j)
    <3> DEFINE t == z.third
               p == Reach(z, frame[j])
    <3>1. IsZone(z) /\ t \in 3 .. Len(frame) /\ frame \in Seq(Bars) /\ HasThresholds(config)
      BY ZonesAre DEF WalkInv
    <3>2. /\ Tries(z, j) <=> t < j /\ Deepens(frame, config, z, t, j)
          /\ Mitigates(z, j) <=> t < j /\ FillsAt(frame, config, z, j) /\ ~filled(z, j - 1)
          /\ Updates(z, j) <=> t < j /\ emits(z, j)
      BY <2>1, <2>3, TriesIs
    <3>3. /\ z \in active <=> t <= j - 1 /\ ~filled(z, j - 1)
          /\ DeepestIs(frame, config, z, t, j - 1, deepest[z])
          /\ status[z] = FilledStatus(frame, config, z, t, j - 1)
      BY <2>3 DEF WalkInv, Followed
    <3>4. filled(z, j) <=> filled(z, j - 1) \/ (t < j /\ FillsAt(frame, config, z, j))
      <4>1. z.third \in Nat /\ j \in Nat \ {0}
        BY <2>3, <3>1
      <4> QED
        BY <4>1, FilledStep
    <3>5. filled(z, j - 1) => t <= j - 1
      BY <2>3, <3>1 DEF FilledBy
    <3> HIDE DEF filled
    <3>6. z \in active' <=> t <= j /\ ~filled(z, j)
      <4>1. z \in Admitted(j) <=> z \in active \/ t = j
        BY DEF Admitted
      <4>2. t = j => ~filled(z, j - 1)
        BY <2>3, <3>1, <3>5
      <4> QED
        BY <2>2, <2>3, <3>1, <3>2, <3>3, <3>4, <4>1, <4>2
    <3>7. FilledStatus(frame, config, z, t, j) = StatusAfter(z, j)
      <4>1. (\E i \in t + 1 .. j : emits(z, i))
              <=> (\E i \in t + 1 .. j - 1 : emits(z, i)) \/ (t < j /\ emits(z, j))
        <5>1. \A i : i \in t + 1 .. j <=> i \in t + 1 .. j - 1 \/ (t < j /\ i = j)
          BY <2>3, <3>1
        <5> QED
          BY <5>1
      <4>2. FilledStatus(frame, config, z, t, j) =
              IF filled(z, j) THEN "mitigated"
              ELSE IF \E i \in t + 1 .. j : emits(z, i) THEN "partially_filled" ELSE "active"
        BY DEF FilledStatus, filled
      <4>3. status[z] =
              IF filled(z, j - 1) THEN "mitigated"
              ELSE IF \E i \in t + 1 .. j - 1 : emits(z, i) THEN "partially_filled" ELSE "active"
        BY <3>3 DEF FilledStatus, filled
      <4>4. emits(z, j) => ~filled(z, j - 1)
        BY DEF Emits, Deepens, filled
      <4> HIDE DEF emits
      <4> QED
        BY <3>2, <3>4, <4>1, <4>2, <4>3, <4>4 DEF StatusAfter
    <3>8. Updates(z, j) => FillUpdate(z, j) = Emitted(frame, config, z, j)
      <4> SUFFICES ASSUME Updates(z, j) PROVE FillUpdate(z, j) = Emitted(frame, config, z, j)
        OBVIOUS
      <4>1. ~filled(z, j - 1) /\ t < j
        BY <3>2 DEF Emits, Deepens, filled
      <4>2. StatusAfter(z, j) = IF FillsAt(frame, config, z, j) THEN "mitigated" ELSE "partially_filled"
        BY <3>2, <4>1 DEF StatusAfter
      <4> QED
        BY <4>2 DEF FillUpdate, Emitted
    <3>9. DeepestIs(frame, config, z, t, j, deepest'[z])
      <4> DEFINE d == deepest[z]
                 e == deepest'[z]
      <4>1. e = IF Tries(z, j) THEN p ELSE d
        BY <2>2
      <4>2. p \in Int /\ EntryEdge(z) \in Int
        BY <2>3, <3>1, ReachIs DEF IsZone, EntryEdge
      <4>3. /\ d \in Int /\ ~Deeper(z, EntryEdge(z), d)
            /\ d = EntryEdge(z) \/ \E i \in t + 1 .. j - 1 : d = Reach(z, frame[i])
            /\ \A i \in t + 1 .. j - 1 : ~filled(z, i - 1) => ~Deeper(z, Reach(z, frame[i]), d)
        BY <3>3 DEF DeepestIs, filled
      <4>4. Tries(z, j) <=> t < j /\ ~filled(z, j - 1) /\ Deeper(z, p, d)
        <5>1. Tries(z, j) => t < j /\ ~filled(z, j - 1) /\ Deeper(z, p, d)
          BY <3>2 DEF Tries, Deepens, filled
        <5>2. t < j /\ ~filled(z, j - 1) => z \in active
          BY <2>3, <3>1, <3>3
        <5>3. t < j /\ ~filled(z, j - 1) /\ Deeper(z, p, d) => Tries(z, j)
          BY <5>2 DEF Tries, Admitted
        <5> QED
          BY <5>1, <5>3
      <4>5. \A i : i \in t + 1 .. j <=> i \in t + 1 .. j - 1 \/ (t < j /\ i = j)
        BY <2>3, <3>1
      <4>6. \A i \in t + 1 .. j : Reach(z, frame[i]) \in Int
        <5>1. \A i \in t + 1 .. j : i \in 1 .. Len(frame)
          BY <2>3, <3>1
        <5> QED
          BY <3>1, <5>1, ReachIs DEF IsZone
      <4> HIDE DEF d, e, p
      <4>7. e \in Int
        BY <4>1, <4>2, <4>3
      <4>8. \A x, y, w \in Int : ~Deeper(z, x, y) /\ Deeper(z, w, y) => ~Deeper(z, x, w)
        BY DEF Deeper, Beyond
      <4>9. \A x \in Int : ~Deeper(z, x, x)
        BY DEF Deeper, Beyond
      <4>10. ~Deeper(z, EntryEdge(z), e)
        BY <4>1, <4>2, <4>3, <4>4, <4>8
      <4>11. e = EntryEdge(z) \/ \E i \in t + 1 .. j : e = Reach(z, frame[i])
        <5>1. Tries(z, j) => e = Reach(z, frame[j]) /\ j \in t + 1 .. j
          BY <4>1, <4>4, <4>5 DEF p
        <5>2. ~Tries(z, j) => e = d
          BY <4>1
        <5> QED
          BY <4>3, <4>5, <5>1, <5>2
      <4>12. ASSUME NEW i \in t + 1 .. j, ~filled(z, i - 1)
             PROVE  ~Deeper(z, Reach(z, frame[i]), e)
        <5>1. CASE i \in t + 1 .. j - 1
          <6>1. ~Deeper(z, Reach(z, frame[i]), d)
            BY <4>3, <4>12, <5>1
          <6> QED
            BY <4>1, <4>2, <4>3, <4>4, <4>6, <4>8, <6>1
        <5>2. CASE t < j /\ i = j
          <6>1. Reach(z, frame[i]) = p
            BY <5>2 DEF p
          <6>2. ~filled(z, j - 1)
            BY <4>12, <5>2
          <6> QED
            BY <4>1, <4>2, <4>4, <4>9, <5>2, <6>1, <6>2
        <5> QED
          BY <4>5, <5>1, <5>2
      <4>13. ~Deeper(z, EntryEdge(z), e) /\ e \in Int
        BY <4>7, <4>10
      <4> QED
        BY <4>11, <4>12, <4>13 DEF DeepestIs, e, filled
    <3> QED
      BY <3>6, <3>7, <3>8, <3>9, <2>2 DEF filled
  <2>6. \A u : u \in fills' <=>
          \E z \in zones : \E i \in z.third + 1 .. j : emits(z, i) /\ u = Emitted(frame, config, z, i)
    <3>1. \A u : u \in fills' <=>
            u \in fills \/ \E z \in zones : Updates(z, j) /\ u = FillUpdate(z, j)
      BY <2>2
    <3>2. \A z \in zones : Updates(z, j) <=> z.third < j /\ emits(z, j)
      BY <2>1, <2>3, TriesIs
    <3>3. \A u : u \in fills <=>
            \E z \in zones : \E i \in z.third + 1 .. j - 1 :
              emits(z, i) /\ u = Emitted(frame, config, z, i)
      BY <2>3 DEF WalkInv, Followed
    <3>4. \A z \in zones : Updates(z, j) => FillUpdate(z, j) = Emitted(frame, config, z, j)
      BY <2>5
    <3>5. \A z \in zones : \A i : i \in z.third + 1 .. j <=>
            i \in z.third + 1 .. j - 1 \/ (z.third < j /\ i = j)
      <4>1. \A z \in zones : z.third \in Nat
        BY ZonesAre DEF WalkInv
      <4> QED
        BY <2>3, <4>1
    <3> HIDE DEF emits
    <3> QED
      BY <3>1, <3>2, <3>3, <3>4, <3>5
  <2>7. active' \subseteq zones
    BY <2>2 DEF WalkInv, Followed, Admitted
  <2>8. index' = j /\ zones' = zones /\ frame' = frame /\ config' = config
    BY <2>2
  <2>9. Followed'
    BY <2>5, <2>6, <2>7, <2>8 DEF Followed
  <2> QED
    BY <2>4, <2>9 DEF WalkInv
<1> QED
  BY <1>1, <1>2

LEMMA WalkHolds == Spec => []WalkInv
BY WalkStarts, WalkSteps, PTL DEF Spec

----------------------------------------------------------------------------
\* The updates of one zone, its status, and the zones that are active.
LEMMA FillsOf ==
  ASSUME WalkInv, NEW z \in zones
  PROVE  /\ \A u : u \in {v \in fills : v.zone = z}
              <=> \E i \in z.third + 1 .. index :
                    Emits(frame, config, z, z.third, i) /\ u = Emitted(frame, config, z, i)
         /\ \A k \in 0 .. index : StatusAt(z, k) = FilledStatus(frame, config, z, z.third, k)
<1>1. IsZone(z) /\ z.third \in 3 .. Len(frame) /\ frame \in Seq(Bars) /\ HasThresholds(config)
  BY ZonesAre DEF WalkInv
<1>2. \A y, i : Emitted(frame, config, y, i).zone = y /\ Emitted(frame, config, y, i).bar = i
  BY DEF Emitted
<1>3. \A u : u \in fills <=>
        \E y \in zones : \E i \in y.third + 1 .. index :
          Emits(frame, config, y, y.third, i) /\ u = Emitted(frame, config, y, i)
  BY DEF WalkInv, Followed
<1>4. \A u : u \in {v \in fills : v.zone = z}
        <=> \E i \in z.third + 1 .. index :
              Emits(frame, config, z, z.third, i) /\ u = Emitted(frame, config, z, i)
  BY <1>2, <1>3
<1>5. ASSUME NEW k \in 0 .. index
      PROVE  StatusAt(z, k) = FilledStatus(frame, config, z, z.third, k)
  <2> DEFINE S == {u \in fills : u.zone = z /\ u.bar <= k}
  <2>1. k \in Nat /\ k <= Len(frame) /\ index \in Nat /\ k <= index /\ z.third \in Nat
    BY <1>1 DEF WalkInv, Walked
  <2>2. \A u : u \in S <=> u \in {v \in fills : v.zone = z} /\ u.bar <= k
    OBVIOUS
  <2>3. \A i : i \in z.third + 1 .. k <=> i \in z.third + 1 .. index /\ i <= k
    BY <2>1
  <2> HIDE DEF S
  <2>4. \A u : u \in S
          <=> \E i \in z.third + 1 .. k :
                Emits(frame, config, z, z.third, i) /\ u = Emitted(frame, config, z, i)
    BY <1>2, <1>4, <2>2, <2>3
  <2>5. (IF S = {} THEN "active" ELSE (CHOOSE u \in S : \A v \in S : v.bar <= u.bar).after)
          = FilledStatus(frame, config, z, z.third, k)
    <3> HIDE DEF S
    <3>1. /\ IsZone(z) /\ frame \in Seq(Bars) /\ HasThresholds(config)
          /\ k \in Nat /\ k <= Len(frame) /\ z.third \in Nat
      BY <1>1, <2>1
    <3> QED
      BY ONLY <2>4, <3>1, StatusIs
  <2> QED
    BY <2>5 DEF StatusAt, S
<1> QED
  BY <1>4, <1>5

\* The two trackers of fills agree, and the dated fills give back the state of
\* the walk (FvgDetector.analyse, composites.track_zone_fill, FvgAnalysis.status_at).
THEOREM TrackersAgreeHolds == Spec => []TrackersAgree
<1>1. WalkInv => TrackersAgree
  <2> SUFFICES ASSUME WalkInv PROVE TrackersAgree
    OBVIOUS
  <2>1. index \in Nat /\ index <= Len(frame) /\ Len(frame) \in Nat /\ index \in 0 .. index
    BY DEF WalkInv, Walked
  <2>2. ASSUME NEW z \in zones
        PROVE  /\ {v \in fills : v.zone = z} =
                    UpTo(TrackZoneFill(frame, opens, config, z, CloseTime(opens, z.third)), index)
               /\ status[z] = StatusAt(z, index)
               /\ z \in active <=> Observable(z, index) /\ StatusAt(z, index) # "mitigated"
    <3> DEFINE S == TrackZoneFill(frame, opens, config, z, CloseTime(opens, z.third))
               O == {v \in fills : v.zone = z}
    <3>1. IsZone(z) /\ z.third \in 3 .. Len(frame) /\ frame \in Seq(Bars) /\ HasThresholds(config)
      BY ZonesAre DEF WalkInv
    <3>2. z.third \in Nat /\ z.third \in 1 .. Len(frame)
      BY <2>1, <3>1
    <3>3. BarsFrom(opens, CloseTime(opens, z.third)) = z.third + 1 .. Len(frame)
      BY <2>1, <3>2, FromIs DEF WalkInv, Walked
    <3>4. \A u : u \in S
            <=> \E k \in z.third + 1 .. Len(frame) :
                  Emits(frame, config, z, z.third, k) /\ u = Emitted(frame, config, z, k)
      BY <3>1, <3>2, <3>3, TrackerIs
    <3>5. /\ \A u : u \in O
                <=> \E i \in z.third + 1 .. index :
                      Emits(frame, config, z, z.third, i) /\ u = Emitted(frame, config, z, i)
          /\ StatusAt(z, index) = FilledStatus(frame, config, z, z.third, index)
      BY <2>1, FillsOf
    <3>6. \A i : i \in z.third + 1 .. index <=> i \in z.third + 1 .. Len(frame) /\ i <= index
      BY <2>1, <3>2
    <3>7. \A i : Emitted(frame, config, z, i).bar = i
      BY DEF Emitted
    <3> HIDE DEF S, O
    <3>8. O = UpTo(S, index)
      BY <3>4, <3>5, <3>6, <3>7 DEF UpTo
    <3>9. /\ status[z] = StatusAt(z, index)
          /\ z \in active <=> z.third <= index /\ ~FilledBy(frame, config, z, z.third, index)
      BY <3>5 DEF WalkInv, Followed
    <3>10. StatusAt(z, index) # "mitigated" <=> ~FilledBy(frame, config, z, z.third, index)
      BY <3>5 DEF FilledStatus
    <3> QED
      BY <3>8, <3>9, <3>10 DEF S, O, Observable
  <2>3. active = ActiveAt(index)
    BY <2>2 DEF WalkInv, Followed, ActiveAt
  <2> QED
    BY <2>2, <2>3 DEF TrackersAgree
<1> QED
  BY <1>1, WalkHolds, PTL

\* A bar that trades through a zone fills it.
LEMMA ThroughFills ==
  ASSUME NEW c, HasThresholds(c), NEW z, IsZone(z), NEW bar \in Bars,
         ~Deeper(z, FarEdge(z), Reach(z, bar))
  PROVE  Fills(z, Reach(z, bar), c.full)
<1>1. Reach(z, bar) \in Int
  BY BarsAssumption DEF WellFormed, Reach, Extreme, IsZone
<1>2. Depth(z, Reach(z, bar)) = z.top - z.bottom
  BY <1>1, DepthIs
<1> QED
  BY <1>1, <1>2, FillsIs DEF HasThresholds

\* A gap that price closed or wicked through is mitigated by the close of the
\* bar that inverts it (IfvgDetector.detect beside FvgDetector.analyse).
THEOREM InvertedAreMitigatedHolds == Spec => []InvertedAreMitigated
<1>1. WalkInv => InvertedAreMitigated
  <2> SUFFICES ASSUME WalkInv, config.trigger # "close_inside_zone",
                      NEW v \in UpTo(InversionsOf(frame, opens, config), index)
               PROVE  StatusAt(v.source, v.bar) = "mitigated"
    BY DEF InvertedAreMitigated
  <2>1. PICK z \in zones : /\ Hits(frame, opens, config, z) # {}
                           /\ v = Inversion(frame, opens, config, z) /\ v.bar <= index
    BY DEF UpTo, InversionsOf, WalkInv, Walked
  <2>2. v.source = z /\ v.bar = Min(Hits(frame, opens, config, z))
    BY <2>1 DEF Inversion
  <2>3. IsZone(z) /\ z.third \in 3 .. Len(frame) /\ frame \in Seq(Bars) /\ HasThresholds(config)
    BY ZonesAre DEF WalkInv
  <2>4. index \in Nat /\ index <= Len(frame) /\ Len(frame) \in Nat
    BY DEF WalkInv, Walked
  <2>5. z.third \in Nat /\ z.third \in 1 .. Len(frame)
    BY <2>3, <2>4
  <2>6. BarsFrom(opens, CloseTime(opens, z.third)) = z.third + 1 .. Len(frame)
    BY <2>4, <2>5, FromIs DEF WalkInv, Walked
  <2>7. /\ Hits(frame, opens, config, z) \subseteq z.third + 1 .. Len(frame)
        /\ \A k \in Hits(frame, opens, config, z) : TriggerHit(config, z, frame[k])
    BY <2>6 DEF Hits, Window
  <2>8. Hits(frame, opens, config, z) \in SUBSET Nat
    BY <2>4, <2>5, <2>7
  <2>9. v.bar \in Hits(frame, opens, config, z)
    <3>1. PICK m \in Hits(frame, opens, config, z) :
            \A y \in Hits(frame, opens, config, z) : m <= y
      BY <2>1, <2>8, HasLeast
    <3> QED
      BY <2>2, <2>8, <3>1, LeastIs
  <2> DEFINE k == v.bar
  <2>10. k \in z.third + 1 .. Len(frame) /\ TriggerHit(config, z, frame[k]) /\ k <= index
    BY <2>1, <2>7, <2>9
  <2> HIDE DEF k
  <2>11. frame[k] \in Bars /\ k \in z.third + 1 .. k /\ k \in 0 .. index
    BY <2>3, <2>4, <2>5, <2>10
  <2>12. ~Deeper(z, FarEdge(z), Reach(z, frame[k]))
    <3>1. config.trigger \in {"close_through_far_edge", "wick_through"}
      BY GapAssumption DEF ConfigType, WalkInv, Walked
    <3>2. Beyond(Opposite(z.direction), frame[k].close, FarEdge(z))
            \/ Beyond(Opposite(z.direction), Reach(z, frame[k]), FarEdge(z))
      BY <2>10, <3>1 DEF TriggerHit, Reach
    <3> DEFINE bar == frame[k]
               far == FarEdge(z)
    <3>3. /\ bar.low \in Int /\ bar.high \in Int /\ bar.close \in Int
          /\ bar.low <= bar.close /\ bar.close <= bar.high /\ far \in Int
      BY <2>3, <2>11, BarsAssumption DEF WellFormed, IsZone, FarEdge
    <3> HIDE DEF bar, far
    <3> QED
      BY <3>2, <3>3 DEF Deeper, Beyond, Reach, Extreme, bar, far
  <2>13. FilledBy(frame, config, z, z.third, k)
    BY <2>3, <2>11, <2>12, ThroughFills DEF FilledBy, FillsAt
  <2>14. StatusAt(z, k) = FilledStatus(frame, config, z, z.third, k)
    BY <2>11, FillsOf
  <2> QED
    BY <2>2, <2>13, <2>14 DEF FilledStatus, k
<1> QED
  BY <1>1, WalkHolds, PTL

\* When a balanced range becomes known, price has filled its earlier gap or has
\* reached the far edge of what the two gaps share (BprDetector.detect beside
\* FvgDetector.analyse).
THEOREM BalancedAreTradedHolds == Spec => []BalancedAreTraded
<1>1. WalkInv => BalancedAreTraded
  <2> SUFFICES ASSUME WalkInv, NEW p \in BprConfigs,
                      NEW x \in UpTo(BalancedOf(opens, p, zones), index)
               PROVE  \/ StatusAt(x.earlier, x.bar) = "mitigated"
                      \/ ~Deeper(x.earlier, FarEdge([x EXCEPT !.direction = x.earlier.direction]),
                                 deepest[x.earlier])
    BY DEF BalancedAreTraded
  <2>1. PICK a \in zones, b \in zones :
          Balances(opens, p, a, b) /\ x = Balanced(p, a, b) /\ x.bar <= index
    BY DEF UpTo, BalancedOf
  <2>2. /\ x.earlier = a /\ x.bar = b.third
        /\ x.top = Overlap(a, b).top /\ x.bottom = Overlap(a, b).bottom
    BY <2>1 DEF Balanced
  <2>3. /\ IsZone(a) /\ a.third \in 3 .. Len(frame) /\ frame \in Seq(Bars)
        /\ IsZone(b) /\ b.third \in 3 .. Len(frame) /\ HasThresholds(config)
    BY ZonesAre DEF WalkInv
  <2>4. /\ index \in Nat /\ index <= Len(frame) /\ Len(frame) \in Nat
        /\ b.third \in a.third + 1 .. index /\ b.third \in 0 .. index
    BY <2>1, <2>2, <2>3 DEF WalkInv, Walked, Balances
  <2>5. StatusAt(a, b.third) = FilledStatus(frame, config, a, a.third, b.third)
    BY <2>4, FillsOf
  <2>6. CASE FilledBy(frame, config, a, a.third, b.third)
    BY <2>2, <2>5, <2>6 DEF FilledStatus
  <2>7. CASE ~FilledBy(frame, config, a, a.third, b.third)
    <3> DEFINE bar == frame[b.third]
               far == FarEdge([x EXCEPT !.direction = a.direction])
               d == deepest[a]
    <3>1. ~FilledBy(frame, config, a, a.third, b.third - 1)
      BY <2>3, <2>4, <2>7 DEF FilledBy
    <3>2. d \in Int /\ ~Deeper(a, Reach(a, bar), d)
      BY <2>4, <3>1 DEF WalkInv, Followed, DeepestIs
    <3>3. bar \in Bars /\ config \in Configs
      BY <2>3 DEF WalkInv, Walked
    <3>4. /\ Upper(config, bar) \in Int /\ bar.low <= Upper(config, bar)
          /\ Lower(config, bar) \in Int /\ Lower(config, bar) <= bar.high
          /\ bar.low \in Int /\ bar.high \in Int
      BY <3>3, BoundsOf, BarsAssumption DEF WellFormed
    <3>5. b = Gap(frame, config, b.direction, b.third)
      BY GapIs DEF WalkInv, Walked
    <3>6. far = IF a.direction = "bullish" THEN x.bottom ELSE x.top
      BY <2>1 DEF FarEdge, Balanced
    <3>7. /\ x.bottom = IF a.bottom >= b.bottom THEN a.bottom ELSE b.bottom
          /\ x.top = IF a.top <= b.top THEN a.top ELSE b.top
      BY <2>2, <2>3, TwoInts DEF Overlap, IsZone
    <3>8. a.direction = Opposite(b.direction)
      BY <2>1 DEF Balances
    <3>9. CASE a.direction = "bullish"
      <4>1. b.direction = "bearish"
        BY <2>3, <3>8, <3>9 DEF Opposite, IsZone, Directions
      <4>2. b.bottom = Upper(config, bar)
        BY <3>5, <4>1 DEF Gap
      <4>3. far >= bar.low /\ far \in Int
        BY <2>3, <3>4, <3>6, <3>7, <3>9, <4>2 DEF IsZone
      <4> HIDE DEF far, d, bar
      <4>4. ~Deeper(a, far, d)
        BY <3>2, <3>4, <3>9, <4>3 DEF Deeper, Beyond, Opposite, Reach, Extreme
      <4> QED
        BY <2>2, <4>4 DEF far, d
    <3>10. CASE a.direction = "bearish"
      <4>1. b.direction = "bullish"
        BY <2>3, <3>8, <3>10 DEF Opposite, IsZone, Directions
      <4>2. b.top = Lower(config, bar)
        BY <3>5, <4>1 DEF Gap
      <4>3. far <= bar.high /\ far \in Int
        BY <2>3, <3>4, <3>6, <3>7, <3>10, <4>2 DEF IsZone
      <4> HIDE DEF far, d, bar
      <4>4. ~Deeper(a, far, d)
        BY <3>2, <3>4, <3>10, <4>3 DEF Deeper, Beyond, Opposite, Reach, Extreme
      <4> QED
        BY <2>2, <4>4 DEF far, d
    <3> QED
      BY <2>3, <3>9, <3>10 DEF IsZone, Directions
  <2> QED
    BY <2>6, <2>7
<1> QED
  BY <1>1, WalkHolds, PTL
----------------------------------------------------------------------------
(***************************************************************************)
(* What a detector finds in the first m bars G of a frame F, opening at the *)
(* times U and T.                                                          *)
(***************************************************************************)

TruncatedTo(F, T, n, G, U, m) ==
  /\ n \in Nat /\ F \in [1 .. n -> Bars] /\ T \in [1 .. n -> Nat] /\ Increasing(T)
  /\ m \in 0 .. n /\ G \in [1 .. m -> Bars] /\ U \in [1 .. m -> Nat]
  /\ \A k \in 1 .. m : G[k] = F[k] /\ U[k] = T[k]

LEMMA PrefixFacts ==
  ASSUME NEW F, NEW T, NEW n, NEW G, NEW U, NEW m, TruncatedTo(F, T, n, G, U, m)
  PROVE  /\ DOMAIN F = 1 .. n /\ DOMAIN T = 1 .. n /\ DOMAIN G = 1 .. m /\ DOMAIN U = 1 .. m
         /\ n \in Nat /\ m \in Nat /\ m <= n
         /\ \A k : k \in 1 .. m <=> k \in 1 .. n /\ k <= m
         /\ \A k \in 1 .. m : G[k] = F[k] /\ U[k] = T[k] /\ CloseTime(U, k) = CloseTime(T, k)
         /\ Increasing(U)
<1>1. /\ DOMAIN F = 1 .. n /\ DOMAIN T = 1 .. n /\ DOMAIN G = 1 .. m /\ DOMAIN U = 1 .. m
      /\ n \in Nat /\ m \in Nat /\ m <= n
      /\ \A k : k \in 1 .. m <=> k \in 1 .. n /\ k <= m
  BY DEF TruncatedTo
<1>2. \A k \in 1 .. m : G[k] = F[k] /\ U[k] = T[k] /\ CloseTime(U, k) = CloseTime(T, k)
  BY DEF TruncatedTo, CloseTime
<1>3. Increasing(U)
  BY <1>1, <1>2 DEF TruncatedTo, Increasing
<1> QED
  BY <1>1, <1>2, <1>3

\* The average range of the bars before a bar is the same in both.
LEMMA DisplacedAlike ==
  ASSUME NEW F, NEW T, NEW n, NEW G, NEW U, NEW m, TruncatedTo(F, T, n, G, U, m),
         NEW c, c.lookback \in Nat \ {0}, NEW i \in 1 .. m
  PROVE  Displaced(F, c, i) <=> Displaced(G, c, i)
<1>1. ASSUME i > c.lookback
      PROVE  [k \in (i - c.lookback) .. (i - 1) |-> BarRange(F[k])]
               = [k \in (i - c.lookback) .. (i - 1) |-> BarRange(G[k])]
  <2>1. m \in Nat
    BY DEF TruncatedTo
  <2>2. \A k \in (i - c.lookback) .. (i - 1) : k \in 1 .. m
    BY <1>1, <2>1
  <2> QED
    BY <2>2 DEF TruncatedTo
<1>2. F[i] = G[i]
  BY DEF TruncatedTo
<1> QED
  BY <1>1, <1>2 DEF Displaced

LEMMA GapsAre ==
  ASSUME NEW F, NEW T, NEW c, NEW z
  PROVE  z \in GapsOf(F, T, c)
           <=> \E d \in Directions, third \in DOMAIN F :
                 IsGap(F, T, c, d, third) /\ z = Gap(F, c, d, third)
<1> DEFINE S == {x \in Directions \X (DOMAIN F) : IsGap(F, T, c, x[1], x[2])}
<1>1. GapsOf(F, T, c) = {Gap(F, c, x[1], x[2]) : x \in S}
  BY DEF GapsOf
<1>2. ASSUME NEW x \in S, z = Gap(F, c, x[1], x[2])
      PROVE  \E d \in Directions, third \in DOMAIN F :
               IsGap(F, T, c, d, third) /\ z = Gap(F, c, d, third)
  <2>1. x[1] \in Directions /\ x[2] \in DOMAIN F
    OBVIOUS
  <2> QED
    BY <1>2, <2>1
<1>3. ASSUME NEW d \in Directions, NEW third \in DOMAIN F,
             IsGap(F, T, c, d, third), z = Gap(F, c, d, third)
      PROVE  \E x \in S : z = Gap(F, c, x[1], x[2])
  <2>1. <<d, third>> \in S
    BY <1>3
  <2> QED
    BY <1>3, <2>1
<1> HIDE DEF S
<1> QED
  BY <1>1, <1>2, <1>3

LEMMA GapsAlike ==
  ASSUME NEW F, NEW T, NEW n, NEW G, NEW U, NEW m, TruncatedTo(F, T, n, G, U, m),
         NEW c, c.lookback \in Nat \ {0}
  PROVE  {z \in GapsOf(F, T, c) : z.third <= m} = GapsOf(G, U, c)
<1>1. /\ DOMAIN F = 1 .. n /\ DOMAIN G = 1 .. m /\ n \in Nat /\ m \in Nat
      /\ \A k : k \in 1 .. m <=> k \in 1 .. n /\ k <= m
      /\ \A k \in 1 .. m : G[k] = F[k] /\ U[k] = T[k] /\ CloseTime(U, k) = CloseTime(T, k)
  BY PrefixFacts
<1>2. ASSUME NEW d \in Directions, NEW third \in 1 .. m, third > 2
      PROVE  Gap(F, c, d, third) = Gap(G, c, d, third)
  <2>1. third - 2 \in 1 .. m
    BY <1>1, <1>2
  <2> QED
    BY <1>1, <2>1 DEF Gap
<1>3. ASSUME NEW d \in Directions, NEW third \in 1 .. m
      PROVE  IsGap(F, T, c, d, third) <=> IsGap(G, U, c, d, third)
  <2>1. CASE ~(third > 2)
    BY <2>1 DEF IsGap
  <2>2. CASE third > 2
    <3>1. third - 2 \in 1 .. m /\ third - 1 \in 1 .. m
      BY <1>1, <2>2
    <3>2. Contiguous(T, third) <=> Contiguous(U, third)
      <4>1. \A i \in {third - 2, third - 1} : i \in 1 .. m /\ i + 1 \in 1 .. m
        BY <1>1, <3>1
      <4> QED
        BY <1>1, <4>1 DEF Contiguous
    <3>3. Displaced(F, c, third - 1) <=> Displaced(G, c, third - 1)
      BY <3>1, DisplacedAlike
    <3> QED
      BY <1>2, <2>2, <3>2, <3>3 DEF IsGap
  <2> QED
    BY <2>1, <2>2
<1>4. \A z : z \in GapsOf(F, T, c)
        <=> \E d \in Directions, third \in 1 .. n :
              IsGap(F, T, c, d, third) /\ z = Gap(F, c, d, third)
  BY <1>1, GapsAre
<1>5. \A z : z \in GapsOf(G, U, c)
        <=> \E d \in Directions, third \in 1 .. m :
              IsGap(G, U, c, d, third) /\ z = Gap(G, c, d, third)
  BY <1>1, GapsAre
<1>6. \A d, third : Gap(F, c, d, third).third = third
  BY DEF Gap
<1>7. \A d, third : IsGap(F, T, c, d, third) => third > 2
  BY DEF IsGap
<1>8. \A z : z \in GapsOf(F, T, c) /\ z.third <= m <=> z \in GapsOf(G, U, c)
  BY <1>1, <1>2, <1>3, <1>4, <1>5, <1>6, <1>7
<1> QED
  BY <1>8, PrefixFacts

LEMMA FillsAlike ==
  ASSUME NEW F, NEW T, NEW n, NEW G, NEW U, NEW m, TruncatedTo(F, T, n, G, U, m),
         NEW c, NEW z, NEW instant
  PROVE  UpTo(TrackZoneFill(F, T, c, z, instant), m) = TrackZoneFill(G, U, c, z, instant)
<1> DEFINE from(H) == BarsFrom(H, instant)
           depth(H, k) == Depth(z, Reach(z, H[k]))
           deep(H, W) == {k \in W : depth(H, k) > 0 /\ \A i \in W : i < k => depth(H, i) < depth(H, k)}
           full(H, W) == {k \in deep(H, W) : Fills(z, Reach(z, H[k]), c.full)}
           emitted(H, W) == {k \in deep(H, W) :
                               /\ Enters(z, Reach(z, H[k]), c.partial) \/ k \in full(H, W)
                               /\ \A i \in full(H, W) : k <= i}
           record(H, W, k) == [zone |-> z, bar |-> k, price |-> Reach(z, H[k]),
                               after |-> IF k \in full(H, W) THEN "mitigated" ELSE "partially_filled"]
           W == from(T)
           V == from(U)
<1>1. /\ TrackZoneFill(F, T, c, z, instant) = {record(F, W, k) : k \in emitted(F, W)}
      /\ TrackZoneFill(G, U, c, z, instant) = {record(G, V, k) : k \in emitted(G, V)}
  BY DEF TrackZoneFill
<1>2. \A k : k \in V <=> k \in W /\ k <= m
  BY PrefixFacts DEF BarsFrom
<1>3. \A k \in V : G[k] = F[k]
  BY PrefixFacts DEF BarsFrom
<1>4. (\A k \in W : k \in Nat) /\ (\A k \in V : k \in Nat) /\ m \in Nat
  BY PrefixFacts DEF BarsFrom
<1> HIDE DEF from, W, V
<1>5. \A k : k \in deep(G, V) <=> k \in deep(F, W) /\ k <= m
  <2>1. ASSUME NEW k \in V
        PROVE  (\A i \in V : i < k => depth(G, i) < depth(G, k))
                 <=> (\A i \in W : i < k => depth(F, i) < depth(F, k))
    <3>1. \A i : i \in V /\ i < k <=> i \in W /\ i < k
      BY <1>2, <1>4
    <3>2. \A i \in V : depth(G, i) = depth(F, i)
      BY <1>3
    <3> HIDE DEF depth
    <3> QED
      BY <3>1, <3>2
  <2>2. \A k \in V : depth(G, k) = depth(F, k)
    BY <1>3
  <2> HIDE DEF depth
  <2> QED
    BY <1>2, <2>1, <2>2
<1>6. \A k : k \in full(G, V) <=> k \in full(F, W) /\ k <= m
  <2>1. \A k \in deep(G, V) : k \in V
    OBVIOUS
  <2> HIDE DEF deep
  <2> QED
    BY <1>3, <1>5, <2>1
<1>7. \A k : k \in emitted(G, V) <=> k \in emitted(F, W) /\ k <= m
  <2>1. \A k \in deep(G, V) : k \in V
    OBVIOUS
  <2>2. \A i \in full(F, W) : i \in Nat
    BY <1>4
  <2>3. \A k \in V : (\A i \in full(G, V) : k <= i) <=> (\A i \in full(F, W) : k <= i)
    <3> HIDE DEF full
    <3> QED
      BY <1>2, <1>4, <1>6, <2>2
  <2> HIDE DEF deep, full
  <2> QED
    BY <1>3, <1>5, <1>6, <2>1, <2>3
<1>8. \A k \in emitted(G, V) : record(G, V, k) = record(F, W, k)
  <2> TAKE k \in emitted(G, V)
  <2>1. k \in V /\ k <= m
    BY <1>2
  <2>2. k \in full(G, V) <=> k \in full(F, W)
    BY <1>6, <2>1
  <2> HIDE DEF full, emitted
  <2> QED
    BY <1>3, <2>1, <2>2
<1>9. \A k : record(F, W, k).bar = k
  OBVIOUS
<1> HIDE DEF record, emitted
<1>10. \A u : u \in UpTo(TrackZoneFill(F, T, c, z, instant), m)
               <=> u \in TrackZoneFill(G, U, c, z, instant)
  BY <1>1, <1>7, <1>8, <1>9 DEF UpTo
<1> QED
  BY <1>10 DEF UpTo

\* A fill comes after the bar whose close starts the search.
LEMMA FillsAfter ==
  ASSUME NEW n \in Nat, NEW T \in [1 .. n -> Nat], Increasing(T), NEW t \in 1 .. n,
         NEW F, NEW c, NEW z, NEW u \in TrackZoneFill(F, T, c, z, CloseTime(T, t))
  PROVE  u.bar \in t + 1 .. n
<1>1. u.bar \in BarsFrom(T, CloseTime(T, t))
  BY DEF TrackZoneFill
<1> QED
  BY <1>1, FromIs

\* The bars that trigger an inversion.
LEMMA HitsAlike ==
  ASSUME NEW F, NEW T, NEW n, NEW G, NEW U, NEW m, TruncatedTo(F, T, n, G, U, m),
         NEW c, NEW z, z.third \in 1 .. m
  PROVE  /\ Hits(F, T, c, z) \subseteq z.third + 1 .. n
         /\ \A k : k \in Hits(G, U, c, z) <=> k \in Hits(F, T, c, z) /\ k <= m
<1> DEFINE t == z.third
           at == CloseTime(T, z.third)
<1>1. /\ CloseTime(U, t) = at /\ BarsFrom(T, at) \subseteq t + 1 .. n
      /\ \A k : k \in BarsFrom(U, at) <=> k \in BarsFrom(T, at) /\ k <= m
      /\ \A k \in BarsFrom(U, at) : G[k] = F[k]
      /\ BarsFrom(T, at) \subseteq Nat /\ m \in Nat
  <2>1. t \in 1 .. n
    BY PrefixFacts
  <2>2. BarsFrom(T, at) = t + 1 .. n
    BY <2>1, FromIs DEF TruncatedTo
  <2>3. t + 1 .. n \subseteq Nat
    BY <2>1
  <2>4. \A k : k \in BarsFrom(U, at) <=> k \in BarsFrom(T, at) /\ k <= m
    BY PrefixFacts DEF BarsFrom
  <2>5. \A k \in BarsFrom(U, at) : G[k] = F[k]
    BY PrefixFacts DEF BarsFrom
  <2> QED
    BY <2>2, <2>3, <2>4, <2>5, PrefixFacts
<1> HIDE DEF at
<1>2. \A k \in BarsFrom(U, at) : {i \in BarsFrom(U, at) : i <= k} = {i \in BarsFrom(T, at) : i <= k}
  BY <1>1
<1>3. \A k : k \in Window(U, c, z) <=> k \in Window(T, c, z) /\ k <= m
  BY <1>1, <1>2 DEF Window, at
<1>4. \A k \in Window(U, c, z) : G[k] = F[k]
  BY <1>1 DEF Window, at
<1>5. Window(T, c, z) \subseteq t + 1 .. n
  BY <1>1 DEF Window, at
<1> QED
  BY <1>3, <1>4, <1>5 DEF Hits

LEMMA InversionsAlike ==
  ASSUME NEW F, NEW T, NEW n, NEW G, NEW U, NEW m, TruncatedTo(F, T, n, G, U, m),
         NEW c \in Configs, c.lookback \in Nat \ {0}
  PROVE  UpTo(InversionsOf(F, T, c), m) = InversionsOf(G, U, c)
<1>1. n \in Nat /\ m \in Nat /\ m <= n
  BY PrefixFacts
<1>2. \A z : z \in GapsOf(G, U, c) <=> z \in GapsOf(F, T, c) /\ z.third <= m
  BY GapsAlike
<1>3. \A z \in GapsOf(F, T, c) : z.third \in 3 .. n
  BY <1>1, GapIs DEF TruncatedTo
<1>4. ASSUME NEW z \in GapsOf(F, T, c), Hits(F, T, c, z) # {}, z.third <= m
      PROVE  /\ Min(Hits(F, T, c, z)) \in z.third + 1 .. n
             /\ Min(Hits(F, T, c, z)) <= m <=> Hits(G, U, c, z) # {}
             /\ Min(Hits(F, T, c, z)) <= m => Inversion(G, U, c, z) = Inversion(F, T, c, z)
  <2> DEFINE H == Hits(F, T, c, z)
             K == Hits(G, U, c, z)
  <2>1. H \subseteq z.third + 1 .. n /\ \A k : k \in K <=> k \in H /\ k <= m
    <3>1. z.third \in 1 .. m
      BY <1>1, <1>3, <1>4
    <3> QED
      BY <3>1, HitsAlike
  <2>2. H \in SUBSET Nat /\ H # {} /\ \A y \in H : y <= n /\ y \in Nat
    <3>1. z.third \in Nat
      BY <1>1, <1>3
    <3> QED
      BY <1>1, <1>4, <2>1, <3>1
  <2> HIDE DEF H, K
  <2>3. Min(H) \in H /\ \A y \in H : Min(H) <= y
    BY <1>1, <2>2, MinMax
  <2>4. K \subseteq H
    BY <2>1
  <2>5. Min(H) <= m => Min(H) \in K /\ \A y \in K : Min(H) <= y
    BY <2>1, <2>3
  <2>6. Min(H) <= m => Min(K) = Min(H)
    <3>1. K \in SUBSET Int
      BY <2>2, <2>4
    <3> QED
      BY <2>5, <3>1, LeastIs
  <2>7. K # {} => Min(H) <= m
    <3> SUFFICES ASSUME NEW k \in K PROVE Min(H) <= m
      OBVIOUS
    <3>1. k \in H /\ k <= m /\ Min(H) <= k
      BY <2>1, <2>3
    <3>2. k \in Nat /\ Min(H) \in Nat /\ m \in Nat
      BY <1>1, <2>2, <2>3, <3>1
    <3> QED
      BY <3>1, <3>2
  <2>8. Min(H) \in z.third + 1 .. n
    BY <2>1, <2>3
  <2> QED
    BY <2>5, <2>6, <2>7, <2>8 DEF H, K, Inversion
<1>5. ASSUME NEW z \in GapsOf(F, T, c), Hits(F, T, c, z) # {}, Min(Hits(F, T, c, z)) <= m
      PROVE  z.third <= m
  <2>1. TruncatedTo(F, T, n, F, T, n)
    BY <1>1 DEF TruncatedTo
  <2>2. z.third \in 1 .. n /\ z.third \in Nat
    BY <1>1, <1>3
  <2>3. Hits(F, T, c, z) \subseteq z.third + 1 .. n
    BY <2>1, <2>2, HitsAlike
  <2>4. Hits(F, T, c, z) \in SUBSET Nat /\ \A y \in Hits(F, T, c, z) : y <= n
    BY <1>1, <2>2, <2>3
  <2>5. Min(Hits(F, T, c, z)) \in Hits(F, T, c, z)
    BY <1>1, <1>5, <2>4, MinMax
  <2> QED
    BY <1>1, <1>5, <2>2, <2>3, <2>5
<1>6. \A z \in GapsOf(G, U, c) : Hits(G, U, c, z) # {} => Hits(F, T, c, z) # {}
  <2> TAKE z \in GapsOf(G, U, c)
  <2>1. z.third \in 1 .. m
    BY <1>1, <1>2, <1>3
  <2> QED
    BY <2>1, HitsAlike
<1>7. \A z : Inversion(F, T, c, z).bar = Min(Hits(F, T, c, z))
  BY DEF Inversion
<1>8. \A v : v \in InversionsOf(F, T, c)
        <=> \E z \in GapsOf(F, T, c) : Hits(F, T, c, z) # {} /\ v = Inversion(F, T, c, z)
  BY DEF InversionsOf
<1>9. \A v : v \in InversionsOf(G, U, c)
        <=> \E z \in GapsOf(G, U, c) : Hits(G, U, c, z) # {} /\ v = Inversion(G, U, c, z)
  BY DEF InversionsOf
<1>10. ASSUME NEW v PROVE v \in InversionsOf(F, T, c) /\ v.bar <= m => v \in InversionsOf(G, U, c)
  BY <1>2, <1>4, <1>5, <1>7, <1>8, <1>9
<1>11. ASSUME NEW v PROVE v \in InversionsOf(G, U, c) => v \in InversionsOf(F, T, c) /\ v.bar <= m
  BY <1>2, <1>4, <1>6, <1>7, <1>8, <1>9
<1> QED
  BY <1>10, <1>11 DEF UpTo

\* An inversion comes after its gap.
LEMMA InversionAfter ==
  ASSUME NEW n \in Nat, NEW F \in [1 .. n -> Bars], NEW T \in [1 .. n -> Nat], Increasing(T),
         NEW c \in Configs, NEW v \in InversionsOf(F, T, c)
  PROVE  v.bar \in 1 .. n
<1>1. TruncatedTo(F, T, n, F, T, n)
  BY DEF TruncatedTo
<1>2. PICK z \in GapsOf(F, T, c) : Hits(F, T, c, z) # {} /\ v = Inversion(F, T, c, z)
  BY DEF InversionsOf
<1>3. z.third \in 3 .. n
  BY GapIs
<1>4. z.third \in 1 .. n
  BY <1>3
<1>5. Hits(F, T, c, z) \subseteq z.third + 1 .. n
  BY <1>1, <1>4, HitsAlike
<1>6. Hits(F, T, c, z) \in SUBSET Nat /\ \A y \in Hits(F, T, c, z) : y <= n
  BY <1>4, <1>5
<1>7. v.bar \in Hits(F, T, c, z)
  BY <1>2, <1>6, MinMax DEF Inversion
<1> QED
  BY <1>4, <1>5, <1>7
LEMMA InvertedFillsAlike ==
  ASSUME NEW F, NEW T, NEW n, NEW G, NEW U, NEW m, TruncatedTo(F, T, n, G, U, m),
         NEW c \in Configs, c.lookback \in Nat \ {0}
  PROVE  UpTo(InvertedFills(F, T, c), m) = InvertedFills(G, U, c)
<1> DEFINE I == InversionsOf(F, T, c)
           J == InversionsOf(G, U, c)
           f(v) == TrackZoneFill(F, T, c, v.zone, CloseTime(T, v.bar))
           g(v) == TrackZoneFill(G, U, c, v.zone, CloseTime(U, v.bar))
<1>1. \A v : v \in J <=> v \in I /\ v.bar <= m
  BY InversionsAlike DEF UpTo
<1>2. \A v \in I : v.bar \in 1 .. n
  BY InversionAfter DEF TruncatedTo
<1>3. \A v \in J : g(v) = UpTo(f(v), m)
  <2> TAKE v \in J
  <2>1. v.bar \in 1 .. m
    BY <1>1, <1>2, PrefixFacts
  <2>2. CloseTime(U, v.bar) = CloseTime(T, v.bar)
    BY <2>1, PrefixFacts
  <2> QED
    BY <2>2, FillsAlike
<1>4. \A v \in I : \A u \in f(v) : u.bar <= m => v.bar <= m
  <2> TAKE v \in I
  <2> TAKE u \in f(v)
  <2>1. v.bar \in 1 .. n /\ n \in Nat /\ m \in Nat
    BY <1>2, PrefixFacts
  <2>2. u.bar \in v.bar + 1 .. n
    BY <2>1, FillsAfter DEF TruncatedTo
  <2> QED
    BY <2>1, <2>2
<1>5. /\ InvertedFills(F, T, c) = UNION {f(v) : v \in I}
      /\ InvertedFills(G, U, c) = UNION {g(v) : v \in J}
  BY DEF InvertedFills
<1> HIDE DEF I, J, f, g
<1>6. \A u : u \in InvertedFills(G, U, c) <=> \E v \in J : u \in f(v) /\ u.bar <= m
  BY <1>3, <1>5 DEF UpTo
<1>7. \A u : u \in InvertedFills(F, T, c) <=> \E v \in I : u \in f(v)
  BY <1>5
<1>8. \A u : u \in InvertedFills(F, T, c) /\ u.bar <= m <=> u \in InvertedFills(G, U, c)
  BY <1>1, <1>4, <1>6, <1>7
<1> QED
  BY <1>8 DEF UpTo

LEMMA BalancedAre ==
  ASSUME NEW T, NEW p, NEW Z, NEW x
  PROVE  x \in BalancedOf(T, p, Z)
           <=> \E a, b \in Z : Balances(T, p, a, b) /\ x = Balanced(p, a, b)
<1> DEFINE S == {y \in Z \X Z : Balances(T, p, y[1], y[2])}
<1>1. BalancedOf(T, p, Z) = {Balanced(p, y[1], y[2]) : y \in S}
  BY DEF BalancedOf
<1>2. ASSUME NEW y \in S, x = Balanced(p, y[1], y[2])
      PROVE  \E a, b \in Z : Balances(T, p, a, b) /\ x = Balanced(p, a, b)
  <2>1. y[1] \in Z /\ y[2] \in Z
    OBVIOUS
  <2> QED
    BY <1>2, <2>1
<1>3. ASSUME NEW a \in Z, NEW b \in Z, Balances(T, p, a, b), x = Balanced(p, a, b)
      PROVE  \E y \in S : x = Balanced(p, y[1], y[2])
  <2>1. <<a, b>> \in S
    BY <1>3
  <2> QED
    BY <1>3, <2>1
<1> HIDE DEF S
<1> QED
  BY <1>1, <1>2, <1>3

LEMMA BalancedAlike ==
  ASSUME NEW F, NEW T, NEW n, NEW G, NEW U, NEW m, TruncatedTo(F, T, n, G, U, m),
         NEW p, NEW Z, \A z \in Z : z.third \in 3 .. n
  PROVE  /\ UpTo(BalancedOf(T, p, Z), m) = BalancedOf(U, p, {z \in Z : z.third <= m})
         /\ \A x \in BalancedOf(U, p, {z \in Z : z.third <= m}) : x.bar \in 1 .. m
<1> DEFINE Y == {z \in Z : z.third <= m}
<1>1. n \in Nat /\ m \in Nat /\ m <= n
  BY PrefixFacts
<1>2. \A a, b \in Y : Balances(T, p, a, b) <=> Balances(U, p, a, b)
  <2> TAKE a, b \in Y
  <2>1. a.third \in 1 .. m /\ b.third \in 1 .. m
    BY <1>1
  <2>2. /\ Max({a.third, b.third}) \in {a.third, b.third}
        /\ Min({a.third, b.third}) \in {a.third, b.third}
    <3> DEFINE i == a.third
               k == b.third
    <3>1. i \in Int /\ k \in Int
      BY <1>1, <2>1
    <3> HIDE DEF i, k
    <3>2. /\ Max({i, k}) = (IF i >= k THEN i ELSE k)
          /\ Min({i, k}) = (IF i <= k THEN i ELSE k)
      BY <3>1, TwoInts
    <3> QED
      BY <3>2 DEF i, k
  <2>3. BarsBetween(T, a.third, b.third) = BarsBetween(U, a.third, b.third)
    BY <2>1, <2>2, PrefixFacts DEF BarsBetween
  <2> QED
    BY <2>3 DEF Balances
<1>3. \A a, b : Balanced(p, a, b).bar = b.third
  BY DEF Balanced
<1>4. \A a, b \in Z : Balances(T, p, a, b) /\ b.third <= m => a.third <= m
  BY <1>1 DEF Balances
<1>5. \A x : x \in BalancedOf(T, p, Z) /\ x.bar <= m <=> x \in BalancedOf(U, p, Y)
  BY <1>2, <1>3, <1>4, BalancedAre
<1>6. \A x \in BalancedOf(U, p, Y) : x.bar \in 1 .. m
  <2>1. \A b \in Y : b.third \in 1 .. m
    BY <1>1
  <2> QED
    BY <1>3, <2>1, BalancedAre
<1> QED
  BY <1>5, <1>6 DEF UpTo

LEMMA RedeliveredAre ==
  ASSUME NEW F, NEW T, NEW q, NEW x
  PROVE  x \in RedeliveredOf(F, T, q)
           <=> \E d \in Directions, i \in DOMAIN F :
                 Redelivers(F, T, q, d, i) /\ x = Redelivered(F, d, i)
<1> DEFINE S == {y \in Directions \X (DOMAIN F) : Redelivers(F, T, q, y[1], y[2])}
<1>1. RedeliveredOf(F, T, q) = {Redelivered(F, y[1], y[2]) : y \in S}
  BY DEF RedeliveredOf
<1>2. ASSUME NEW y \in S, x = Redelivered(F, y[1], y[2])
      PROVE  \E d \in Directions, i \in DOMAIN F :
               Redelivers(F, T, q, d, i) /\ x = Redelivered(F, d, i)
  <2>1. y[1] \in Directions /\ y[2] \in DOMAIN F
    OBVIOUS
  <2> QED
    BY <1>2, <2>1
<1>3. ASSUME NEW d \in Directions, NEW i \in DOMAIN F,
             Redelivers(F, T, q, d, i), x = Redelivered(F, d, i)
      PROVE  \E y \in S : x = Redelivered(F, y[1], y[2])
  <2>1. <<d, i>> \in S
    BY <1>3
  <2> QED
    BY <1>3, <2>1
<1> HIDE DEF S
<1> QED
  BY <1>1, <1>2, <1>3

LEMMA RedeliveredAlike ==
  ASSUME NEW F, NEW T, NEW n, NEW G, NEW U, NEW m, TruncatedTo(F, T, n, G, U, m),
         NEW q, q.directional \subseteq 1 .. 4
  PROVE  /\ UpTo(RedeliveredOf(F, T, q), m) = RedeliveredOf(G, U, q)
         /\ \A x \in RedeliveredOf(G, U, q) : x.bar \in 1 .. m
<1>1. /\ DOMAIN F = 1 .. n /\ DOMAIN G = 1 .. m /\ n \in Nat /\ m \in Nat
      /\ \A k : k \in 1 .. m <=> k \in 1 .. n /\ k <= m
      /\ \A k \in 1 .. m : G[k] = F[k] /\ U[k] = T[k] /\ CloseTime(U, k) = CloseTime(T, k)
  BY PrefixFacts
<1>2. ASSUME NEW d \in Directions, NEW i \in 1 .. m
      PROVE  /\ Redelivers(F, T, q, d, i) <=> Redelivers(G, U, q, d, i)
             /\ Redelivers(F, T, q, d, i) => Redelivered(F, d, i) = Redelivered(G, d, i)
  <2>1. CASE i - 3 \in 1 .. m
    <3>1. \A k \in (i - 3) .. i : k \in 1 .. m
      BY <1>1, <2>1
    <3>2. Wick(F, d, i) = Wick(G, d, i) /\ Wick(F, d, i - 2) = Wick(G, d, i - 2)
      <4>1. i \in (i - 3) .. i /\ i - 2 \in (i - 3) .. i
        BY <1>1
      <4> QED
        BY <1>1, <3>1, <4>1 DEF Wick
    <3>3. \A k \in (i - 3) .. (i - 1) : CloseTime(T, k) = CloseTime(U, k) /\ T[k + 1] = U[k + 1]
      <4>1. \A k \in (i - 3) .. (i - 1) : k \in (i - 3) .. i /\ k + 1 \in (i - 3) .. i
        BY <1>1
      <4> QED
        BY <1>1, <3>1, <4>1
    <3>4. \A k \in q.directional : F[i - 4 + k] = G[i - 4 + k]
      <4>1. \A k \in 1 .. 4 : i - 4 + k \in (i - 3) .. i
        BY <1>1
      <4> QED
        BY <1>1, <3>1, <4>1
    <3>5. i - 3 \in DOMAIN F /\ i - 3 \in DOMAIN G
      BY <1>1, <2>1
    <3> QED
      BY <3>2, <3>3, <3>4, <3>5 DEF Redelivers, Redelivered
  <2>2. CASE i - 3 \notin 1 .. m
    <3>1. i - 3 \notin DOMAIN F /\ i - 3 \notin DOMAIN G
      BY <1>1, <2>2
    <3> QED
      BY <3>1 DEF Redelivers
  <2> QED
    BY <2>1, <2>2
<1>3. \A H, d, i : Redelivered(H, d, i).bar = i
  BY DEF Redelivered
<1>4. \A x : x \in RedeliveredOf(F, T, q) /\ x.bar <= m <=> x \in RedeliveredOf(G, U, q)
  BY <1>1, <1>2, <1>3, RedeliveredAre
<1>5. \A x \in RedeliveredOf(G, U, q) : x.bar \in 1 .. m
  BY <1>1, <1>3, RedeliveredAre
<1> QED
  BY <1>4, <1>5 DEF UpTo

\* All of these detectors search the complete frame, yet what they date up to a
\* bar is what they find in the bars up to it ("batch equals streaming replay").
THEOREM ZonesKnowableHolds == Spec => []ZonesKnowable
<1>1. WalkInv => ZonesKnowable
  <2> SUFFICES ASSUME WalkInv PROVE ZonesKnowable
    OBVIOUS
  <2> DEFINE F == SubSeq(frame, 1, index)
             T == SubSeq(opens, 1, index)
             G == GapsOf(F, T, config)
             n == Len(frame)
  <2>1. /\ n \in Nat /\ index \in 0 .. n /\ frame \in [1 .. n -> Bars]
        /\ opens \in [1 .. n -> Nat] /\ Increasing(opens)
        /\ config \in Configs /\ zones = GapsOf(frame, opens, config)
    BY DEF WalkInv, Walked
  <2>2. /\ F \in Seq(Bars) /\ Len(F) = index /\ \A k \in 1 .. index : F[k] = frame[k]
        /\ T \in Seq(Nat) /\ Len(T) = index /\ \A k \in 1 .. index : T[k] = opens[k]
    <3>1. frame \in Seq(Bars) /\ opens \in Seq(Nat) /\ Len(opens) = n
      BY <2>1
    <3>2. F \in Seq(Bars) /\ Len(F) = index /\ \A k \in 1 .. index : F[k] = frame[k]
      BY <2>1, <3>1
    <3>3. T \in Seq(Nat) /\ Len(T) = index /\ \A k \in 1 .. index : T[k] = opens[k]
      BY <2>1, <3>1
    <3> QED
      BY <3>2, <3>3
  <2>3. TruncatedTo(frame, opens, n, F, T, index)
    <3> HIDE DEF n, F, T
    <3>1. F \in [1 .. index -> Bars] /\ T \in [1 .. index -> Nat]
      BY <2>2
    <3> QED
      BY <2>1, <2>2, <3>1 DEF TruncatedTo
  <2>4. config.lookback \in Nat \ {0}
    BY <2>1, GapAssumption DEF ConfigType
  <2>5. \A z \in zones : z.third \in 3 .. n
    BY ZonesAre DEF WalkInv
  <2>6. {z \in zones : z.third <= index} = G
    BY <2>1, <2>3, <2>4, GapsAlike
  <2>7. \A k \in 1 .. index : CloseTime(T, k) = CloseTime(opens, k)
    BY <2>3, PrefixFacts
  <2> HIDE DEF F, T, G, n
  <2>8. UpTo(InversionsOf(frame, opens, config), index) = InversionsOf(F, T, config)
    BY <2>1, <2>3, <2>4, InversionsAlike
  <2>9. UpTo(InvertedFills(frame, opens, config), index) = InvertedFills(F, T, config)
    BY <2>1, <2>3, <2>4, InvertedFillsAlike
  <2>10. ASSUME NEW p \in BprConfigs
         PROVE  /\ UpTo(BalancedOf(opens, p, zones), index) = BalancedOf(T, p, G)
                /\ \A x \in BalancedOf(T, p, G) :
                     UpTo(BalancedFills(frame, opens, p, x), index) = BalancedFills(F, T, p, x)
    <3> DEFINE Y == {z \in zones : z.third <= index}
    <3>1. /\ UpTo(BalancedOf(opens, p, zones), index) = BalancedOf(T, p, Y)
          /\ \A x \in BalancedOf(T, p, Y) : x.bar \in 1 .. index
      BY ONLY <2>3, <2>5, BalancedAlike
    <3>2. Y = G
      BY <2>6
    <3> HIDE DEF Y
    <3> QED
      BY <2>3, <2>7, <3>1, <3>2, FillsAlike DEF BalancedFills
  <2>11. ASSUME NEW q \in RdrbConfigs
         PROVE  /\ UpTo(RedeliveredOf(frame, opens, q), index) = RedeliveredOf(F, T, q)
                /\ \A x \in RedeliveredOf(F, T, q) :
                     UpTo(RedeliveredFills(frame, opens, q, x), index) = RedeliveredFills(F, T, q, x)
    <3>1. q.directional \subseteq 1 .. 4
      BY DerivedAssumption DEF RdrbConfigType
    <3>2. /\ UpTo(RedeliveredOf(frame, opens, q), index) = RedeliveredOf(F, T, q)
          /\ \A x \in RedeliveredOf(F, T, q) : x.bar \in 1 .. index
      BY <2>3, <3>1, RedeliveredAlike
    <3> QED
      BY <2>3, <2>7, <3>2, FillsAlike DEF RedeliveredFills
  <2> QED
    BY <2>6, <2>8, <2>9, <2>10, <2>11 DEF ZonesKnowable, Observable, F, T, G
<1> QED
  BY <1>1, WalkHolds, PTL

----------------------------------------------------------------------------
(***************************************************************************)
(* Delivery: the legs, and the closes that turn them.                      *)
(***************************************************************************)

\* A leg ends at most where the frame does, and each of its bars closes its way.
LEMMA LegIs ==
  ASSUME NEW n \in Nat, NEW F \in [1 .. n -> Bars], NEW T, NEW v, NEW l \in LegsOf(F, T, v)
  PROVE  /\ l.direction \in Directions /\ l.start \in 1 .. n /\ l.end \in 1 .. n
         /\ l.start <= l.end
         /\ \A i \in l.start .. l.end : Beyond(l.direction, F[i].close, F[i].open)
         /\ l = [direction |-> l.direction, start |-> l.start, end |-> l.end]
<1>1. /\ l \in [direction : Directions, start : 1 .. n, end : 1 .. n] /\ l.start <= l.end
      /\ Beyond(l.direction, F[l.start].close, F[l.start].open)
      /\ \A i \in (l.start + 1) .. l.end : SameLeg(F, T, v, l.direction, i)
  BY DEF LegsOf
<1>2. \A i \in (l.start + 1) .. l.end : Beyond(l.direction, F[i].close, F[i].open)
  BY <1>1 DEF SameLeg
<1>3. \A i \in l.start .. l.end : i = l.start \/ i \in (l.start + 1) .. l.end
  BY <1>1
<1>4. \A i \in l.start .. l.end : Beyond(l.direction, F[i].close, F[i].open)
  BY <1>1, <1>2, <1>3
<1> QED
  BY <1>1, <1>4

LEMMA PricesOf ==
  ASSUME NEW n, NEW F \in [1 .. n -> Bars], NEW i \in 1 .. n
  PROVE  F[i].open \in Int /\ F[i].close \in Int
<1>1. F[i] \in Bars
  OBVIOUS
<1> QED
  BY <1>1, BarsAssumption DEF WellFormed

\* A leg is known by its first bar.
LEMMA LegsApart ==
  ASSUME NEW n \in Nat, NEW F \in [1 .. n -> Bars], NEW T, NEW v,
         NEW l \in LegsOf(F, T, v), NEW k \in LegsOf(F, T, v), l.start = k.start
  PROVE  l = k
<1>1. l.direction = k.direction
  <2>1. /\ Beyond(l.direction, F[l.start].close, F[l.start].open)
        /\ Beyond(k.direction, F[l.start].close, F[l.start].open)
        /\ l.direction \in Directions /\ k.direction \in Directions /\ l.start \in 1 .. n
    BY LegIs DEF LegsOf
  <2>2. F[l.start].close \in Int /\ F[l.start].open \in Int
    BY <2>1, BarsAssumption DEF WellFormed
  <2> QED
    BY <2>1, <2>2 DEF Beyond, Directions
<1>2. ASSUME NEW a \in {l, k}, NEW b \in {l, k}, a.end < b.end PROVE FALSE
  <2>1. a.end + 1 \in (b.start + 1) .. b.end
    BY <1>2, LegIs
  <2>2. SameLeg(F, T, v, b.direction, a.end + 1)
    BY <2>1 DEF LegsOf
  <2>3. ~SameLeg(F, T, v, a.direction, a.end + 1)
    BY DEF LegsOf
  <2> QED
    BY <1>1, <2>2, <2>3
<1>3. l.end \in Int /\ k.end \in Int
  BY LegIs
<1>4. l.end = k.end
  BY <1>2, <1>3
<1> QED
  BY <1>1, <1>4, LegIs

\* The level of a leg is at or against the open of its first bar.
LEMMA LevelIs ==
  ASSUME NEW n \in Nat, NEW F \in [1 .. n -> Bars], NEW T, NEW v, NEW l \in LegsOf(F, T, v)
  PROVE  /\ LegLevel(F, v, l) \in Int /\ F[l.start].open \in Int
         /\ l.direction = "bearish" => F[l.start].open <= LegLevel(F, v, l)
         /\ l.direction = "bullish" => LegLevel(F, v, l) <= F[l.start].open
<1> DEFINE I == l.start .. l.end
           O == {F[i].open : i \in I}
<1>1. /\ l.start \in I /\ I \subseteq 1 .. n /\ l.direction \in Directions
  BY LegIs
<1>2. \A i \in I : F[i].open \in Int
  <2>1. \A i \in I : i \in 1 .. n
    BY <1>1
  <2> QED
    BY <2>1, PricesOf
<1>3. F[l.start].open \in O /\ O \subseteq Int
  BY <1>1, <1>2
<1>4. CASE v.anchor = "series_open"
  BY <1>2, <1>1, <1>4 DEF LegLevel
<1>5. CASE v.anchor # "series_open" /\ l.direction = "bearish"
  <2>1. \E x \in O : \A y \in O : y <= x
    <3> DEFINE V == [i \in 1 .. n |-> F[i].open]
    <3>1. V \in [1 .. n -> Int] /\ I \in SUBSET (1 .. n) /\ I # {}
      BY <1>1, PricesOf
    <3>2. PICK x \in I : \A k \in I : V[k] <= V[x]
      BY <3>1, Peak
    <3> QED
      BY <1>1, <3>2
  <2>2. LegLevel(F, v, l) = Max(O)
    BY <1>5 DEF LegLevel
  <2> HIDE DEF O
  <2>3. Max(O) \in O /\ \A y \in O : y <= Max(O)
    BY <1>3, <2>1 DEF Max
  <2> QED
    BY <1>3, <1>5, <2>2, <2>3
<1>6. CASE v.anchor # "series_open" /\ l.direction = "bullish"
  <2>1. \E x \in O : \A y \in O : x <= y
    <3> DEFINE V == [i \in 1 .. n |-> 0 - F[i].open]
    <3>1. V \in [1 .. n -> Int] /\ I \in SUBSET (1 .. n) /\ I # {}
      BY <1>1, PricesOf
    <3>2. PICK x \in I : \A k \in I : V[k] <= V[x]
      BY <3>1, Peak
    <3>3. \A k \in I : V[k] = 0 - F[k].open
      BY <1>1
    <3> HIDE DEF V, I
    <3>4. \A k \in I : F[x].open <= F[k].open
      BY <1>2, <3>2, <3>3
    <3> QED
      BY <3>4
  <2>2. LegLevel(F, v, l) = Min(O)
    BY <1>6 DEF LegLevel
  <2> HIDE DEF O
  <2>3. Min(O) \in O /\ \A y \in O : Min(O) <= y
    BY <1>3, <2>1 DEF Min
  <2> QED
    BY <1>3, <1>6, <2>2, <2>3
<1> QED
  BY <1>1, <1>4, <1>5, <1>6 DEF Directions

\* The turn of a leg is by the first close that clears its level.
LEMMA TurnIs ==
  ASSUME NEW n \in Nat, NEW F \in [1 .. n -> Bars], NEW T, NEW v,
         NEW x \in TurnsOf(F, T, v)
  PROVE  /\ x.leg \in LegsOf(F, T, v) /\ x = [leg |-> x.leg, bar |-> x.bar]
         /\ x.leg.end - x.leg.start + 1 >= v.minLength
         /\ x.bar \in Clearings(F, v, x.leg) /\ x.bar \in 1 .. n /\ x.leg.end < x.bar
         /\ \A i \in Clearings(F, v, x.leg) : x.bar <= i
<1>1. /\ x.leg \in LegsOf(F, T, v) /\ x = [leg |-> x.leg, bar |-> x.bar]
      /\ x.leg.end - x.leg.start + 1 >= v.minLength
      /\ Clearings(F, v, x.leg) # {} /\ x.bar = Min(Clearings(F, v, x.leg))
  BY DEF TurnsOf
<1> DEFINE C == Clearings(F, v, x.leg)
<1>2. C \subseteq 1 .. n /\ \A i \in C : x.leg.end < i
  <2>1. x.leg.end \in 1 .. n
    BY <1>1, LegIs
  <2> QED
    BY <2>1 DEF Clearings
<1> HIDE DEF C
<1>3. C \in SUBSET Nat /\ C # {} /\ \A y \in C : y <= n
  BY <1>1, <1>2 DEF C
<1>4. Min(C) \in C /\ \A y \in C : Min(C) <= y
  BY <1>3, MinMax
<1> QED
  BY <1>1, <1>2, <1>4 DEF C

\* No bar turns legs of both directions: the leg that comes second starts with a
\* candle that closes beyond the level of the first.
LEMMA TurnsOneWay ==
  ASSUME NEW n \in Nat, NEW F \in [1 .. n -> Bars], NEW T, NEW v,
         v.tolerance \in Nat, v.maxBars \in Nat,
         NEW x \in TurnsOf(F, T, v), NEW y \in TurnsOf(F, T, v), x.bar = y.bar
  PROVE  x.leg.direction = y.leg.direction
<1> SUFFICES ASSUME NEW a \in {x, y}, NEW b \in {x, y}, a.leg.direction = "bearish",
                    b.leg.direction = "bullish"
             PROVE  FALSE
  BY TurnIs, LegIs DEF Directions
<1> DEFINE k == a.leg
           l == b.leg
           i == a.bar
           P == LegLevel(F, v, k)
           Q == LegLevel(F, v, l)
<1>1. /\ k \in LegsOf(F, T, v) /\ l \in LegsOf(F, T, v) /\ i = b.bar /\ i \in 1 .. n
      /\ i \in Clearings(F, v, k) /\ i \in Clearings(F, v, l)
      /\ \A j \in Clearings(F, v, k) : i <= j
      /\ \A j \in Clearings(F, v, l) : i <= j
      /\ k.end < i /\ l.end < i
  BY TurnIs
<1>2. /\ k.start \in 1 .. n /\ k.end \in 1 .. n /\ k.start <= k.end
      /\ \A j \in k.start .. k.end : Beyond("bearish", F[j].close, F[j].open)
  BY <1>1, LegIs
<1>3. /\ l.start \in 1 .. n /\ l.end \in 1 .. n /\ l.start <= l.end
      /\ \A j \in l.start .. l.end : Beyond("bullish", F[j].close, F[j].open)
  BY <1>1, LegIs
<1>4. /\ P \in Int /\ Q \in Int /\ F[k.start].open <= P /\ Q <= F[l.start].open
  BY <1>1, LevelIs
<1>5. \A j \in 1 .. n : F[j].close \in Int /\ F[j].open \in Int
  BY PricesOf
<1> DEFINE tol == v.tolerance
           max == v.maxBars
<1>6. /\ \A j : j \in Clearings(F, v, k) <=> /\ j \in 1 .. n /\ j \in k.end + 1 .. k.end + max
                                             /\ F[j].close - P > tol
      /\ \A j : j \in Clearings(F, v, l) <=> /\ j \in 1 .. n /\ j \in l.end + 1 .. l.end + max
                                             /\ Q - F[j].close > tol
  BY DEF Clearings, Opposite, Distance
<1>7. tol \in Nat /\ max \in Nat
  OBVIOUS
<1> HIDE DEF P, Q, k, l, i, tol, max
<1>8. /\ i \in 1 .. n /\ F[i].close - P > tol /\ Q - F[i].close > tol
      /\ i \in k.end + 1 .. k.end + max /\ i \in l.end + 1 .. l.end + max
  BY <1>1, <1>6
<1>9. P + tol < Q - tol
  BY <1>4, <1>5, <1>7, <1>8
<1>10. \A j \in k.start .. k.end : F[j].close < F[j].open
  BY <1>2 DEF Beyond
<1>11. \A j \in l.start .. l.end : F[j].close > F[j].open
  BY <1>3 DEF Beyond
<1>12. F[k.start].close < F[k.start].open /\ F[l.start].close > F[l.start].open
  BY <1>2, <1>3, <1>10, <1>11
<1>13. k.start \notin l.start .. l.end /\ l.start \notin k.start .. k.end
  BY <1>2, <1>3, <1>5, <1>10, <1>11, <1>12
<1>14. ~(k.end < l.start)
  <2> SUFFICES ASSUME k.end < l.start PROVE FALSE
    OBVIOUS
  <2>1. l.start \in k.end + 1 .. k.end + max /\ l.start < i
    BY <1>1, <1>2, <1>3, <1>7, <1>8
  <2>2. F[l.start].close - P > tol
    BY <1>3, <1>4, <1>5, <1>7, <1>9, <1>12
  <2>3. l.start \in Clearings(F, v, k)
    BY <1>3, <1>6, <2>1, <2>2
  <2> QED
    BY <1>1, <1>3, <2>1, <2>3
<1>15. ~(l.end < k.start)
  <2> SUFFICES ASSUME l.end < k.start PROVE FALSE
    OBVIOUS
  <2>1. k.start \in l.end + 1 .. l.end + max /\ k.start < i
    BY <1>1, <1>2, <1>3, <1>7, <1>8
  <2>2. Q - F[k.start].close > tol
    BY <1>2, <1>4, <1>5, <1>7, <1>9, <1>12
  <2>3. k.start \in Clearings(F, v, l)
    BY <1>2, <1>6, <2>1, <2>2
  <2> QED
    BY <1>1, <1>2, <2>1, <2>3
<1> QED
  BY <1>2, <1>3, <1>13, <1>14, <1>15

----------------------------------------------------------------------------
(***************************************************************************)
(* The state machine over a set of turns no bar of which goes both ways.   *)
(***************************************************************************)

TurnSet(S, n) ==
  /\ n \in Nat
  /\ \A x \in S : x.bar \in 1 .. n /\ x.leg.start \in 1 .. n /\ x.leg.direction \in Directions
  /\ \A x, y \in S : x.bar = y.bar /\ x.leg.start = y.leg.start => x = y
  /\ \A x, y \in S : x.bar = y.bar => x.leg.direction = y.leg.direction

\* The last turn of D.
LastTurn(D) == CHOOSE y \in D : \A z \in D : z = y \/ Earlier(z, y)

\* The turns that change the state.
Changes(S) == {t \in {Transition(S, x) : x \in S} : t.direction # t.from}

LEMMA EarlierIs ==
  ASSUME NEW S, NEW n, TurnSet(S, n), NEW x \in S, NEW y \in S
  PROVE  /\ x = y \/ Earlier(x, y) \/ Earlier(y, x)
         /\ Earlier(x, y) => ~Earlier(y, x) /\ x # y /\ x.bar <= y.bar
         /\ \A z \in S : Earlier(x, y) /\ Earlier(y, z) => Earlier(x, z)
         /\ x.bar <= y.bar /\ x.bar # y.bar => Earlier(x, y)
<1>1. \A z \in S : z.bar \in Int /\ z.leg.start \in Int
  BY DEF TurnSet
<1>2. x.bar = y.bar /\ x.leg.start = y.leg.start => x = y
  BY DEF TurnSet
<1>3. /\ x.bar < y.bar \/ y.bar < x.bar \/ x.bar = y.bar
      /\ x.leg.start < y.leg.start \/ y.leg.start < x.leg.start \/ x.leg.start = y.leg.start
  BY <1>1
<1> QED
  BY <1>1, <1>2, <1>3 DEF Earlier

LEMMA FirstAndLast ==
  ASSUME NEW S, NEW n, TurnSet(S, n), NEW D, D \subseteq S, D # {}
  PROVE  /\ \E x \in D : \A z \in D : z = x \/ Earlier(x, z)
         /\ LastTurn(D) \in D /\ \A z \in D : z = LastTurn(D) \/ Earlier(z, LastTurn(D))
<1> DEFINE bars == {x.bar : x \in D}
           at(b) == {x.leg.start : x \in {x \in D : x.bar = b}}
<1>1. n \in Nat /\ bars \in SUBSET Nat /\ bars # {} /\ \A b \in bars : b <= n
  BY DEF TurnSet
<1>2. \A b \in bars : at(b) \in SUBSET Nat /\ at(b) # {} /\ \A s \in at(b) : s <= n
  BY DEF TurnSet
<1>3. \A x \in D : x.bar \in bars /\ x.leg.start \in at(x.bar)
  OBVIOUS
<1>4. \A b \in bars : \A s \in at(b) : \E x \in D : x.bar = b /\ x.leg.start = s
  OBVIOUS
<1> HIDE DEF bars, at
<1>5. \A x \in D : x.bar \in Nat /\ x.leg.start \in Nat
  BY DEF TurnSet
<1>6. \A x, y \in D : x.bar = y.bar /\ x.leg.start = y.leg.start => x = y
  BY DEF TurnSet
<1>7. \E x \in D : \A z \in D : z = x \/ Earlier(x, z)
  <2>1. PICK b \in bars : \A c \in bars : b <= c
    BY <1>1, HasLeast
  <2>2. PICK s \in at(b) : \A r \in at(b) : s <= r
    BY <1>2, HasLeast
  <2>3. PICK x \in D : x.bar = b /\ x.leg.start = s
    BY <1>4
  <2>4. \A z \in D : b <= z.bar /\ (z.bar = b => s <= z.leg.start)
    BY <1>3, <2>1, <2>2
  <2>5. \A z \in D : z = x \/ Earlier(x, z)
    BY <1>5, <1>6, <2>3, <2>4 DEF Earlier
  <2> QED
    BY <2>5
<1>8. \E x \in D : \A z \in D : z = x \/ Earlier(z, x)
  <2>1. PICK b \in bars : \A c \in bars : c <= b
    BY <1>1, HasGreatest
  <2>2. PICK s \in at(b) : \A r \in at(b) : r <= s
    BY <1>1, <1>2, HasGreatest
  <2>3. PICK x \in D : x.bar = b /\ x.leg.start = s
    BY <1>4
  <2>4. \A z \in D : z.bar <= b /\ (z.bar = b => z.leg.start <= s)
    BY <1>3, <2>1, <2>2
  <2>5. \A z \in D : z = x \/ Earlier(z, x)
    BY <1>5, <1>6, <2>3, <2>4 DEF Earlier
  <2> QED
    BY <2>5
<1> QED
  BY <1>7, <1>8 DEF LastTurn

\* A change is the first turn of its bar.
LEMMA ChangeIs ==
  ASSUME NEW S, NEW n, TurnSet(S, n), NEW t \in Changes(S)
  PROVE  \E x \in S : /\ t = Transition(S, x) /\ t.bar = x.bar
                      /\ t.direction = Opposite(x.leg.direction) /\ t.from = StateBefore(S, x)
                      /\ \A y \in S : Earlier(y, x) => y.bar < x.bar
<1>1. PICK x \in S : t = Transition(S, x)
  BY DEF Changes
<1>2. /\ t.bar = x.bar /\ t.direction = Opposite(x.leg.direction) /\ t.from = StateBefore(S, x)
      /\ t.direction # t.from
  BY <1>1 DEF Changes, Transition
<1>3. ASSUME NEW y \in S, Earlier(y, x), ~(y.bar < x.bar) PROVE FALSE
  <2> DEFINE D == {z \in S : Earlier(z, x)}
             p == LastTurn(D)
  <2>1. y \in D /\ D \subseteq S
    BY <1>3
  <2>2. StateBefore(S, x) = Opposite(p.leg.direction)
    BY <2>1 DEF StateBefore, LastTurn
  <2>3. p \in D /\ (y = p \/ Earlier(y, p))
    BY <2>1, FirstAndLast
  <2>4. p \in S /\ Earlier(p, x)
    BY <2>3
  <2> HIDE DEF p, D
  <2>5. y.bar <= p.bar /\ p.bar <= x.bar /\ y.bar <= x.bar
    <3>1. y.bar \in Nat
      BY DEF TurnSet
    <3> QED
      BY <1>3, <2>3, <2>4, <3>1, EarlierIs
  <2>6. p.bar = x.bar
    <3>1. y.bar \in Nat /\ p.bar \in Nat /\ x.bar \in Nat
      BY <2>4 DEF TurnSet
    <3> QED
      BY <1>3, <2>5, <3>1
  <2>7. p.leg.direction = x.leg.direction
    BY <2>4, <2>6 DEF TurnSet
  <2> QED
    BY <1>2, <2>2, <2>7
<1> QED
  BY <1>1, <1>2, <1>3

\* One change per bar.
LEMMA ChangesApart ==
  ASSUME NEW S, NEW n, TurnSet(S, n), NEW t \in Changes(S), NEW u \in Changes(S), t.bar = u.bar
  PROVE  t = u
<1>1. PICK x \in S : /\ t = Transition(S, x) /\ t.bar = x.bar
                     /\ \A y \in S : Earlier(y, x) => y.bar < x.bar
  BY ChangeIs
<1>2. PICK y \in S : /\ u = Transition(S, y) /\ u.bar = y.bar
                     /\ \A z \in S : Earlier(z, y) => z.bar < y.bar
  BY ChangeIs
<1>3. x.bar = y.bar /\ x.bar \in Nat
  BY <1>1, <1>2 DEF TurnSet
<1>4. ~Earlier(x, y) /\ ~Earlier(y, x)
  BY <1>1, <1>2, <1>3
<1>5. x = y
  BY <1>4, EarlierIs
<1> QED
  BY <1>1, <1>2, <1>5

\* What a decision is told is the state of the machine: the direction of the last
\* turn, be it a change or a repeat.
LEMMA DeliveryIs ==
  ASSUME NEW S, NEW n, TurnSet(S, n), NEW k \in Int
  PROVE  DeliveryAt(Changes(S), k)
           = LET D == {x \in S : x.bar <= k}
             IN  IF D = {} THEN "undefined" ELSE Opposite(LastTurn(D).leg.direction)
<1> DEFINE D == {x \in S : x.bar <= k}
           E == {t \in Changes(S) : t.bar <= k}
<1>1. D = {} => E = {}
  <2> SUFFICES ASSUME NEW t \in E PROVE D # {}
    OBVIOUS
  <2>1. PICK x \in S : t.bar = x.bar
    BY ChangeIs
  <2> QED
    BY <2>1
<1>2. ASSUME NEW y \in D, StateBefore(S, y) # Opposite(y.leg.direction)
      PROVE  Transition(S, y) \in E /\ Transition(S, y).bar = y.bar
  BY <1>2 DEF Transition, Changes
<1>3. ASSUME D # {} PROVE E # {}
  <2>1. D \subseteq S
    OBVIOUS
  <2>2. PICK x \in D : \A z \in D : z = x \/ Earlier(x, z)
    BY <1>3, <2>1, FirstAndLast
  <2>3. ASSUME NEW y \in S, Earlier(y, x) PROVE FALSE
    <3>1. y.bar <= x.bar /\ ~Earlier(x, y) /\ y # x
      BY <2>3, EarlierIs
    <3>2. y.bar <= k
      <4>1. y.bar \in Nat /\ x.bar \in Nat /\ x.bar <= k
        BY DEF TurnSet
      <4> QED
        BY <3>1, <4>1
    <3> QED
      BY <2>2, <3>1, <3>2
  <2>4. StateBefore(S, x) = "undefined"
    BY <2>3 DEF StateBefore
  <2>5. Opposite(x.leg.direction) # "undefined"
    BY DEF Opposite
  <2> QED
    BY <1>2, <2>4, <2>5
<1>4. ASSUME D # {} PROVE DeliveryAt(Changes(S), k) = Opposite(LastTurn(D).leg.direction)
  <2> DEFINE t == CHOOSE x \in E : \A y \in E : ~PublishedBefore(x, y)
             L == LastTurn(D)
  <2>1. E # {} /\ \A u \in E : u.bar \in Nat /\ u.bar <= k
    <3>1. \A u \in Changes(S) : u.bar \in Nat
      <4> TAKE u \in Changes(S)
      <4>1. PICK x \in S : u.bar = x.bar
        BY ChangeIs
      <4>2. x.bar \in 1 .. n /\ n \in Nat
        BY DEF TurnSet
      <4> QED
        BY <4>1, <4>2
    <3> QED
      BY <1>3, <1>4, <3>1
  <2>2. \A u, w \in E : u.bar = w.bar => u = w
    BY ChangesApart
  <2>3. \E u \in E : \A w \in E : ~PublishedBefore(u, w)
    <3> DEFINE bars == {u.bar : u \in E}
    <3>1. bars \in SUBSET Nat /\ bars # {} /\ \A b \in bars : b <= k
      BY <2>1
    <3>2. k \in Nat
      BY <2>1
    <3>3. PICK b \in bars : \A c \in bars : c <= b
      BY <3>1, <3>2, HasGreatest
    <3>4. PICK u \in E : u.bar = b
      BY <3>3
    <3>5. \A w \in E : w.bar <= u.bar
      BY <3>3, <3>4
    <3> HIDE DEF E
    <3>6. \A w \in E : ~PublishedBefore(u, w)
      <4> SUFFICES ASSUME NEW w \in E, PublishedBefore(u, w) PROVE FALSE
        OBVIOUS
      <4>1. u.bar \in Nat /\ w.bar \in Nat /\ w.bar <= u.bar
        BY <2>1, <3>5
      <4>2. u.bar = w.bar /\ u.direction # w.direction
        BY <4>1 DEF PublishedBefore
      <4> QED
        BY <2>2, <4>2
    <3> QED
      BY <3>6
  <2>4. t \in E /\ \A u \in E : ~PublishedBefore(t, u)
    BY <2>3
  <2>5. DeliveryAt(Changes(S), k) = t.direction
    BY <2>1 DEF DeliveryAt
  <2> HIDE DEF t
  <2>6. \A u \in E : u.bar <= t.bar
    <3> HIDE DEF E
    <3> QED
      BY <2>1, <2>4 DEF PublishedBefore
  <2>7. PICK x \in S : t.bar = x.bar /\ t.direction = Opposite(x.leg.direction)
    BY <2>4, ChangeIs
  <2>8. x \in D /\ D \subseteq S
    BY <2>4, <2>7
  <2>9. L \in D /\ (x = L \/ Earlier(x, L))
    BY <1>4, <2>8, FirstAndLast
  <2> DEFINE bad == {y \in D : (y = x \/ Earlier(x, y)) /\ y.leg.direction # x.leg.direction}
  <2> HIDE DEF L
  <2>10. ASSUME bad # {} PROVE FALSE
    <3>1. bad \subseteq S
      OBVIOUS
    <3>2. PICK y \in bad : \A z \in bad : z = y \/ Earlier(y, z)
      BY <2>10, <3>1, FirstAndLast
    <3>3. y \in D /\ Earlier(x, y) /\ y.leg.direction # x.leg.direction
      OBVIOUS
    <3> DEFINE C == {z \in S : Earlier(z, y)}
               p == LastTurn(C)
    <3>4. x \in C /\ C \subseteq S
      BY <3>3
    <3>5. p \in C /\ (x = p \/ Earlier(x, p))
      BY <3>4, FirstAndLast
    <3>6. StateBefore(S, y) = Opposite(p.leg.direction)
      BY <3>4 DEF StateBefore, LastTurn
    <3>7. p \in S /\ Earlier(p, y)
      BY <3>5
    <3> HIDE DEF p, C
    <3>8. y \in S /\ p # y /\ ~Earlier(y, p) /\ p.bar <= y.bar
      BY <3>3, <3>7, EarlierIs
    <3>9. p \in D
      <4>1. p.bar \in Nat /\ y.bar \in Nat /\ y.bar <= k
        BY <3>3, <3>7 DEF TurnSet
      <4> QED
        BY <3>7, <3>8, <4>1
    <3>10. p \notin bad
      BY <3>2, <3>8
    <3>11. p.leg.direction = x.leg.direction
      BY <3>5, <3>9, <3>10
    <3>12. /\ x.leg.direction \in Directions /\ y.leg.direction \in Directions
           /\ x.bar \in Nat /\ y.bar \in Nat
      BY <3>8 DEF TurnSet
    <3>13. StateBefore(S, y) # Opposite(y.leg.direction)
      BY <3>3, <3>6, <3>11, <3>12 DEF Directions, Opposite
    <3>14. y.bar <= x.bar
      BY <1>2, <2>6, <2>7, <3>3, <3>13
    <3>15. x.bar <= y.bar
      BY <3>3, <3>8, EarlierIs
    <3>16. x.bar = y.bar
      BY <3>12, <3>14, <3>15
    <3> QED
      BY <3>3, <3>8, <3>16 DEF TurnSet
  <2>11. L.leg.direction = x.leg.direction
    BY <2>9, <2>10
  <2> QED
    BY <2>5, <2>7, <2>11 DEF L
<1>5. D = {} => DeliveryAt(Changes(S), k) = "undefined"
  BY <1>1 DEF DeliveryAt
<1> QED
  BY <1>4, <1>5

\* Each change starts in what the bar before it was told.
LEMMA ChangeFrom ==
  ASSUME NEW S, NEW n, TurnSet(S, n), NEW t \in Changes(S)
  PROVE  t.from = DeliveryAt(Changes(S), t.bar - 1)
<1>1. PICK x \in S : /\ t.bar = x.bar /\ t.from = StateBefore(S, x)
                     /\ \A y \in S : Earlier(y, x) => y.bar < x.bar
  BY ChangeIs
<1>2. x.bar \in Nat /\ \A y \in S : y.bar \in Nat
  BY DEF TurnSet
<1> DEFINE C == {y \in S : Earlier(y, x)}
           D == {y \in S : y.bar <= t.bar - 1}
<1>3. C = D
  <2>1. \A y \in S : Earlier(y, x) <=> y.bar <= t.bar - 1
    BY <1>1, <1>2 DEF Earlier
  <2> QED
    BY <2>1
<1>4. StateBefore(S, x) = IF C = {} THEN "undefined" ELSE Opposite(LastTurn(C).leg.direction)
  BY DEF StateBefore, LastTurn
<1>5. t.bar - 1 \in Int
  BY <1>1, <1>2
<1>6. DeliveryAt(Changes(S), t.bar - 1)
        = IF D = {} THEN "undefined" ELSE Opposite(LastTurn(D).leg.direction)
  BY <1>5, DeliveryIs
<1> HIDE DEF C, D
<1> QED
  BY <1>1, <1>3, <1>4, <1>6

LEMMA TurnsAreSet ==
  ASSUME NEW n \in Nat, NEW F \in [1 .. n -> Bars], NEW T, NEW v,
         v.tolerance \in Nat, v.maxBars \in Nat
  PROVE  TurnSet(TurnsOf(F, T, v), n)
<1> DEFINE S == TurnsOf(F, T, v)
<1>1. \A x \in S : /\ x.leg \in LegsOf(F, T, v) /\ x.bar \in 1 .. n
                   /\ x = [leg |-> x.leg, bar |-> x.bar]
  BY TurnIs
<1>2. \A l \in LegsOf(F, T, v) : l.start \in 1 .. n /\ l.direction \in Directions
  BY LegIs
<1>3. \A l, k \in LegsOf(F, T, v) : l.start = k.start => l = k
  BY LegsApart
<1>4. \A x, y \in S : x.bar = y.bar => x.leg.direction = y.leg.direction
  BY TurnsOneWay
<1> HIDE DEF S
<1>5. \A x, y \in S : x.bar = y.bar /\ x.leg.start = y.leg.start => x = y
  <2> SUFFICES ASSUME NEW x \in S, NEW y \in S, x.bar = y.bar, x.leg.start = y.leg.start
               PROVE  x = y
    OBVIOUS
  <2>1. x.leg = y.leg
    BY <1>1, <1>3
  <2> QED
    BY <1>1, <2>1
<1>6. \A x \in S : x.bar \in 1 .. n /\ x.leg.start \in 1 .. n /\ x.leg.direction \in Directions
  BY <1>1, <1>2
<1>7. TurnSet(S, n)
  BY <1>4, <1>5, <1>6 DEF TurnSet
<1> QED
  BY <1>7 DEF S

\* A leg that ends before the last bar of the shorter frame is one of both frames.
LEMMA LegsAlike ==
  ASSUME NEW F, NEW T, NEW n, NEW G, NEW U, NEW m, TruncatedTo(F, T, n, G, U, m),
         NEW v, NEW l, l.end < m
  PROVE  l \in LegsOf(F, T, v) <=> l \in LegsOf(G, U, v)
<1>1. /\ DOMAIN F = 1 .. n /\ DOMAIN G = 1 .. m /\ n \in Nat /\ m \in Nat /\ m <= n
      /\ \A k : k \in 1 .. m <=> k \in 1 .. n /\ k <= m
      /\ \A k \in 1 .. m : G[k] = F[k] /\ U[k] = T[k] /\ CloseTime(U, k) = CloseTime(T, k)
  BY PrefixFacts
<1>2. ASSUME NEW d, NEW i \in Int, i <= m
      PROVE  SameLeg(F, T, v, d, i) <=> SameLeg(G, U, v, d, i)
  <2>1. {i - 1, i} \subseteq 1 .. n <=> {i - 1, i} \subseteq 1 .. m
    BY <1>1, <1>2
  <2>2. ASSUME {i - 1, i} \subseteq 1 .. m
        PROVE  /\ G[i] = F[i] /\ G[i - 1] = F[i - 1] /\ U[i] = T[i]
               /\ CloseTime(U, i - 1) = CloseTime(T, i - 1)
    BY <1>1, <2>2
  <2> QED
    BY <1>1, <2>1, <2>2 DEF SameLeg
<1>3. l \in LegsOf(F, T, v)
        <=> /\ l \in [direction : Directions, start : 1 .. n, end : 1 .. n]
            /\ l.start <= l.end
            /\ Beyond(l.direction, F[l.start].close, F[l.start].open)
            /\ \A i \in (l.start + 1) .. l.end : SameLeg(F, T, v, l.direction, i)
            /\ ~SameLeg(F, T, v, l.direction, l.start)
            /\ ~SameLeg(F, T, v, l.direction, l.end + 1)
  BY <1>1 DEF LegsOf
<1>4. l \in LegsOf(G, U, v)
        <=> /\ l \in [direction : Directions, start : 1 .. m, end : 1 .. m]
            /\ l.start <= l.end
            /\ Beyond(l.direction, G[l.start].close, G[l.start].open)
            /\ \A i \in (l.start + 1) .. l.end : SameLeg(G, U, v, l.direction, i)
            /\ ~SameLeg(G, U, v, l.direction, l.start)
            /\ ~SameLeg(G, U, v, l.direction, l.end + 1)
  BY <1>1 DEF LegsOf
<1>5. ASSUME l \in [direction : Directions, start : 1 .. n, end : 1 .. n], l.start <= l.end
      PROVE  /\ l \in [direction : Directions, start : 1 .. m, end : 1 .. m]
             /\ l.start \in 1 .. m /\ l.end \in 1 .. m
  <2>1. /\ l.start \in 1 .. n /\ l.end \in 1 .. n /\ l.direction \in Directions
        /\ l = [direction |-> l.direction, start |-> l.start, end |-> l.end]
    BY <1>5
  <2>2. l.start \in 1 .. m /\ l.end \in 1 .. m
    BY <1>1, <1>5, <2>1
  <2> QED
    BY <2>1, <2>2
<1>6. ASSUME l \in [direction : Directions, start : 1 .. m, end : 1 .. m]
      PROVE  l \in [direction : Directions, start : 1 .. n, end : 1 .. n]
  <2>1. /\ l.start \in 1 .. m /\ l.end \in 1 .. m /\ l.direction \in Directions
        /\ l = [direction |-> l.direction, start |-> l.start, end |-> l.end]
    BY <1>6
  <2>2. l.start \in 1 .. n /\ l.end \in 1 .. n
    BY <1>1, <2>1
  <2> QED
    BY <2>1, <2>2
<1>7. ASSUME l.start \in 1 .. m, l.end \in 1 .. m
      PROVE  /\ Beyond(l.direction, F[l.start].close, F[l.start].open)
                  <=> Beyond(l.direction, G[l.start].close, G[l.start].open)
             /\ SameLeg(F, T, v, l.direction, l.start) <=> SameLeg(G, U, v, l.direction, l.start)
             /\ SameLeg(F, T, v, l.direction, l.end + 1)
                  <=> SameLeg(G, U, v, l.direction, l.end + 1)
             /\ \A i \in (l.start + 1) .. l.end :
                  SameLeg(F, T, v, l.direction, i) <=> SameLeg(G, U, v, l.direction, i)
  <2>1. l.start \in Int /\ l.start <= m /\ l.end + 1 \in Int /\ l.end + 1 <= m
    BY <1>1, <1>7
  <2>2. \A i \in (l.start + 1) .. l.end : i \in Int /\ i <= m
    BY <1>1, <1>7
  <2>3. F[l.start] = G[l.start]
    BY <1>1, <1>7
  <2> QED
    BY <1>2, <2>1, <2>2, <2>3
<1>8. l \in LegsOf(F, T, v) => l \in LegsOf(G, U, v)
  BY <1>3, <1>4, <1>5, <1>7
<1>9. l \in LegsOf(G, U, v) => l \in LegsOf(F, T, v)
  <2>1. l \in LegsOf(G, U, v) => l.start \in 1 .. m /\ l.end \in 1 .. m
    BY <1>4
  <2> QED
    BY <1>3, <1>4, <1>6, <1>7, <2>1
<1> QED
  BY <1>8, <1>9

\* The closes that clear a leg of the shorter frame are the same up to its end.
LEMMA ClearingsAlike ==
  ASSUME NEW F, NEW T, NEW n, NEW G, NEW U, NEW m, TruncatedTo(F, T, n, G, U, m),
         NEW v, NEW l, l.start \in 1 .. m, l.end \in 1 .. m, l.start <= l.end
  PROVE  /\ \A k : k \in Clearings(G, v, l) <=> k \in Clearings(F, v, l) /\ k <= m
         /\ Clearings(F, v, l) \subseteq 1 .. n
<1>1. /\ DOMAIN F = 1 .. n /\ DOMAIN G = 1 .. m /\ n \in Nat /\ m \in Nat /\ m <= n
      /\ \A k : k \in 1 .. m <=> k \in 1 .. n /\ k <= m
      /\ \A k \in 1 .. m : G[k] = F[k]
  BY PrefixFacts
<1>2. LegLevel(F, v, l) = LegLevel(G, v, l)
  <2>1. \A i \in l.start .. l.end : F[i] = G[i]
    BY <1>1
  <2>2. {F[i].open : i \in l.start .. l.end} = {G[i].open : i \in l.start .. l.end}
    BY <2>1
  <2>3. F[l.start] = G[l.start]
    BY <1>1
  <2> QED
    BY <2>2, <2>3 DEF LegLevel
<1> DEFINE P == LegLevel(G, v, l)
           W == (l.end + 1) .. (l.end + v.maxBars)
<1>3. \A k : k \in Clearings(G, v, l)
        <=> k \in 1 .. m /\ k \in W /\ Distance(Opposite(l.direction), G[k].close, P) > v.tolerance
  BY <1>1 DEF Clearings
<1>4. \A k : k \in Clearings(F, v, l)
        <=> k \in 1 .. n /\ k \in W /\ Distance(Opposite(l.direction), F[k].close, P) > v.tolerance
  BY <1>1, <1>2 DEF Clearings
<1> HIDE DEF P, W
<1> QED
  BY <1>1, <1>3, <1>4

\* The turns up to a bar are those of the frame cut off there.
LEMMA TurnsAlike ==
  ASSUME NEW F, NEW T, NEW n, NEW G, NEW U, NEW m, TruncatedTo(F, T, n, G, U, m), NEW v
  PROVE  {x \in TurnsOf(F, T, v) : x.bar <= m} = TurnsOf(G, U, v)
<1>1. n \in Nat /\ m \in Nat /\ m <= n /\ F \in [1 .. n -> Bars] /\ G \in [1 .. m -> Bars]
  BY DEF TruncatedTo
<1>2. ASSUME NEW l, l.start \in 1 .. m, l.end \in 1 .. m, l.start <= l.end,
             Clearings(F, v, l) # {}, Min(Clearings(F, v, l)) <= m
      PROVE  Clearings(G, v, l) # {} /\ Min(Clearings(G, v, l)) = Min(Clearings(F, v, l))
  <2> DEFINE H == Clearings(F, v, l)
             K == Clearings(G, v, l)
  <2>1. H \subseteq 1 .. n /\ \A k : k \in K <=> k \in H /\ k <= m
    BY <1>2, ClearingsAlike
  <2>2. H \in SUBSET Nat /\ H # {} /\ \A y \in H : y <= n
    BY <1>1, <1>2, <2>1
  <2>3. Min(H) <= m
    BY <1>2
  <2> HIDE DEF H, K
  <2>4. Min(H) \in H /\ \A y \in H : Min(H) <= y
    BY <1>1, <2>2, MinMax
  <2>5. Min(H) \in K /\ \A y \in K : Min(H) <= y
    BY <2>1, <2>3, <2>4
  <2>6. K \in SUBSET Int
    <3>1. K \subseteq H
      BY <2>1
    <3>2. H \subseteq Int
      BY <2>2
    <3> QED
      BY <3>1, <3>2
  <2>7. Min(K) = Min(H)
    BY <2>5, <2>6, LeastIs
  <2> QED
    BY <2>5, <2>7 DEF H, K
<1>3. \A x : x \in TurnsOf(F, T, v)
        <=> \E l \in LegsOf(F, T, v) : /\ l.end - l.start + 1 >= v.minLength
                                       /\ Clearings(F, v, l) # {}
                                       /\ x = [leg |-> l, bar |-> Min(Clearings(F, v, l))]
  BY DEF TurnsOf
<1>4. \A x : x \in TurnsOf(G, U, v)
        <=> \E l \in LegsOf(G, U, v) : /\ l.end - l.start + 1 >= v.minLength
                                       /\ Clearings(G, v, l) # {}
                                       /\ x = [leg |-> l, bar |-> Min(Clearings(G, v, l))]
  BY DEF TurnsOf
<1>5. ASSUME NEW x \in TurnsOf(F, T, v), x.bar <= m
      PROVE  x \in TurnsOf(G, U, v)
  <2>1. PICK l \in LegsOf(F, T, v) : /\ l.end - l.start + 1 >= v.minLength
                                     /\ Clearings(F, v, l) # {}
                                     /\ x = [leg |-> l, bar |-> Min(Clearings(F, v, l))]
    BY <1>3
  <2>2. x.leg = l /\ x.bar = Min(Clearings(F, v, l))
    BY <2>1
  <2>3. x.bar \in 1 .. n /\ l.end < x.bar
    BY <1>1, <2>2, TurnIs
  <2>4. l.start \in 1 .. n /\ l.end \in 1 .. n /\ l.start <= l.end
    BY <1>1, LegIs
  <2>5. l.start \in 1 .. m /\ l.end \in 1 .. m /\ l.end < m
    BY <1>1, <1>5, <2>3, <2>4
  <2>6. l \in LegsOf(G, U, v)
    BY <2>5, LegsAlike
  <2>7. Clearings(G, v, l) # {} /\ Min(Clearings(G, v, l)) = Min(Clearings(F, v, l))
    BY <1>2, <1>5, <2>1, <2>2, <2>4, <2>5
  <2> QED
    BY <1>4, <2>1, <2>6, <2>7
<1>6. ASSUME NEW x \in TurnsOf(G, U, v)
      PROVE  x \in TurnsOf(F, T, v) /\ x.bar <= m
  <2>1. PICK l \in LegsOf(G, U, v) : /\ l.end - l.start + 1 >= v.minLength
                                     /\ Clearings(G, v, l) # {}
                                     /\ x = [leg |-> l, bar |-> Min(Clearings(G, v, l))]
    BY <1>4
  <2>2. x.leg = l /\ x.bar = Min(Clearings(G, v, l))
    BY <2>1
  <2>3. x.bar \in 1 .. m /\ l.end < x.bar
    BY <1>1, <2>2, TurnIs
  <2>4. l.start \in 1 .. m /\ l.end \in 1 .. m /\ l.start <= l.end
    BY <1>1, LegIs
  <2>5. l.end < m
    BY <1>1, <2>3, <2>4
  <2>6. l \in LegsOf(F, T, v)
    BY <2>5, LegsAlike
  <2> DEFINE H == Clearings(F, v, l)
  <2>7. H \subseteq 1 .. n /\ x.bar \in H /\ x.bar <= m
    <3>1. x.bar \in Clearings(G, v, l)
      BY <1>1, <2>2, TurnIs
    <3> QED
      BY <2>4, <3>1, ClearingsAlike
  <2>8. H \in SUBSET Nat /\ H # {} /\ \A y \in H : y <= n
    BY <1>1, <2>7
  <2> HIDE DEF H
  <2>9. Min(H) \in H /\ \A y \in H : Min(H) <= y
    BY <1>1, <2>8, MinMax
  <2>10. Min(H) <= m
    <3>1. Min(H) <= x.bar /\ x.bar <= m
      BY <2>7, <2>9
    <3>2. Min(H) \in Nat /\ x.bar \in Nat /\ m \in Nat
      BY <1>1, <2>7, <2>8, <2>9
    <3> QED
      BY <3>1, <3>2
  <2>11. Min(Clearings(G, v, l)) = Min(Clearings(F, v, l)) /\ Clearings(F, v, l) # {}
    BY <1>2, <2>4, <2>8, <2>10 DEF H
  <2>12. x \in TurnsOf(F, T, v)
    BY <1>3, <2>1, <2>6, <2>11
  <2> QED
    BY <2>7, <2>12
<1> QED
  BY <1>5, <1>6

\* What comes later changes nothing in what the state machine did before.
LEMMA ChangesUpTo ==
  ASSUME NEW S, NEW n, TurnSet(S, n), NEW m \in Nat, NEW R, R = {x \in S : x.bar <= m}
  PROVE  UpTo(Changes(S), m) = Changes(R)
<1>1. ASSUME NEW x \in R PROVE StateBefore(S, x) = StateBefore(R, x)
  <2>1. x \in S /\ x.bar <= m
    OBVIOUS
  <2>2. \A y \in S : Earlier(y, x) => y.bar <= m
    <3> SUFFICES ASSUME NEW y \in S, Earlier(y, x) PROVE y.bar <= m
      OBVIOUS
    <3>1. y.bar \in Nat /\ x.bar \in Nat
      BY <2>1 DEF TurnSet
    <3> QED
      BY <2>1, <3>1 DEF Earlier
  <2> DEFINE A == {y \in S : Earlier(y, x)}
             B == {y \in R : Earlier(y, x)}
  <2>3. A = B
    BY <2>2
  <2>4. /\ StateBefore(S, x) = IF A = {} THEN "undefined" ELSE Opposite(LastTurn(A).leg.direction)
        /\ StateBefore(R, x) = IF B = {} THEN "undefined" ELSE Opposite(LastTurn(B).leg.direction)
    BY DEF StateBefore, LastTurn
  <2> HIDE DEF A, B
  <2> QED
    BY <2>3, <2>4
<1>2. \A x \in R : Transition(S, x) = Transition(R, x)
  BY <1>1 DEF Transition
<1>3. \A X, x : Transition(X, x).bar = x.bar
  BY DEF Transition
<1>4. \A t : t \in Changes(S) <=> \E x \in S : t = Transition(S, x) /\ t.direction # t.from
  BY DEF Changes
<1>5. \A t : t \in Changes(R) <=> \E x \in R : t = Transition(R, x) /\ t.direction # t.from
  BY DEF Changes
<1>6. \A x : x \in R <=> x \in S /\ x.bar <= m
  OBVIOUS
<1>7. ASSUME NEW t \in Changes(S), t.bar <= m PROVE t \in Changes(R)
  <2>1. PICK x \in S : t = Transition(S, x) /\ t.direction # t.from
    BY <1>4
  <2>2. x \in R
    BY <1>3, <1>6, <1>7, <2>1
  <2> QED
    BY <1>2, <1>5, <2>1, <2>2
<1>8. ASSUME NEW t \in Changes(R) PROVE t \in Changes(S) /\ t.bar <= m
  <2>1. PICK x \in R : t = Transition(R, x) /\ t.direction # t.from
    BY <1>5
  <2>2. t = Transition(S, x) /\ x \in S /\ x.bar <= m
    BY <1>2, <1>6, <2>1
  <2> QED
    BY <1>3, <1>4, <2>1, <2>2
<1> QED
  BY <1>7, <1>8 DEF UpTo

LEMMA TransitionsAre ==
  ASSUME NEW F, NEW T, NEW v
  PROVE  TransitionsOf(F, T, v) = Changes(TurnsOf(F, T, v))
BY DEF TransitionsOf, Changes

\* The published transitions are the story of the state machine of cisd.py, at
\* every bar and for every frame: one a bar at most, each from the state a
\* decision before it is told, and the same whether or not later bars are known.
THEOREM DeliveryChainHolds == Spec => []DeliveryChain
<1>1. WalkInv => DeliveryChain
  <2> SUFFICES ASSUME WalkInv, NEW v \in CisdConfigs
               PROVE  LET S == TransitionsOf(SubSeq(frame, 1, index), SubSeq(opens, 1, index), v)
                      IN  /\ \A x, y \in S : x.bar = y.bar => x = y
                          /\ \A x \in S : x.from = DeliveryAt(S, x.bar - 1)
                          /\ UpTo(TransitionsOf(frame, opens, v), index) = S
    BY DEF DeliveryChain
  <2> DEFINE F == SubSeq(frame, 1, index)
             T == SubSeq(opens, 1, index)
             n == Len(frame)
  <2>1. /\ n \in Nat /\ index \in 0 .. n /\ frame \in [1 .. n -> Bars]
        /\ opens \in [1 .. n -> Nat] /\ Increasing(opens)
    BY DEF WalkInv, Walked
  <2>2. /\ F \in Seq(Bars) /\ Len(F) = index /\ \A k \in 1 .. index : F[k] = frame[k]
        /\ T \in Seq(Nat) /\ Len(T) = index /\ \A k \in 1 .. index : T[k] = opens[k]
    <3>1. frame \in Seq(Bars) /\ opens \in Seq(Nat) /\ Len(opens) = n
      BY <2>1
    <3>2. F \in Seq(Bars) /\ Len(F) = index /\ \A k \in 1 .. index : F[k] = frame[k]
      BY <2>1, <3>1
    <3>3. T \in Seq(Nat) /\ Len(T) = index /\ \A k \in 1 .. index : T[k] = opens[k]
      BY <2>1, <3>1
    <3> QED
      BY <3>2, <3>3
  <2>3. TruncatedTo(frame, opens, n, F, T, index)
    <3> HIDE DEF n, F, T
    <3>1. F \in [1 .. index -> Bars] /\ T \in [1 .. index -> Nat]
      BY <2>2
    <3> QED
      BY <2>1, <2>2, <3>1 DEF TruncatedTo
  <2>4. v.tolerance \in Nat /\ v.maxBars \in Nat
    BY DerivedAssumption DEF CisdConfigType
  <2>5. index \in Nat /\ F \in [1 .. index -> Bars]
    <3> HIDE DEF F
    <3> QED
      BY <2>1, <2>2
  <2> DEFINE A == TurnsOf(frame, opens, v)
             B == TurnsOf(F, T, v)
  <2> HIDE DEF F, T, n
  <2>6. TurnSet(A, n) /\ TurnSet(B, index)
    BY <2>1, <2>4, <2>5, TurnsAreSet
  <2>7. B = {x \in A : x.bar <= index}
    BY <2>3, TurnsAlike
  <2>8. TransitionsOf(frame, opens, v) = Changes(A) /\ TransitionsOf(F, T, v) = Changes(B)
    BY TransitionsAre
  <2> HIDE DEF A, B
  <2>9. UpTo(Changes(A), index) = Changes(B)
    BY <2>5, <2>6, <2>7, ChangesUpTo
  <2>10. \A x, y \in Changes(B) : x.bar = y.bar => x = y
    BY <2>6, ChangesApart
  <2>11. \A x \in Changes(B) : x.from = DeliveryAt(Changes(B), x.bar - 1)
    BY <2>6, ChangeFrom
  <2> QED
    BY <2>8, <2>9, <2>10, <2>11 DEF F, T
<1> QED
  BY <1>1, WalkHolds, PTL
=============================================================================
