---------------------------- MODULE DealingRanges ---------------------------
(***************************************************************************)
(* Dealing ranges (ict/dealing_range.py): the band between the pivot a      *)
(* structure break took out and the last opposite pivot confirmed before    *)
(* it, and where the closes sit within that band.  Everything is a function *)
(* of the bars F, of the detector's configuration r and of the breaks B the *)
(* walk of module Structure recorded.                                       *)
(***************************************************************************)
EXTENDS Structure

\* The SwingConfig of the range detector, which need not be the one of the
\* structure detector, and twice the half-width of the equilibrium band.
RangeConfigType ==
  [left : Nat \ {0}, right : Nat \ {0}, tie : TiePolicies, band : Nat]

CONSTANT RangeConfigs               \* the range detectors considered

ASSUME RangeAssumption == RangeConfigs \subseteq RangeConfigType

----------------------------------------------------------------------------
\* A mutant: any pivot before the break, confirmed or not.
OpposingUnconfirmed(F, r, b) ==
  {i \in 1 .. (b.bar - 1) : IsPivot(F, r, Opposite(b.direction), i)}

\* _opposite_anchor: the pivots against the break that were confirmed by its
\* close and lie before it.
Opposing(F, r, b) ==
  {i \in 1 .. (b.bar - 1) : /\ IsPivot(F, r, Opposite(b.direction), i)
                            /\ ConfirmIndex(r, i) <= b.bar}

\* Both anchors exist: the broken pivot is one of the detector's own swings.
Anchored(F, r, b) ==
  /\ IsPivot(F, r, b.direction, b.reference)
  /\ Opposing(F, r, b) # {}

\* The pivots the break b pairs, by the end of the range they stand for.
Anchors(F, r, b) ==
  [d \in Directions |-> IF d = b.direction THEN b.reference ELSE Max(Opposing(F, r, b))]

Top(F, a)    == Level(F, "bullish", a["bullish"])
Bottom(F, a) == Level(F, "bearish", a["bearish"])

\* The breaks that pair a high above a low; the others are counted and dropped.
Pairings(F, r, B) ==
  {n \in DOMAIN B : /\ Anchored(F, r, B[n])
                    /\ LET a == Anchors(F, r, B[n]) IN Top(F, a) > Bottom(F, a)}

\* No-change suppression: the pairing before this one had the same anchors.
Unchanged(F, r, B, n) ==
  \E m \in Pairings(F, r, B) :
    /\ m < n /\ \A i \in Pairings(F, r, B) : ~(m < i /\ i < n)
    /\ Anchors(F, r, B[m]) = Anchors(F, r, B[n])

\* The range a break creates, known once both anchors and the break are.
DealingRange(F, r, b) ==
  LET a == Anchors(F, r, b)
  IN  [direction |-> b.direction, anchors |-> a, top |-> Top(F, a), bottom |-> Bottom(F, a),
       source |-> b, bar |-> Max({b.bar} \cup {ConfirmIndex(r, a[d]) : d \in Directions})]

RangesOf(F, r, B) ==
  {DealingRange(F, r, B[n]) : n \in {n \in Pairings(F, r, B) : ~Unchanged(F, r, B, n)}}

----------------------------------------------------------------------------
\* DealingRangeAnalysis over the ranges R

\* range_at: the last range confirmed by the close of bar k.
RangeAt(R, k) ==
  LET known == {x \in R : x.bar <= k} IN {x \in known : \A y \in known : y.bar <= x.bar}

\* superseded_at: the confirmation of the range that comes next.
SupersededAt(R, x) ==
  LET later == {y.bar : y \in {y \in R : y.bar > x.bar}}
  IN  IF later = {} THEN {} ELSE {Min(later)}

\* zone_of: the close against the middle of the range.
ZoneOf(r, x, price) ==
  LET distance == 2 * price - (x.top + x.bottom)
  IN  IF distance <= r.band /\ -distance <= r.band THEN "equilibrium"
      ELSE IF distance > 0 THEN "premium" ELSE "discount"

\* A mutant: a range goes on classifying after it was superseded.
ClassifiesForever(R, F, x) == {k \in DOMAIN F : x.bar <= k}

\* The bars a range classifies: from its confirmation to the next one's.
Classifies(R, F, x) ==
  {k \in DOMAIN F : x.bar <= k /\ \A next \in SupersededAt(R, x) : k < next}

\* _observations
ObservationsOf(F, r, R) ==
  UNION {{[range |-> x, bar |-> k, zone |-> ZoneOf(r, x, F[k].close)] : k \in Classifies(R, F, x)}
           : x \in R}

----------------------------------------------------------------------------
\* DealingRangeDetector.analyse over the bars walked so far.
Walked == SubSeq(frame, 1, index)

RangesSoFar(r)       == RangesOf(Walked, r, breaks)
ObservationsSoFar(r) == ObservationsOf(Walked, r, RangesSoFar(r))

\* "A range classifies from its own confirmation until the next one confirms":
\* no bar is classified against two ranges or against a superseded one, and
\* from the first range on none is left out, whichever breaks were dropped or
\* suppressed in between.
BarsClassifiedOnce ==
  \A r \in RangeConfigs : \A k \in 1 .. index :
    LET seen == {o \in ObservationsSoFar(r) : o.bar = k}
    IN  /\ {o.range : o \in seen} = RangeAt(RangesSoFar(r), k)
        /\ Cardinality(seen) <= 1

\* The anchors are read from the swings of the whole frame, but a later bar
\* changes no range, no supersession and no classification known before it.
RangesKnowable ==
  [][\A r \in RangeConfigs :
       LET known == {x \in RangesSoFar(r)' : x.bar <= index}
       IN  /\ known = RangesSoFar(r)
           /\ {o \in ObservationsSoFar(r)' : o.bar <= index} = ObservationsSoFar(r)
           /\ \A x \in known : {k \in SupersededAt(RangesSoFar(r)', x) : k <= index}
                                = SupersededAt(RangesSoFar(r), x)]_vars
=============================================================================
