-------------------------------- MODULE Zones -------------------------------
(***************************************************************************)
(* Price zones over a frame F whose bars open at the times T: the fair      *)
(* value gaps FvgDetector.detect finds (ict/fvg.py), how deep a bar trades  *)
(* into a zone, and the fill tracker of ict/composites.py.  A zone is any   *)
(* record with a direction, a top and a bottom.  Fill fractions are         *)
(* compared in units of 1 / Whole.                                          *)
(***************************************************************************)
EXTENDS Candles, FiniteSets, FiniteSetsExt

CONSTANT Duration                   \* how long a bar lasts

ASSUME DurationAssumption == Duration \in Nat \ {0}

Whole == 4

CloseTime(T, i) == T[i] + Duration

\* The bars that open at or after an instant.
BarsFrom(T, instant) == {k \in DOMAIN T : T[k] >= instant}

\* Bars neither overlap nor share an open time.
Increasing(T) == \A i, k \in DOMAIN T : i < k => T[i] + Duration <= T[k]

----------------------------------------------------------------------------
\* FvgConfig, as far as detection reads it.
GapConfigType ==
  [minGap : Nat, measure : {"wick", "body"}, contiguous : BOOLEAN,
   displacement : BOOLEAN, lookback : Nat \ {0}, factor : Nat \ {0}]

\* FvgConfig and the IfvgConfig that goes with it.
ConfigType ==
  [minGap : Nat, measure : {"wick", "body"}, contiguous : BOOLEAN,
   partial : 0 .. Whole, full : 1 .. Whole,
   displacement : BOOLEAN, lookback : Nat \ {0}, factor : Nat \ {0},
   trigger : {"close_through_far_edge", "close_inside_zone", "wick_through"},
   maxBarsToInvert : Nat \ {0}]

----------------------------------------------------------------------------
\* FvgDetector.detect

\* The prices that bound a bar from below and above.
Upper(c, bar) == IF c.measure = "wick" THEN bar.high
                 ELSE IF bar.open > bar.close THEN bar.open ELSE bar.close
Lower(c, bar) == IF c.measure = "wick" THEN bar.low
                 ELSE IF bar.open < bar.close THEN bar.open ELSE bar.close

\* Each of the three bars opens when the one before it closes.
Contiguous(T, third) ==
  \A i \in {third - 2, third - 1} : CloseTime(T, i) = T[i + 1]

\* The range of bar i against the mean range of the bars strictly before it; a
\* mean of nothing, or 0 / 0, is not a number and does not pass, x / 0 does.
Displaced(F, c, i) ==
  /\ i > c.lookback
  /\ LET sum == SumFunction([k \in (i - c.lookback) .. (i - 1) |-> BarRange(F[k])])
     IN  /\ sum = 0 => BarRange(F[i]) > 0
         /\ BarRange(F[i]) * c.lookback >= c.factor * sum

Gap(F, c, d, third) ==
  IF d = "bullish"
  THEN [direction |-> d, third |-> third,
        top |-> Lower(c, F[third]), bottom |-> Upper(c, F[third - 2])]
  ELSE [direction |-> d, third |-> third,
        top |-> Lower(c, F[third - 2]), bottom |-> Upper(c, F[third])]

IsGap(F, T, c, d, third) ==
  /\ third > 2
  /\ c.contiguous => Contiguous(T, third)
  /\ c.displacement => Displaced(F, c, third - 1)
  /\ LET z == Gap(F, c, d, third) IN z.top > z.bottom /\ z.top - z.bottom > c.minGap

GapsOf(F, T, c) ==
  {Gap(F, c, x[1], x[2]) : x \in {x \in Directions \X (DOMAIN F) : IsGap(F, T, c, x[1], x[2])}}

ZoneType == [direction : Directions, third : Nat \ {0}, top : Int, bottom : Int]

----------------------------------------------------------------------------
\* The edge price enters a zone at, and the edge it must reach to fill it.
EntryEdge(z) == IF z.direction = "bullish" THEN z.top ELSE z.bottom
FarEdge(z)   == IF z.direction = "bullish" THEN z.bottom ELSE z.top

\* The end of a bar that trades into zone z, and whether a is deeper than b.
Reach(z, bar) == Extreme(bar, Opposite(z.direction))
Deeper(z, a, b) == Beyond(Opposite(z.direction), a, b)

\* How far price p is into the zone, within its two edges.
Depth(z, p) ==
  LET d == Distance(Opposite(z.direction), p, EntryEdge(z))
  IN  IF d < 0 THEN 0 ELSE IF d > z.top - z.bottom THEN z.top - z.bottom ELSE d

Fills(z, p, full)    == Depth(z, p) * Whole >= full * (z.top - z.bottom)
Enters(z, p, partial) == Depth(z, p) * Whole > partial * (z.top - z.bottom)

----------------------------------------------------------------------------
\* composites.track_zone_fill: the bars from an instant on that deepen the fill
\* of a zone, up to the first that mitigates it.
TrackZoneFill(F, T, c, z, instant) ==
  LET window    == BarsFrom(T, instant)
      depth(k)  == Depth(z, Reach(z, F[k]))
      deepens   == {k \in window : depth(k) > 0 /\ \A i \in window : i < k => depth(i) < depth(k)}
      full      == {k \in deepens : Fills(z, Reach(z, F[k]), c.full)}
      emitted   == {k \in deepens : /\ Enters(z, Reach(z, F[k]), c.partial) \/ k \in full
                                    /\ \A i \in full : k <= i}
  IN  {[zone |-> z, bar |-> k, price |-> Reach(z, F[k]),
        after |-> IF k \in full THEN "mitigated" ELSE "partially_filled"] : k \in emitted}

\* The status after the last fill update up to bar k: status_at of every zone.
FillStatus(fills, k) ==
  LET seen == {u \in fills : u.bar <= k}
  IN  IF seen = {} THEN "active"
      ELSE (CHOOSE u \in seen : \A v \in seen : v.bar <= u.bar).after

\* What a run over the first k bars could have recorded.
UpTo(S, k) == {s \in S : s.bar <= k}

----------------------------------------------------------------------------
\* Pairs of zones

\* The prices two zones share, and whether they share more than points of them.
Overlap(x, y) == [top |-> Min({x.top, y.top}), bottom |-> Max({x.bottom, y.bottom})]

Overlaps(x, y, points) ==
  LET o == Overlap(x, y) IN o.top > o.bottom /\ o.top - o.bottom > points

\* Whole bar durations between the closes of two bars.
BarsBetween(T, i, k) == (T[Max({i, k})] - T[Min({i, k})]) \div Duration
=============================================================================
