--------------------------- MODULE BalancedRanges ---------------------------
(***************************************************************************)
(* Balanced price ranges (ict/bpr.py): the prices a bullish and a bearish   *)
(* fair value gap share.  G are the gaps found in a frame of bars F that    *)
(* open at the times T; p is the detector's configuration.                  *)
(***************************************************************************)
EXTENDS Zones

BprConfigType ==
  [polarity : {"later_fvg", "neutral"}, maxBars : Nat \ {0}, minOverlap : Nat,
   partial : 0 .. Whole, full : 1 .. Whole]

\* A mutant: gaps of one direction are paired as well.
BalancesAny(T, p, a, b) ==
  /\ a.third < b.third
  /\ Overlaps(a, b, p.minOverlap)
  /\ BarsBetween(T, a.third, b.third) <= p.maxBars

\* Gap a is balanced by the later gap b.
Balances(T, p, a, b) ==
  /\ a.direction = Opposite(b.direction)
  /\ a.third < b.third
  /\ Overlaps(a, b, p.minOverlap)
  /\ BarsBetween(T, a.third, b.third) <= p.maxBars

\* The range is known with the later gap and has its polarity, or none; one
\* without a polarity is filled like a bullish zone.
Balanced(p, a, b) ==
  [earlier |-> a, later |-> b,
   polarity |-> IF p.polarity = "neutral" THEN "neutral" ELSE b.direction,
   direction |-> IF p.polarity = "neutral" THEN "bullish" ELSE b.direction,
   top |-> Overlap(a, b).top, bottom |-> Overlap(a, b).bottom, bar |-> b.third]

BalancedOf(T, p, G) ==
  {Balanced(p, x[1], x[2]) : x \in {x \in G \X G : Balances(T, p, x[1], x[2])}}

\* BprDetector.analyse
BalancedFills(F, T, p, x) == TrackZoneFill(F, T, p, x, CloseTime(T, x.bar))
=============================================================================
