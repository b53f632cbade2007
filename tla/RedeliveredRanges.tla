-------------------------- MODULE RedeliveredRanges -------------------------
(***************************************************************************)
(* Redelivered rebalanced price ranges (ict/rdrb.py): four candles of which *)
(* the fourth stays clear of the wick of the second; the zone is what lies  *)
(* between the two wicks.                                                   *)
(***************************************************************************)
EXTENDS Zones

\* directional: which of the four candles must close in the direction.
RdrbConfigType ==
  [directional : SUBSET (1 .. 4), tolerance : Nat, contiguous : BOOLEAN,
   partial : 0 .. Whole, full : 1 .. Whole]

\* The four candles that end with bar i, and the wick each protects.
Wick(F, d, i) == Extreme(F[i], Opposite(d))

Redelivers(F, T, q, d, i) ==
  /\ i - 3 \in DOMAIN F
  /\ q.contiguous => \A k \in (i - 3) .. (i - 1) : CloseTime(T, k) = T[k + 1]
  /\ \A n \in q.directional : Beyond(d, F[i - 4 + n].close, F[i - 4 + n].open)
  /\ Distance(d, Wick(F, d, i), Wick(F, d, i - 2)) > q.tolerance

Redelivered(F, d, i) ==
  LET wicks == {Wick(F, d, i), Wick(F, d, i - 2)}
  IN  [direction |-> d, top |-> Max(wicks), bottom |-> Min(wicks), bar |-> i]

RedeliveredOf(F, T, q) ==
  {Redelivered(F, x[1], x[2]) :
     x \in {x \in Directions \X (DOMAIN F) : Redelivers(F, T, q, x[1], x[2])}}

\* RdrbDetector.analyse
RedeliveredFills(F, T, q, x) == TrackZoneFill(F, T, q, x, CloseTime(T, x.bar))
=============================================================================
