------------------------------- MODULE Targets -------------------------------
(***************************************************************************)
(* Prediction targets (features/targets.py): the questions a dataset asks   *)
(* about the bars after an observation, and TargetEngine's answers.  An     *)
(* observation is made at the close of bar i of a frame F; the only prices  *)
(* it may use are the close of bar i, the reference, and the bars of its    *)
(* window, i + 1 .. i + horizon.                                            *)
(***************************************************************************)
EXTENDS Candles, FiniteSets, FiniteSetsExt

\* Where an extreme is exactly a barrier's price, the float that was computed for
\* the barrier may lie beyond the float of that price: 1.1 + 1e-5 > 1.10001.  The
\* set has the barriers, as <<side, reference, distance>>, for which it does; which
\* ones is up to the floats.  Moves and excursions are rounded to points (_points).
CONSTANT Overshoots

ASSUME OvershootsAssumption == Overshoots \subseteq Directions \X Int \X Nat

\* A bar that carries a non-finite price.
Malformed == [malformed |-> TRUE]

Finite(bar) == bar # Malformed

\* No bar: positions start at 1.
NoBar == 0

\* TargetSpec; a LONG trade is "bullish", a SHORT one "bearish".
TargetSpecType ==
  [kind : {"future_return", "excursion"}, horizon : Nat \ {0}]
  \cup [kind : {"direction"}, horizon : Nat \ {0}, threshold : Nat]
  \cup [kind : {"tp_before_sl"}, horizon : Nat \ {0}, side : Directions,
        takeProfit : Nat \ {0}, stopLoss : Nat \ {0}]

----------------------------------------------------------------------------
\* _value_at_index

\* A mutant: any later bar is enough.
CompletePartly(F, s, i) == i < Len(F)

\* The whole window has been observed.
Complete(F, s, i) == i + s.horizon <= Len(F)

\* The last bar of the window that exists.
Last(F, s, i) == Min({i + s.horizon, Len(F)})

Window(F, s, i) == (i + 1) .. Last(F, s, i)

WindowEnd(F, s, i) == IF Complete(F, s, i) THEN i + s.horizon ELSE NoBar

Answer(F, s, i, answer, bar) ==
  [resolved |-> TRUE, reason |-> "none", answer |-> answer, decided |-> bar,
   windowEnd |-> WindowEnd(F, s, i)]

NoAnswer(F, s, i, reason, bar) ==
  [resolved |-> FALSE, reason |-> reason, answer |-> <<>>, decided |-> bar,
   windowEnd |-> WindowEnd(F, s, i)]

\* A price at or beyond a barrier, as the float comparison sees it.
Crossed(side, price, reference, distance) ==
  LET reach == Distance(side, price, reference) IN
  \/ reach > distance
  \/ reach = distance /\ <<side, reference, distance>> \notin Overshoots

\* A mutant: the barriers do not change sides with the trade.
TouchesSameSide(F, s, i, side, distance, k) ==
  LET up == IF distance = s.takeProfit THEN "bullish" ELSE "bearish"
  IN  Crossed(up, Extreme(F[k], up), F[i].close, distance)

\* Bar k reaches the barrier that lies a distance away on one side of the
\* reference.
Touches(F, s, i, side, distance, k) ==
  Crossed(side, Extreme(F[k], side), F[i].close, distance)

\* _tp_before_sl: the first bar of the window that touches a barrier decides,
\* even if the window runs off the end of the data; one that touches both, or
\* has no price, leaves the race undecided.
Race(F, s, i) ==
  LET bad    == {k \in Window(F, s, i) : ~Finite(F[k])}
      profit == {k \in Window(F, s, i) \ bad : Touches(F, s, i, s.side, s.takeProfit, k)}
      loss   == {k \in Window(F, s, i) \ bad :
                   Touches(F, s, i, Opposite(s.side), s.stopLoss, k)}
      first  == Min(bad \cup profit \cup loss)
  IN  IF bad \cup profit \cup loss = {}
      THEN NoAnswer(F, s, i, IF Complete(F, s, i) THEN "no_touch_within_horizon"
                             ELSE "insufficient_history", NoBar)
      ELSE IF first \in bad THEN NoAnswer(F, s, i, "malformed_future_bar", NoBar)
      ELSE IF first \in profit \cap loss
      THEN NoAnswer(F, s, i, "same_bar_ambiguity", first)
      ELSE Answer(F, s, i, IF first \in profit THEN <<"tp_first">> ELSE <<"sl_first">>, first)

\* The highest high above and the lowest low below the reference.
Excursion(F, s, i) ==
  IF \E k \in Window(F, s, i) : ~Finite(F[k])
  THEN NoAnswer(F, s, i, "malformed_future_bar", NoBar)
  ELSE Answer(F, s, i, <<Max({F[k].high : k \in Window(F, s, i)}) - F[i].close,
                         F[i].close - Min({F[k].low : k \in Window(F, s, i)})>>, NoBar)

\* The move to the last close of the window, as it is or classified, UP first.
Move(F, s, i) ==
  LET final == F[Last(F, s, i)]
      move  == final.close - F[i].close
  IN  IF ~Finite(final) THEN NoAnswer(F, s, i, "malformed_future_bar", NoBar)
      ELSE IF s.kind = "future_return" THEN Answer(F, s, i, <<move>>, NoBar)
      ELSE Answer(F, s, i, IF move >= s.threshold THEN <<"up">>
                           ELSE IF move <= -s.threshold THEN <<"down">>
                           ELSE <<"neutral">>, NoBar)

TargetValue(F, s, i) ==
  IF ~Finite(F[i]) THEN NoAnswer(F, s, i, "malformed_future_bar", NoBar)
  ELSE IF s.kind = "tp_before_sl" THEN Race(F, s, i)
  ELSE IF ~Complete(F, s, i) THEN NoAnswer(F, s, i, "insufficient_history", NoBar)
  ELSE IF s.kind = "excursion" THEN Excursion(F, s, i)
  ELSE Move(F, s, i)
=============================================================================
