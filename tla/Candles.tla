------------------------------ MODULE Candles ------------------------------
(***************************************************************************)
(* Closed candles and the frames the detectors walk (domain/candle.py).    *)
(* A frame is sorted by open time and every bar has the same duration, so  *)
(* close times increase strictly with the position of the bar: a position  *)
(* stands for the bar, for its open time (event_timestamp) and for its     *)
(* close time (confirmation_timestamp).  Prices are whole instrument       *)
(* points.                                                                 *)
(***************************************************************************)
EXTENDS Integers, Sequences

CONSTANT Bars                       \* the candles a frame may be made of

\* The OHLC rule MarketCandle and validate_frame enforce on every bar.
WellFormed(bar) ==
  /\ bar \in [open : Int, high : Int, low : Int, close : Int]
  /\ bar.low <= bar.open  /\ bar.open <= bar.high
  /\ bar.low <= bar.close /\ bar.close <= bar.high

ASSUME BarsAssumption == \A bar \in Bars : WellFormed(bar)

\* Direction of contract.py, without its NEUTRAL member: a swing high, a
\* break of a high and a long zone are "bullish", their mirrors "bearish".
Directions == {"bullish", "bearish"}

Opposite(d) == IF d = "bullish" THEN "bearish" ELSE "bullish"

\* x lies strictly further than y in direction d.
Beyond(d, x, y) == IF d = "bullish" THEN x > y ELSE x < y

\* How far x lies beyond y in direction d, in points; negative if it does not.
Distance(d, x, y) == IF d = "bullish" THEN x - y ELSE y - x

\* The end of the bar that direction d is about.
Extreme(bar, d) == IF d = "bullish" THEN bar.high ELSE bar.low

BarRange(bar) == bar.high - bar.low
=============================================================================
