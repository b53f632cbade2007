----------------------------- MODULE MCBreakers -----------------------------
(***************************************************************************)
(* Instance of MarketState.  A chart is an opening that leaves a pivot and  *)
(* an order block behind, or a candle that can become one, then any three   *)
(* bars out of six shapes: down-close candles at four heights, an up-close  *)
(* one and a doji with long wicks; or the same turned upside down.  A bar   *)
(* lasts two units of time, and one may be missing before the last or the   *)
(* one before it.                                                           *)
(***************************************************************************)
EXTENDS MarketState

Bar(o, h, l, c) == [open |-> o, high |-> h, low |-> l, close |-> c]

Shapes ==
  {Bar(2, 3, 0, 1), Bar(2, 5, 2, 5), Bar(5, 6, 4, 4), Bar(4, 4, 0, 0), Bar(1, 1, -1, -1),
   Bar(3, 5, -1, 3)}

UpsideDown(b) == Bar(5 - b.open, 5 - b.low, 5 - b.high, 5 - b.close)

Openings == {<<Bar(3, 4, 1, 3), Bar(2, 3, 0, 1), Bar(2, 5, 2, 5)>>, <<Bar(2, 3, 0, 1), Bar(2, 3, 2, 2)>>}

Drawn == {x[1] \o x[2] : x \in Openings \X [1 .. 3 -> Shapes]}

MCBars ==
  LET drawn == Shapes \cup {Bar(3, 4, 1, 3), Bar(2, 3, 2, 2)} IN drawn \cup {UpsideDown(b) : b \in drawn}

\* The open times of n bars with m bars missing before bar k.
Times(n, k, m) == [i \in 1 .. n |-> 2 * (IF i < k THEN i ELSE i + m)]

Chart(F, m) == [bars |-> F, times |-> Times(Len(F), Len(F) - m, 1)]

Contiguous(F) == [bars |-> F, times |-> Times(Len(F), 1, 0)]

MCCharts ==
  UNION {LET U == [i \in DOMAIN F |-> UpsideDown(F[i])] IN
         {Contiguous(F), Chart(F, 0), Contiguous(U), Chart(U, 1)} : F \in Drawn}

Structural ==
  [left |-> 1, right |-> 1, tie |-> "all", minStrength |-> 0, mode |-> "close",
   breakTol |-> 0, equalTol |-> 0, choch |-> "synonym", lookback |-> 2,
   factorNum |-> 3, factorDen |-> 2]

MCConfigs == {Structural, [Structural EXCEPT !.mode = "wick"]}

Gaps == [minGap |-> 0, measure |-> "wick", contiguous |-> TRUE,
         displacement |-> FALSE, lookback |-> 1, factor |-> 1]

DefaultBlocks ==
  [grouping |-> "multi_candle_group", geometry |-> "full_range", breakTol |-> 0,
   maxBarsToConfirm |-> 50, contiguous |-> TRUE, requireGap |-> FALSE,
   displacement |-> FALSE, lookback |-> 1, factor |-> 1, partial |-> 0,
   full |-> Blocks!Whole, gaps |-> Gaps]

Default == [blocks |-> DefaultBlocks, mode |-> "close", requireStructure |-> TRUE,
            window |-> 20, partial |-> 0, full |-> Blocks!Whole]

\* The default rules; single candles bounded by their bodies, with tolerances
\* and short windows; a gap required instead of a structure break; and
\* failures by a wick of blocks that needed displacement.
MCBreakerConfigs ==
  {Default,
   [Default EXCEPT !.window = 1, !.partial = 1, !.full = 2,
      !.blocks = [DefaultBlocks EXCEPT !.grouping = "single_candle", !.geometry = "body",
                    !.breakTol = 1, !.maxBarsToConfirm = 2, !.partial = 1, !.full = 3]],
   [Default EXCEPT !.requireStructure = FALSE,
      !.blocks = [DefaultBlocks EXCEPT !.contiguous = FALSE, !.requireGap = TRUE]],
   [Default EXCEPT !.mode = "wick",
      !.blocks = [DefaultBlocks EXCEPT !.displacement = TRUE]]}

MCUnicornConfigs ==
  {[maxBars |-> 50, minOverlap |-> 0, contained |-> FALSE, gaps |-> Gaps,
    partial |-> 0, full |-> Blocks!Whole],
   [maxBars |-> 1, minOverlap |-> 0, contained |-> TRUE,
    gaps |-> [Gaps EXCEPT !.measure = "body", !.contiguous = FALSE],
    partial |-> 1, full |-> 2]}

MCRangeConfigs == {[left |-> 1, right |-> 1, tie |-> "all", band |-> DefaultBand]}

\* A day is four bars long on the clock; the clocks are put forward while the
\* frame lasts.
NewYork == [before |-> -3, after |-> -2, change |-> 9]

MCDefinitions == {[name |-> "london", zone |-> NewYork, start |-> 1, end |-> 5]}

MCEngine ==
  [gaps |-> [minGap |-> 0, measure |-> "wick", contiguous |-> TRUE, partial |-> 0,
             full |-> Blocks!Whole, displacement |-> FALSE, lookback |-> 1, factor |-> 1,
             trigger |-> "close_through_far_edge", maxBarsToInvert |-> 500],
   balanced |-> [polarity |-> "later_fvg", maxBars |-> 100, minOverlap |-> 0,
                 partial |-> 0, full |-> Blocks!Whole],
   redelivered |-> [directional |-> {}, tolerance |-> 0, contiguous |-> TRUE,
                    partial |-> 0, full |-> Blocks!Whole],
   delivery |-> [anchor |-> "series_open", minLength |-> 1, tolerance |-> 0,
                 contiguous |-> TRUE, maxBars |-> 50],
   unicorn |-> [maxBars |-> 50, minOverlap |-> 0, contained |-> FALSE, gaps |-> Gaps,
                partial |-> 0, full |-> Blocks!Whole],
   range |-> [left |-> 1, right |-> 1, tie |-> "all", band |-> DefaultBand],
   liquidity |-> [left |-> 1, right |-> 1, tie |-> "all", equalTol |-> 1, distance |-> 1,
                  sweepTol |-> 0, approachTol |-> -1, swingLevels |-> TRUE,
                  zone |-> NewYork, boundary |-> 5],
   daily |-> [zone |-> NewYork, open |-> 0]]

\* An equilibrium of two points on each side instead of half a point.
MCWideRangeConfigs == {[r EXCEPT !.band = 4] : r \in MCRangeConfigs}

MCWideEngine == [MCEngine EXCEPT !.range.band = 4]
=============================================================================
