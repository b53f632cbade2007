---------------------------- MODULE MCInversions ----------------------------
(***************************************************************************)
(* Instance of Inversions: a bar below, a bar above, one between them and   *)
(* one whose wick spans all of them; a bar lasts two units of time.         *)
(***************************************************************************)
EXTENDS Inversions

Bar(o, h, l, c) == [open |-> o, high |-> h, low |-> l, close |-> c]

MCBars == {Bar(1, 1, 0, 0), Bar(3, 5, 3, 5), Bar(3, 4, 2, 3), Bar(4, 4, 0, 2)}

Default ==
  [minGap |-> 0, measure |-> "wick", contiguous |-> TRUE, partial |-> 0, full |-> Whole,
   displacement |-> FALSE, lookback |-> 1, factor |-> 1,
   trigger |-> "close_through_far_edge", maxBarsToInvert |-> 500]

MCConfigs ==
  {Default,
   [Default EXCEPT !.measure = "body", !.partial = 1, !.full = 2, !.displacement = TRUE,
                   !.trigger = "wick_through", !.maxBarsToInvert = 2],
   [Default EXCEPT !.measure = "body", !.contiguous = FALSE, !.minGap = 1,
                   !.trigger = "close_inside_zone"]}

Bpr == [polarity |-> "later_fvg", maxBars |-> 100, minOverlap |-> 0,
        partial |-> 0, full |-> Whole]

MCBprConfigs ==
  {Bpr, [Bpr EXCEPT !.polarity = "neutral", !.maxBars = 2, !.minOverlap = 1, !.full = 2]}

MCRdrbConfigs ==
  {[directional |-> {1, 2, 4}, tolerance |-> 0, contiguous |-> TRUE,
    partial |-> 0, full |-> Whole],
   [directional |-> {}, tolerance |-> 1, contiguous |-> FALSE,
    partial |-> 1, full |-> 2]}

MCCisdConfigs ==
  {[anchor |-> "series_open", minLength |-> 1, tolerance |-> 0, contiguous |-> TRUE,
    maxBars |-> 50],
   [anchor |-> "extreme_open", minLength |-> 2, tolerance |-> 1, contiguous |-> FALSE,
    maxBars |-> 2]}
=============================================================================
