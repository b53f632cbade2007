----------------------------- MODULE MCStructure ----------------------------
(***************************************************************************)
(* Small instances of Structure and DealingRanges.  Prices are 0 .. 4.     *)
(***************************************************************************)
EXTENDS DealingRanges

Bar(h, l, c) == [open |-> l, high |-> h, low |-> l, close |-> c]

\* Two narrow bars to form swings, a bar closing below and one closing above
\* them, a flat bar that gaps up, and one that pierces both ends.
MCBars ==
  {Bar(2, 1, 1), Bar(3, 2, 2), Bar(2, 0, 0), Bar(4, 1, 4), Bar(4, 4, 4), Bar(4, 0, 2)}

Default ==
  [left |-> 1, right |-> 1, tie |-> "first", minStrength |-> 0, mode |-> "close",
   breakTol |-> 0, equalTol |-> 0, choch |-> "distinct", lookback |-> 2,
   factorNum |-> 3, factorDen |-> 2]

\* The default rules; wick breaks with a tolerance; and a confirmation that
\* takes two bars, with the significance filter and tolerant labels.
MCConfigs ==
  {Default,
   [Default EXCEPT !.mode = "wick", !.tie = "all", !.choch = "synonym", !.breakTol = 1],
   [Default EXCEPT !.right = 2, !.tie = "last", !.minStrength = 1, !.equalTol = 1]}

\* The range detector with the swings of the default rules and a band of half a
\* point, and one with slower swings and no band.
MCRangeConfigs ==
  {[left |-> 1, right |-> 1, tie |-> "first", band |-> 1],
   [left |-> 1, right |-> 2, tie |-> "all", band |-> 0]}
=============================================================================
