------------------------------ MODULE MCDataset ------------------------------
(***************************************************************************)
(* Instance of Dataset: a bar that rises, one that falls, and one with long *)
(* wicks on both sides; six specifications, two of which are refused or     *)
(* have no target at all.                                                   *)
(***************************************************************************)
EXTENDS Dataset

Bar(o, h, l, c) == [open |-> o, high |-> h, low |-> l, close |-> c]

MCBars == {Bar(1, 3, 1, 3), Bar(2, 2, 0, 0), Bar(1, 4, -2, 1)}

Return(h)    == [kind |-> "future_return", horizon |-> h]
Excursions(h) == [kind |-> "excursion", horizon |-> h]
Class(h, x)  == [kind |-> "direction", horizon |-> h, threshold |-> x]
Trade(h, side, tp, sl) ==
  [kind |-> "tp_before_sl", horizon |-> h, side |-> side, takeProfit |-> tp, stopLoss |-> sl]

Split(train, validation, embargo) ==
  [trainEnd |-> train, validationEnd |-> validation, embargo |-> embargo]

MCSpecs ==
  {[targets |-> {Return(1), Trade(3, "bullish", 1, 2)}, split |-> Split(3, 5, 3)],
   [targets |-> {Class(2, 1), Trade(2, "bearish", 3, 1)}, split |-> Split(2, 4, 2)],
   [targets |-> {Excursions(2), Class(1, 0)}, split |-> Split(3, 3, 4)],
   [targets |-> {Trade(2, "bearish", 1, 3)}, split |-> NoSplit],
   [targets |-> {}, split |-> Split(2, 4, 1)],
   [targets |-> {Return(2)}, split |-> Split(2, 4, 0)]}

MCSamples == {{1, 2, 4}}

\* Some of the barriers that a bar touches exactly are missed, others are not.
MCOvershoots == {<<"bullish", 1, 1>>, <<"bearish", 3, 3>>, <<"bullish", 3, 1>>}
=============================================================================
