---------------------------- MODULE MCMarketData ----------------------------
(***************************************************************************)
(* Small instance of MarketData: a week of one day, days of two 4H windows *)
(* of three hours, months of one day.                                      *)
(***************************************************************************)
EXTENDS MarketData

Candle(o, h, l, c) == [open |-> o, high |-> h, low |-> l, close |-> c]

Up == Candle(1, 4, 1, 3)
Down == Candle(3, 3, 0, 1)
Broken == Candle(3, 2, 1, 2)

MCBars == {Up, Down}

\* The hours that may not trade: one that never does, on any day, another that
\* misses two days.
MCMarkets == {0 .. 17 \ missing : missing \in SUBSET {1, 7, 13, 8, 14}}
MCQuote == [s \in 0 .. 17 |-> IF s % 2 = 0 THEN Up ELSE Down]
MCRows ==
  {[at |-> 2 * s, bar |-> Up] : s \in 1 .. 6}
    \cup {[at |-> 2 * s + 1, bar |-> Down] : s \in {2, 3, 5}}
    \cup {[at |-> 2 * s, bar |-> Broken] : s \in {2, 5}}
=============================================================================
