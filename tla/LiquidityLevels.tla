--------------------------- MODULE LiquidityLevels --------------------------
(***************************************************************************)
(* Where liquidity rests (ict/liquidity.py): the levels built from a frame F *)
(* whose bars open at the times T.  Bars may be missing, so times are        *)
(* explicit here; sessions, trading days and weeks are resolved from their   *)
(* local times by module Sessions.                                           *)
(***************************************************************************)
EXTENDS Swings, Sessions

CONSTANTS
  Definitions,   \* the session definitions
  WeekLength,    \* how many days a week has, the first TradingDays of which
  TradingDays,   \*   begin a trading day of the trading week
  Configs        \* the detector configurations considered

\* approach_tolerance_points = None
NoTracking == -1

ConfigType ==
  [left : Nat \ {0}, right : Nat \ {0}, tie : TiePolicies, equalTol : Nat,
   distance : Nat \ {0}, sweepTol : Nat, approachTol : Nat \cup {NoTracking},
   swingLevels : BOOLEAN, zone : ZoneType, boundary : 0 .. DayLength - 1]

ASSUME CalendarAssumption ==
  /\ Definitions \subseteq DefinitionType
  /\ \A d, e \in Definitions : d.name = e.name => d = e
  /\ \A d \in Definitions : ShortChange(d.zone)
  /\ WeekLength \in Nat \ {0} /\ TradingDays \in 1 .. WeekLength

ASSUME ConfigsAssumption ==
  Configs \subseteq ConfigType /\ \A c \in Configs : ShortChange(c.zone)

----------------------------------------------------------------------------
\* _swing_levels
SwingLevels(F, T, c) ==
  {[kind |-> "swing", side |-> x[1], from |-> x[2], to |-> x[2], created |-> x[2],
    price |-> Extreme(F[x[2]], x[1]), confirmed |-> CloseTime(T, ConfirmIndex(c, x[2]))]
      : x \in {x \in Directions \X (DOMAIN F) : c.swingLevels /\ IsPivot(F, c, x[1], x[2])}}

\* A mutant: the level rests at the nearer touch of the two.
EqualLevelNear(F, T, c, d, i, j) ==
  [kind |-> "equal", side |-> d, from |-> i, to |-> j, created |-> j,
   price |-> Extreme(F[IF Furthest(F, d, {i, j}) = i THEN j ELSE i], d),
   confirmed |-> Max({CloseTime(T, ConfirmIndex(c, i)), CloseTime(T, ConfirmIndex(c, j))})]

\* A pair of equal highs or lows rests at the further touch and is known when
\* both swings are.
EqualLevel(F, T, c, d, i, j) ==
  [kind |-> "equal", side |-> d, from |-> i, to |-> j, created |-> j,
   price |-> Extreme(F[Furthest(F, d, {i, j})], d),
   confirmed |-> Max({CloseTime(T, ConfirmIndex(c, i)), CloseTime(T, ConfirmIndex(c, j))})]

\* _equal_levels: swings of one type at most c.distance apart in their
\* sequence, within the tolerance.
IsEqualPair(F, c, d, i, j) ==
  LET swings == {k \in DOMAIN F : IsPivot(F, c, d, k)}
      gap    == Extreme(F[j], d) - Extreme(F[i], d)
  IN  /\ {i, j} \subseteq swings /\ i < j
      /\ Cardinality({k \in swings : i < k /\ k <= j}) <= c.distance
      /\ gap <= c.equalTol /\ -gap <= c.equalTol

EqualLevels(F, T, c) ==
  {EqualLevel(F, T, c, x[1], x[2], x[3]) :
     x \in {x \in Directions \X (DOMAIN F) \X (DOMAIN F) : IsEqualPair(F, c, x[1], x[2], x[3])}}

\* The extreme of a period's bars, final only at the period's end.
PeriodLevel(F, T, kind, label, w, S, d) ==
  [kind |-> kind, label |-> label, side |-> d, from |-> w.start, to |-> w.end,
   created |-> Furthest(F, d, S), price |-> Extreme(F[Furthest(F, d, S)], d),
   confirmed |-> w.end]

\* day_definition: a trading day runs from a local time to the same time of the
\* next day.
DayDefinition(c) == [name |-> "day", zone |-> c.zone, start |-> c.boundary, end |-> c.boundary]

\* _session_levels and the days of _period_levels.
WindowLevels(F, T, kind, definitions) ==
  UNION {{PeriodLevel(F, T, kind, w.name, w, Members(T, w), d) : d \in Directions} :
           w \in Occurred(definitions, T)}

\* A mutant: the day that begins when the trading week ends is counted to it.
InTradingWeekAll(day) == TRUE

\* _in_trading_week, _week_anchor: the days of a trading week and its first day.
InTradingWeek(day) == day % WeekLength < TradingDays

WeekAnchor(day) == day - (day % WeekLength)

\* _week_end: with the last of its days, whether or not that has bars.
WeekEnd(c, anchor) == ResolveWindow(DayDefinition(c), anchor + TradingDays - 1).end

\* The days of a trading week that have bars.
TradedDays(T, c) ==
  {w \in WindowsFor({DayDefinition(c)}, T) : InTradingWeek(w.day) /\ Members(T, w) # {}}

DaysOf(T, c, anchor) == {w \in TradedDays(T, c) : WeekAnchor(w.day) = anchor}

\* The weeks of _period_levels, each with those of its days.
WeekOf(T, c, anchor) ==
  [start |-> Min({w.start : w \in DaysOf(T, c, anchor)}), end |-> WeekEnd(c, anchor),
   days |-> DaysOf(T, c, anchor)]

WeeksFor(T, c) == {WeekOf(T, c, WeekAnchor(w.day)) : w \in TradedDays(T, c)}

WeekLevels(F, T, c) ==
  UNION {{PeriodLevel(F, T, "week", "week", w, UNION {Members(T, day) : day \in w.days}, d) :
            d \in Directions} : w \in {w \in WeeksFor(T, c) : Complete(T, w)}}

LevelsOf(F, T, c) ==
  IF F = <<>> THEN {}
  ELSE SwingLevels(F, T, c) \cup EqualLevels(F, T, c)
         \cup WindowLevels(F, T, "session", Definitions)
         \cup WindowLevels(F, T, "day", {DayDefinition(c)}) \cup WeekLevels(F, T, c)
=============================================================================
