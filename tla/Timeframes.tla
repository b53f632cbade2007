----------------------------- MODULE Timeframes -----------------------------
(***************************************************************************)
(* Higher timeframes built from one series of bars: aggregation and the    *)
(* alignment of the result (data/resampler.py), the account of what is     *)
(* missing (data/coverage.py) and the production 4H builder                *)
(* (data/production_ingest.py).                                            *)
(*                                                                         *)
(* Time is counted in bars of the source timeframe: slot s opens at s and  *)
(* closes at s + 1.  A frame is a function from the slots that have a bar; *)
(* period p of a timeframe of n slots is the slots SlotsOf(n, p).          *)
(***************************************************************************)
EXTENDS Candles, FiniteSets, FiniteSetsExt

CONSTANTS
  HoursPerH4,       \* source bars in a 4H bar
  DayLength,        \* source bars in a UTC day
  WeekLength,       \* days in a week
  MinOccurrences    \* how often a weekday must be seen before "recurring" means anything

ASSUME TimeframesAssumption ==
  /\ {HoursPerH4, DayLength, WeekLength, MinOccurrences} \subseteq Nat \ {0}
  /\ DayLength % HoursPerH4 = 0

PeriodOf(n, s) == s \div n

SlotsOf(n, p) == n * p .. n * p + n - 1

Periods(n, frame) == {PeriodOf(n, s) : s \in DOMAIN frame}

\* The grid from the first bar to the last.
Extent(frame) == Min(DOMAIN frame) .. Max(DOMAIN frame)

\* The frame as it was when only the slots before e had been observed.
Before(frame, e) == [s \in {t \in DOMAIN frame : t < e} |-> frame[s]]

----------------------------------------------------------------------------
\* resample, with drop_boundary_incomplete.

CloseTime(n, p) == n * p + n

ObservedStart(frame) == Min(DOMAIN frame)
ObservedEnd(frame) == Max(DOMAIN frame) + 1

\* A mutant: the end of the period is not compared with the observed end.
InsideStart(n, frame, p) == n * p >= ObservedStart(frame)

Inside(n, frame, p) ==
  n * p >= ObservedStart(frame) /\ CloseTime(n, p) <= ObservedEnd(frame)

Aggregate(n, frame, p) ==
  LET inside == SlotsOf(n, p) \cap DOMAIN frame IN
  [open  |-> frame[Min(inside)].open,
   high  |-> Max({frame[s].high : s \in inside}),
   low   |-> Min({frame[s].low : s \in inside}),
   close |-> frame[Max(inside)].close]

Resample(n, frame) ==
  [p \in {q \in Periods(n, frame) : Inside(n, frame, q)} |-> Aggregate(n, frame, p)]

ClosedBy(n, bars, t) == {p \in DOMAIN bars : CloseTime(n, p) <= t}

\* latest_closed_bar, and align_htf_context for the bar of slot s: the last
\* higher bar closed by the close of s, or nothing.
LatestClosedBar(n, bars, t) ==
  {<<p, bars[p]>> : p \in {q \in ClosedBy(n, bars, t) :
                             \A r \in ClosedBy(n, bars, t) : r <= q}}

Context(n, bars, s) == LatestClosedBar(n, bars, CloseTime(1, s))

----------------------------------------------------------------------------
\* SessionProfile and coverage_report.

WeekSlot(s) == <<(s \div DayLength) % WeekLength, s % DayLength>>

\* is_closed: the time of the week was on the grid often enough, and never seen.
IsClosed(frame, s) ==
  LET alike == {t \in Extent(frame) : WeekSlot(t) = WeekSlot(s)} IN
  alike \cap DOMAIN frame = {} /\ Cardinality(alike) >= MinOccurrences

Missing(n, frame, p) == (SlotsOf(n, p) \cap Extent(frame)) \ DOMAIN frame

\* A mutant: a period that ends with the data is not finished.
BoundaryAtEnd(n, frame, p) ==
  n * p < ObservedStart(frame) \/ CloseTime(n, p) >= ObservedEnd(frame)

Boundary(n, frame, p) ==
  n * p < ObservedStart(frame) \/ CloseTime(n, p) > ObservedEnd(frame)

LongestRun(slots) ==
  Max({0} \cup {Cardinality(r) : r \in {a .. b : a, b \in slots} \cap SUBSET slots})

Quality(n, frame, p) ==
  IF Boundary(n, frame, p) THEN "boundary_incomplete"
  ELSE IF SlotsOf(n, p) \subseteq DOMAIN frame THEN "complete"
  ELSE IF \A s \in Missing(n, frame, p) : IsClosed(frame, s) THEN "market_gap"
  ELSE "degraded_unknown"

\* BarCoverage of every period with a bar.
CoverageReport(n, frame) ==
  [p \in Periods(n, frame) |->
     [quality |-> Quality(n, frame, p),
      missing |-> Cardinality(Missing(n, frame, p)),
      longest |-> LongestRun(Missing(n, frame, p))]]

ProductionEligible(bar) == bar.quality # "boundary_incomplete"

----------------------------------------------------------------------------
\* build_h4_from_native_h1.

MissingHours(frame, p) == SlotsOf(HoursPerH4, p) \ DOMAIN frame

\* The window is not fully inside the observed data.
AtEdge(frame, p) == ~(SlotsOf(HoursPerH4, p) \subseteq Extent(frame))

ClosedHours(frame, p) == {h \in MissingHours(frame, p) : IsClosed(frame, h)}

\* A mutant: the window is emitted when every absent hour is proven shut.
DispositionClosed(frame, p) ==
  IF AtEdge(frame, p) THEN "withheld_boundary"
  ELSE IF ClosedHours(frame, p) = MissingHours(frame, p) THEN "emitted"
  ELSE "withheld_undetermined"

Disposition(frame, p) ==
  IF AtEdge(frame, p) THEN "withheld_boundary"
  ELSE IF MissingHours(frame, p) = {} THEN "emitted"
  ELSE IF ClosedHours(frame, p) = MissingHours(frame, p) THEN "withheld_market_closed"
  ELSE "withheld_undetermined"

\* H4Window.cause.
WindowCause(frame, p) ==
  IF MissingHours(frame, p) = {} THEN "none"
  ELSE IF ClosedHours(frame, p) = MissingHours(frame, p) THEN "market_closed"
  ELSE "undetermined"

BuildH4(frame) ==
  [p \in {q \in Periods(HoursPerH4, frame) : Disposition(frame, q) = "emitted"} |->
     Aggregate(HoursPerH4, frame, p)]
=============================================================================
