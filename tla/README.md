# Formal models of the ICT-Kronos market engine

TLA+ models of `ict_kronos`, a deterministic engine that ingests foreign-exchange market
data, detects market structure in it (swings, breaks, liquidity, gaps, order blocks ...)
and joins what it found with prediction targets into training datasets. The engine has one
overriding promise, *nothing is used before it was knowable*, and a pipeline that must not
lose, invent or silently change data. Both promises span many bars, several modules, or
several processes, which is what the models are for.

Every module is translated from the Python source; `PROJECT.json` names, for each
definition, the file and lines it stands for.

## 1. The system

### Components, their state and how they interact

| Component | State it keeps | Operations | Used by |
|---|---|---|---|
| `data/backfill` (`TickBackfill`) | cache files, one per hour; outcomes of a day's jobs; the growing result | `run` by UTC day, a pool of workers downloading hours, retries | `cli`, `realdata` |
| `data/dukascopy` | none | hours in a window, decoding | backfill, provider |
| `data/production_ingest`, `data/dukascopy_candles` | cache files, one per month | native 1H and D1 candles, 4H built from 1H | `cli` |
| `data/normalizer`, `data/resampler`, `data/coverage` | none | grid, sort, dedupe, quarantine, gaps; aggregation, alignment; why bars are missing | all readers |
| `data/ingest` (`IngestPipeline`) | the result of the run | fetch each pair, store, write the manifest | `cli` |
| `data/realdata` (`RealDataPipeline`) | the result, the provenance of a symbol | backfill each symbol, derive a stack of timeframes, store, write the manifest | `cli` |
| `storage/parquet_store` | one file per symbol, timeframe and year | immutable `write`, `read` | ingest, realdata |
| `storage/manifest` | one JSON file per dataset version | `write`, `read`, `verify` | ingest, realdata, `cli` |
| `ict/swings` | none | pivots with a confirmation lag | structure, liquidity, ranges |
| `ict/structure` | walk: references, predecessor, state | labels, breaks, `state_at`, `observable_at` | breakers, ranges, market state |
| `ict/liquidity`, `ict/sessions` | walk: pending, active, status | levels, sweeps, `active_at`, `observable_at` | market state |
| `ict/fvg`, `ict/ifvg`, `ict/composites` | walk: active zones, deepest fill | gaps, fills, inversions | order blocks, unicorn, market state |
| `ict/order_blocks`, `ict/breakers` | analysis lists | blocks, failures, promoted breakers | unicorn, market state |
| `ict/bpr`, `rdrb`, `cisd`, `unicorn`, `dealing_range`, `true_daily_open` | analysis lists | further composites over the above | market state |
| `ict/market_state`, `feature_vector` | the analyses of one frame | `state_at` reads all of them at one instant | dataset |
| `features/targets`, `splits`, `dataset` | none; datasets are values | answer targets, assign splits with an embargo, build rows | production |
| `features/production`, `audit`, `domain`, `app`, `cli` | none | tables, counts, settings, arguments | |

Data flow one way: feed → cache → normalised bars → partitions and manifest → detectors →
market state and targets → dataset rows. Detectors call each other (an order block asks
the gap detector, a breaker asks order blocks and structure) and always over the *whole*
frame they are given; that the answers for an earlier bar do not depend on the later ones
is therefore a property of the algorithms, not of what they can see.

### What is hard here

* **Look-ahead.** A detector is handed the complete history. An admission one bar early, a
  search that takes another hit than the first, an extreme taken from an unclosed bar: none
  of these fails a test on one frame, all of them leak the future.
* **Histories.** References, states, lifecycles (active, approached, swept; partially
  filled, mitigated, inverted, invalidated) evolve over many bars. Several implementations
  of one concept must agree, and dated records must say what the walk once believed.
* **Concurrency and failure.** The backfill runs downloads in a thread pool; I/O errors
  surface in another order than they occur; processes die between creating and filling a
  file; runs are repeated over what earlier runs left behind.
* **Partial failure.** A run over several symbols, timeframes and years is many writes and
  one manifest; native months are missing, padded, or cached before they were complete.
* **Local time.** Sessions, days and weeks are local: clocks go forward and back, days have
  missing bars, and a bar can span the instant that ends a session.
* **Growing data.** A dataset is built again from more data; answers and split labels of a
  row must not move.

`PROJECT.json` lists each hazard at the line where it bites, with the properties that cover it.

## 2. Modules

| Module | Models | Built on |
|---|---|---|
| `Candles` | `domain/candle.py`: bars, the OHLC rule, directions | |
| `Swings` | `ict/swings.py`: pivots, tie policies, confirmation, significance | `Candles` |
| `StructureRules` | naming and testing of breaks, labels, `state_at` | `Swings` |
| `LiveStructure` | **abstract**: what structure promises a live consumer | `StructureRules` |
| `Structure` | the walk of `StructureDetector.analyse` | `StructureRules`, `LiveStructure` |
| `DealingRanges` | `ict/dealing_range.py` over the breaks of the walk | `Structure` |
| `Sessions` | `ict/sessions.py`, `ict/true_daily_open.py`: local windows, completed and running sessions, days, weeks, opening prices | `Candles` |
| `LiquidityLevels`, `Liquidity` | `ict/liquidity.py`: levels; the sweep walk | `Swings`, `Sessions` |
| `Zones` | gaps, edges, fill fractions, `composites.track_zone_fill` | `Candles` |
| `FairValueGaps`, `InvertedGaps`, `BalancedRanges`, `RedeliveredRanges`, `Delivery` | `ict/fvg.py` (with its walk), `ifvg.py`, `bpr.py`, `rdrb.py`, `cisd.py` | `Zones` |
| `Inversions` | these five over one frame | the five |
| `OrderBlocks`, `Breakers` | `ict/order_blocks.py`; `ict/breakers.py` composed with the structure walk | `Zones`, `Structure` |
| `Unicorns`, `Composites` | `ict/unicorn.py`; blocks, breakers, gaps and unicorns over one frame | `Zones`, `Breakers` |
| `MarketState` | `ict/market_state.py`: the engine view, `state_at`, bias | `Composites`, `DealingRanges`, instances of all the others |
| `Ingest` | `data/ingest.py` and `data/realdata.py` with `storage/parquet_store.py`, `storage/manifest.py` | |
| `Backfill` | `data/backfill.py`: days, workers, cache, retries, crashes | |
| `Timeframes` | `data/resampler.py`, `data/coverage.py`, the 4H builder | `Candles` |
| `Normalization` | `data/normalizer.py` | `Timeframes` |
| `MarketData` | `data/production_ingest.py` with `data/dukascopy_candles.py`, and the frames handed to the above | `Normalization` |
| `Targets`, `Dataset` | `features/targets.py`, `splits.py`, `dataset.py` over growing data | `Candles` |
| `Extrema` | lemmas on least, greatest and furthest elements, for all proofs | `Candles` |
| `*Proofs` | proofs about the module named; `StructureProofs` has those of `DealingRanges`, `Breakers`, `Composites`, `MarketState` and of the refinement too | |
| `MC*` | the instances TLC checks | |

### How state and actions correspond to the code

**Time.** Bars are sorted by open time and have one duration, so a bar's position stands for
its close time (`confirmation_timestamp`) wherever only the order matters (`Structure`,
`Targets`). Where missing bars or period ends matter (`Liquidity`, `Zones`, `Breakers`), the
open times are a second sequence and a close time is open plus duration. `Timeframes`
counts time in bars of the source series; a frame is a function from the slots that have a
bar. Local time is an offset that changes once, by less than a day; a day has a parameter's
length. Prices are whole points.

**Walks.** `Structure`, `Liquidity` and `FairValueGaps` have the variables of the loop in
the code, plus the bar index; one step is one iteration of the loop, admission and tests
included. `Structure` has one action per branch of its if / elif. The frame is chosen in
`Init` and complete before the walk starts, as in the code.

**Batch detectors** (`DealingRanges`, `InvertedGaps`, `BalancedRanges`, `RedeliveredRanges`,
`Delivery`, `OrderBlocks`, `Breakers`, `Unicorns`, `Targets`) keep no state in the code; they
are operators over a frame, and the models compare what they return for the bars so far
with what they return for one bar more, with one another, or with what the walk knew.

**`MarketState`.** `View(n)` is the engine view over the first n bars: every section of it is
the operator of the detector concerned. `StateAt(view, k)` asks the view about bar k, as
`state_at` does, with each section's own rule for what is active, dead or too old.

**`Ingest`.** One action per file operation: fetching a unit, refusing, beginning and
ending a partition file, a failing write, the end of a series, and the four ends of a run
(nothing to record, manifest refused, begun, finished). A *unit* is what one `try` of the
code covers: a pair of an ingest, or all the timeframes of a symbol of a backfill, whose
series join the result one by one and whose provenance joins it at the end. A crash may
come between any two steps. Requests are sets, taken in any order. A file that was begun
and not ended is `Partial`.

**`Backfill`.** Variables are the cache, the feed's late hours, one job record per hour, and
the position of the caller. Actions of a worker: read a cache file, get, answer, pause,
give up, open the file, end writing it, raise. Actions of the caller: hand out a day,
surface an exception in the order of the hours, cancel, gather, finish. Bars and tick
counts are abstracted to the set of decoded hours.

**`MarketData`.** Two lanes that end in a frame. In the native lane a run reads or downloads
one month file after another; a download may fail, be cut by a crash (which leaves an empty
file, trusted from then on, or a torn one, which stops every later run), answer 404 for a
month that has not begun, or return a month that is still growing, which is cached all the
same; padding rows are dropped and the result is cut to the window. In the rows lane rows
arrive one at a time and are normalised. The provider's clock moves by itself.

**`Dataset`.** `Ingest` appends a bar to the frame, `Build` builds a dataset from what is
there, at every close or at sampled ones. The features of a row are left out. A split
boundary is the first bar that closes at or after it. Prices are whole points, with one
exception: the barrier of a race is an unrounded float sum, which at an exact touch may lie
beyond the price it stands for. The constant `Overshoots` names the barriers for which it
does (a function of the reference, the distance and the side, the same for both sides of a
trade); excursions, moves and directions are rounded by `_points` and need no such constant.

## 3. What is checked

`TypeOK` is listed where it says more than that. All runs finish within three minutes.

| Run | Instance and bounds | Properties |
|---|---|---|
| `structure` | all frames of ≤ 6 bars of 6 shapes, 3 configurations (close and wick breaks, tolerances, CHOCH policies), 2 of the ranges | `TypeOK`, `BrokenOnce`, `ReferencesFresh`, `BreakChain`, `PendingUnbroken`, `BarsClassifiedOnce`, `RangesKnowable`, and `LiveReplay`: the walk implements `LiveStructure` |
| `liquidity` | ≤ 6 bars of 4 shapes, bars may be missing, days of 4 units with two bars, weeks of 3 days with 2 of trading, clocks put forward or back, 2 configurations | `LevelsKnowable`, `SweptByFirstExceedance`, `StatusRecoverable`, `NestedSwept`, `RunningMeetsCompleted` |
| `inversions` | ≤ 6 bars of 4 shapes with gaps in time, 3 gap configurations, 2 of each composite | `TrackersAgree`, `InvertedAreMitigated`, `BalancedAreTraded`, `DeliveryChain`, `ZonesKnowable` |
| `breakers` | charts of 5 or 6 bars: 2 openings, then 3 bars of 6 shapes, both ways up, one bar missing or none; 2 structure × 4 breaker × 2 unicorn configurations, an engine with every detector | `SourcesSpent`, `WithTheTrend`, `DeathsFollowFills`, `SectionsAgree`, `StatesReplayed`, `PublishedOnTime`, `StatusKept` |
| `ingest` | 2 symbols × 2 timeframes × 2 years × 2 versions, an ingest and two backfills to choose from, 2 runs, with and without overwrite, crashes and I/O errors; 3.5 M states | `ManifestFaithful`, `OnlyOverwriteInvalidates` |
| `backfill` | 3 hours, a day of two hours, windows from and to any half hour, 1 or 2 workers, 1 retry, 3 runs, one hour published late | `EveryHourAccounted`, `RepeatIdentical`, `EmptyMeansClosed`, and the liveness property `RunEnds` |
| `market_data` | 4H bars of 3 hours, days of 6, 3 months of one day; markets that lack any of 5 hours; the clock inside and after the last month, 4 windows, 2 runs; 4 rows out of copies, corrections and broken bars; 839 k states | `H4FromFourTraded`, `SuccessMeansComplete`, `AccountsAgree`, `ContextsSettled`, `LastCopyWins` |
| `dataset` | data growing to 5 bars of 3 shapes or without a finite price, 6 specifications, exact touches of barriers that overshoot and of others | `WindowsSealed`, `RacesAgree`, `AnsweredForGood`, `LabelsOnlyTighten` |

Why the bounds suffice. A swing needs three bars with the configured strength of one, a
break one more, a reversal two swings and two breaks: six bars hold a reversal whose
reference was replaced in between, and two ranges one of which supersedes the other. A
breaker needs a swing, a block, its confirmation, its failure and the structure break; the
openings of the `breakers` charts leave a pivot and a candidate block behind, so that three
bars more reach breakers, unicorns and their deaths under every configuration, and one
missing bar distinguishes rules that count bars from rules that compare instants. Two
days and a half of `liquidity` hold a session that ends inside a bar, one that the change of
clocks shortens or empties, and a week that ends before it is full. Two versions, symbols,
timeframes and years are the least that let one overwrite, miss or contradict another, and
a backfill of one symbol meets the files of an ingest of the other timeframe. Three hours
in days of two put a boundary of days inside a window; two workers let one raise while the
other works; a third run sees what an interrupted and a repeated one left. A 4H bar of
three hours can lack its first, inner or last hour; three days give a weekday twice the
occurrences that "recurring" needs; the second run meets the months the first one cached.
Horizons up to three among five bars let windows end before, on and after either boundary
and run off the data.

Every property is known to be violated by at least one plausible bug, a *mutant* defined
next to the code it changes (`\* A mutant:`), listed in `PROJECT.json`.

Deadlock is checked only in `dataset`, where a build is always possible. The other systems
stop by design: a walk ends with its frame, and the number of runs is bounded.

**Fairness.** Only `backfill` uses any: `WF_vars(Work)`, some thread of a run that can move
does. It holds because each request has a timeout, each back-off sleep is finite and the
operating system schedules runnable threads. Nothing is assumed of the feed (it may fail
for ever) nor of which thread moves. No property of the other modules needs fairness: they
are safety properties of loops over finite frames.

### Where the code and its documentation disagree

Each is a run that is expected to end in a violation, with a finding in `PROJECT.json`.

* `ingest_provenance`: partitions stay on disk that no manifest lists, when a manifest or a
  later year is refused after the partitions before it were written.
* `backfill_restart`: the cache is documented to make a backfill restartable; a crash
  between opening and filling a cache file makes the hour look like a closed market.
* `market_state_zone`: the market state promises not to reclassify anything; its zone comes
  from a new detector that ignores the equilibrium tolerance of the injected one.
* `dataset_sealed`: a row whose window runs off the data is documented as unresolved and so
  not leaking; a take-profit race is resolved early, and its row stays in a split although
  a bar of the next one decided it.

Others were met while translating. The models do what the code does; no run is spent on them.

* `structure.py:550-568`: `observable_at` is documented as equal to a run over the visible
  bars, but its swing counters are those of the full run and its pending levels are empty.
* `liquidity.py:709`: a bar that was open when a session ended sweeps the level that session
  just confirmed, although a sweep is documented as a later event (line 10).
* `dealing_range.py:287-288`: the swings of a range come from its own configuration, not
  from the one of an injected structure detector; the breaker detector likewise detects
  swings with defaults. `dealing_range.md` section 7 excludes the breaking bar from
  classification; the code classifies it.
* `bpr.py:254-257`: the fill of a range published as neutral is measured as a bullish one's;
  the comment has it measured with the polarity of the later gap.
* `production_ingest.py:317-322`: a window with an hour missing is withheld even if a closure
  explains it; the docstrings (lines 21-22, 273-274) have it emitted.
* `targets.py:496-497`: the barriers of a race are unrounded floats. Where one lies beyond the
  price it stands for (reference 1.1 and one point: 1.1000100000000002 > 1.10001), an exact
  touch is missed although the excursion, rounded by `_points`, reaches the barrier;
  `test_targets.py:423` has an exact touch count as a touch, and `targets.py:308-314` says
  why moves are rounded. `RacesAgree` allows a race and an excursion to part at such a
  touch, and nowhere else.
* `production_ingest.py:126-137`: a month is cached as it is when first asked for, growing
  or absent, and never asked for again.
* `production_ingest.py:137`: `write_bytes` creates the month file before its bytes are in it,
  as the backfill does. A crash in between leaves an empty file, which every later run takes
  for the provider's "nothing here" (lines 101-102, `dukascopy_candles.py:135-137`): it reports
  success without the month. `SuccessMeansComplete` excepts the files of this item and of the
  one before, and no others: a torn file stops the run that reads it, and a download that
  failed is reported and tried again by the next run.
* `normalizer.py:194`: the last copy of a bar wins before invalid bars are dropped, so an
  invalid last copy takes away a valid earlier one; `LastCopyWins` states it.
* `sessions.py:331-350`: boundaries inside an hour the clocks skip can make consecutive
  windows overlap, which line 211 excludes.
* `realdata.py:146`: a symbol that fails at a later timeframe leaves its earlier series in
  the manifest's partitions without the provenance entries the format promises for each;
  `ManifestFaithful` says what does hold.

## 4. What is proved

TLAPS proves these for every value of the constants, from the named assumptions on them
only (bars are well formed, configurations have the types their `__post_init__` enforces,
bounds are natural numbers).

**Structure** (`StructureProofs`): `TypeCorrect`, `BrokenOnceHolds`, `ReferencesFreshHolds`,
`BreakChainHolds`, `PendingUnbrokenHolds`. Neither `BrokenOnce` nor `ReferencesFresh` is inductive: nothing in them
says that a pending reference is the *newest* confirmed swing. `IInv` adds
`PreviousNewest` (the predecessor is the newest swing admitted), `ActivePending` (an active
reference is that predecessor, and no break refers to it or to a later one), and the two
properties themselves in the form the step needs (`BreaksFresh`, `NoneTwice`).
`PendingUnbroken` is inductive with it because of `NeverBoth`: with close breaks, a pending
low never lies above a pending high by more than the tolerance. A low in the right window of
the high lies below it by the definition of a swing; a later one was closed at a price that
did not break the high; and the same mirrored. So no close breaks both, and the `elif` of
`analyse` skips nothing.

**Refinement** (`StructureProofs`): `WalkImplementsLive`, the batch walk implements the
streaming specification `LiveStructure` with `seen` the bars processed so far, for frames
of any length. The lemmas show that the swings of a prefix confirmed by its last bar are
those the walk admits, and that the state, predecessor and references the walk carries
are the ones the live specification reads off its history.

**Dealing ranges** (`StructureProofs`): `BarsClassifiedOnceHolds`, `RangesKnowableHolds`. The
ranges are a function of the recorded breaks, so the invariant `RecordedSoFar` says what the
walk guarantees of them: they are in the order of their bars, one per bar, and each closes
or trades beyond a swing confirmed by then (`BrokenIsConfirmed`). From it, an opposing
anchor is searched among swings the bars so far confirm (`PivotsOfPrefix`,
`AnchorsKnown`), at most one range confirms per bar and supersedes the one in force
(`RangesOnePerBar`, `Supersession`), and a step adds ranges and observations of its own bar
only (`RangesKept`, `ObservationsKept`).

**Blocks, breakers, unicorns** (`StructureProofs`): every property of `Breakers` and `Composites`:
`WithTheTrendHolds`, `SourcesSpentHolds`, `DeathsFollowFillsHolds`, `PublishedOnTimeHolds`,
`StatusKeptHolds`. Their invariant `BInv` is that of the walk (`IInv`, `RecordedSoFar`) with the
two facts that tie breakers to it: each break leaves the state in its own direction
(`BreaksTurn`), and the bars of a chart open one after the other (`Charted`). `WithTheTrend`
then holds because a breaker is confirmed by a break and no two breaks share a bar
(`StateAtBreak`, `BreakerBar`). `SourcesSpent` and `DeathsFollowFills` are about depth: a bar at
or beyond the far edge of a zone fills it whatever the threshold, and fills every part of it
(`DepthIs`, `FillsIs`, `PartFilled`), and once some bar fills a zone its status is mitigated
(`FilledStatus`). For `PublishedOnTime` and `StatusKept`, `TruncatedTo` relates a frame to its
first m bars, and one lemma per step of the detectors says that what it dates up to bar m is
what it finds in these (`GapsAlike`, `RunsAlike`, `ClosesAlike`, `BlocksAlike`, `FailuresAlike`,
`MatchesAlike`, `FlipsAlike`, `UnicornsAlike`, `FillsKept`); the breaks enter by `GrowsTo`: those of
the longer walk extend the earlier ones. A first failure, a first break that matches and a
first close through a block are least elements, which later bars cannot undercut
(`LeastAlike`). A bar is assumed to last some time. The breaks observable at a bar are
written as a restriction of the sequence of breaks, which is a prefix since breaks come in
the order of their bars.

**Market state** (`StructureProofs`): `SectionsAgreeHolds`, `StatesReplayedHolds`, with the same
invariant `BInv`. The
trend is the state the last observable break left, and no two breaks share a bar, so the
break `_latest` picks is that one (`TrendIsLatest`, `LatestIs`). Likewise for delivery
(`DeliveryIsLatest`), from the lemmas on the turns of `cisd.py`, taken from `InversionsProofs`
by the instance `Turned` once its assumptions are shown to hold (`TurnedAssumed`). A gap
that has inverted by a close through it, and the block of a breaker, are mitigated by then
(`InvertedSpent`, `SourceSpent`). A unicorn in force was joined from a breaker published by
then, and each bar that mitigates that breaker is one of the unicorn's deaths, so the
breaker is in force too (`UnicornIs`, `BreakerDeath`). Two components track the fills of zones by
their own configurations, and one definition serves both (`SameFills`).

`StatesReplayedHolds` takes the sections of a state one by one (`StructureReplayed`,
`LiquidityReplayed`, `ImbalanceReplayed`, `InstitutionalReplayed`, `CompositesReplayed`,
`PremiumReplayed`, `WindowsReplayed`, `DailyReplayed`) and puts them together (`TogetherApart`).
The first k bars of the walk are a frame of their own (`SeenPrefix`), the breaks observable at
k the record of a shorter walk (`RecordPrefix`), so the lemmas of the detectors on longer
frames apply to both views. What a tracker says of a zone by bar k is compared by `Alike`: the
same items, with the bars that confirmed them, the same status then, and ended then or not; the
fills themselves differ, since those of the complete frame go on, and what is in force has the
same items (`ActiveAlike`, `ItemsAlike`, `LatestAlike`). `ZonesTold` gives `Alike` for every
tracker from the lemmas on what it finds. The levels, the daily opens and the windows come from
`LiquidityProofs`, by the instance `Rested` (`KnownLevels`, `KnownOpens`, `KnownLive`), and a sweep
is a least element that later bars cannot undercut (`SweepsAlike`). The one permitted asymmetry
is `LatestOpens`: an open at the very instant of the reading. Beyond the types of the
configurations the proof assumes what the code enforces or the calendar has: a partial fill of
a gap comes before a full one (`FillAssumption`, `fvg.py:94`), names tell definitions apart, and
clocks change by less than a day (`CalendarAssumption`).

**Liquidity** (`LiquidityProofs`): `SweptByFirstExceedanceHolds`, `StatusRecoverableHolds`,
`NestedSweptHolds`, `LevelsKnowableHolds`, `RunningMeetsCompletedHolds`. `LiquidityInv` adds to the types that the state of
the walk is the one its dated records imply (`Lifecycle`: a level is pending until it is
confirmed, then active until swept, approached if an approach is recorded) and that each
sweep is by the first bar beyond the level since its confirmation (`SweepsFirst`); neither
property is inductive alone, since each bar is tested against the active levels only.
`NestedSwept` then compares two first exceedances. `LevelsKnowable` is about the detector,
not the walk: a completed window has all its bars in every longer frame, windows of later
days begin and end later (`DaysInOrder`), and none that could matter lies outside the dates
the resolver looks at (`InReach`). These two need that the clocks of a zone change by less
than a day.

`RunningMeetsCompleted` compares two readings of the same windows, `session_state_at` with
its look back of two days and `detect` over the dates of the frame. Of the windows of a
session that have begun there is one that started last, since later days start later
(`CurrentIs`); the look back always finds it, because the first day that has not begun
starts less than two days after it (`BegunLater`), and finds every window that contains the
instant (`HoldingAre`), so the sessions running at an instant are the same from wherever
they are resolved (`ActiveAre`, `ActiveInView`). That `detect` resolves a completed window
whose bars it has (`OverOccurred`) is true only if the window ends on the date it is said to.
Where the clocks skip the end of a session (`resolve_window` then reads it by the old
offset), an overnight session can end on the date after, and `resolve_windows`, which looks
back one date from the first bar, leaves it out of a frame that begins in between. The
theorem therefore has the hypothesis `EndsOnDate`, for the overnight sessions only: it holds
of every session that does not cross midnight, hence of `DEFAULT_SESSIONS`, and of every
zone where a skipped time read by the old offset stays on its date. `MCLiquidity` assumes it of the
definitions it checks, so TLC evaluates it. Without it the property is false: with days of
four units, clocks that skip the last three units of a day, and a session from 3 to 2 of the
next day, one bar just after the change is enough for TLC to violate it.

**Zones** (`InversionsProofs`): `TrackersAgreeHolds`, `InvertedAreMitigatedHolds`,
`BalancedAreTradedHolds`, `ZonesKnowableHolds`, `DeliveryChainHolds`. `Emits` defines the bars that change the fill
of a zone: deeper than all since its confirmation, and not after the bar that fills it.
`TrackerIs` shows that `track_zone_fill` finds exactly these, `TriesIs` that the walk does, given
`WalkInv`: the deepest price of a zone is its entry edge or one that price reached, and no
bar before the fill went deeper (`DeepestIs`). Clamped depths and unclamped prices agree
on this because a bar that reaches the far edge fills the zone whatever the threshold
(`FillsIs`, `FirstFill`). `ZonesKnowable` rests on one lemma per detector (`GapsAlike`,
`InversionsAlike`, `BalancedAlike`, `RedeliveredAlike`, `FillsAlike`): what it dates up to
bar m of a frame is what it finds in the first m bars.

`DeliveryChainHolds` is about the two sorts of `cisd.py`: turns are applied in the order of
trigger and leg, changes of state are published in the order of instant and identity. They
agree because no bar turns legs of both directions (`TurnsOneWay`): of two such legs the
later one starts with a candle that closes beyond the level of the earlier, which would have
been turned by then. So at most the first turn of a bar changes the state (`ChangeIs`,
`ChangesApart`), and what was published up to a bar ends in the direction of the last turn
up to it (`DeliveryIs`). This needs a tolerance that is not negative. `TurnsAlike` is its
lemma on longer frames.

**Backfill** (`BackfillProofs`): `BackfillTypeCorrect`, `RepeatIdenticalHolds`,
`EmptyMeansClosedHolds`, `EveryHourAccountedHolds`, for every set of hours, workers, retries
and runs. The invariant
`CacheInv` says which files a job may rely on: an hour being downloaded has no settled
file (`MissesUncached`), a finished job's payload is in the cache (`DoneCached`), and every
payload a run returned is still there (`Settled`); `JobsInSlice` and `TicksKept` tie jobs to
the day handed out and empty payloads to the feed. `DaysCovered` accounts for the hours of
the days already gathered. It needs that a day ends at a midnight or at the end of the
window, hence on the boundary of an hour or behind every hour (`Multiples`, `NextMidnight`),
so that the next day neither repeats nor skips one (`HoursSplit`, `CountedApart`).

**Ingest** (`IngestProofs`): `ManifestFaithfulHolds`, `OnlyOverwriteInvalidatesHolds`, for every
set of symbols, timeframes, years and versions, both pipelines, and any number of runs,
crashes and overwrites. `IngestInv` says that every series of the request is still waiting, at
hand, reported as stored or reported as failed, and in only one of these (`Positions`,
`UnitsApart`, `Accounts`), and that whatever is reported as stored is on disk under its own
path with its own hash (`OnDisk`): a later series of the run cannot touch that path, since
keys keep series apart. It assumes that a symbol is not itself a pair of a symbol and a
timeframe and that the timeframes of a run are distinct.

**Dataset** (`DatasetProofs`): `WindowsSealedHolds`, `LabelsOnlyTightenHolds`,
`AnsweredForGoodHolds`, `RacesAgreeHolds`. The inductive invariant records, for every row, that
its label is the one its windows imply and that a window without an end ran off the data
*of that build*, before which all instants of that dataset lie. The second theorem needs it
to exclude the positional embargo: were no window of a row inside the data, there could
not be enough instants after it either, which is a counting argument over an interval.
`AnsweredForGood` needs that every row holds the answers of the frame it was built from
(`RowsAnswered`), and that an answer given from some bars is given from more.
`RacesAgree` compares the two searches of a race with the extremes of an excursion, for any
set of `Overshoots`: a barrier that no bar crosses is one the excursion misses, or reaches
exactly where its float overshoots.

**Market data** (`MarketDataProofs`): every property of the run. `H4FromFourTradedHolds` and
`ContextsSettledHolds` rest on lemmas about timeframes: the periods the resampler keeps
lie in the extent of a frame (`KnownPeriod`), a period inside the extent of a prefix has
the same slots in every longer frame (`AggregatesAlike`), and the extent itself has ends
because a non-empty set of natural numbers has a least element (`HasLeast`, by
well-foundedness, not induction). `SuccessMeansCompleteHolds` needs `CompleteInv`: a cached
month is what the feed had when it was stored, unless a crash emptied it (`CacheTrusted`),
a month of the request is either still to come, decoded into the series, among the
failures, or one of the two exceptions (`NothingSkipped`), and the clock never runs back
(`ClockInv`), so that a month that is over is complete.
`AccountsAgreeHolds` splits a frame at its gaps (`EdgesAgree`, `GapsAre`) and compares what
each reader makes of one period (`WindowsAgree`). `LastCopyWinsHolds` is about sorting: a
finite set has one arrangement along a total order (`ArrangedIs`), which gives what
sorting, dropping duplicates and dropping invalid bars return (`SortedIs`, `PickedIs`,
`DropDuplicatesIs`, `NormalizeIs`). The rows are assumed to be dated at natural numbers, and
the clock and the requests to stay within the horizon.

### Only model-checked

`RunEnds` alone: it is a liveness property under fairness, and the prover has no support for
`ENABLED`.

The prover also cannot unfold the library's sorting, and cannot do induction over data with
the installed back ends (the theorems that would justify it take an operator as a
parameter), so what a fold computes for every input is not proved, and no module that is
proved about contains a `RECURSIVE` operator. Where the model sorts or picks in a module
with proofs it says what the result is (`Arranged`), and where an argument would go by
induction the proofs take a least counterexample (`HasLeast`). The state machine of `cisd.py`
is written without its loop: the state a turn finds is the direction of the turn before it
in trigger order, for a turn leaves that state behind whether it changed it or repeated it.
A sum is only ever compared with itself.

## 5. What is not modelled

Numerical work (tick decoding, ratios, the average range other than as a sum), volume, file
formats, logging, settings and argument parsing (`app`, `cli`), test doubles and lookup
tables (`data/providers`, `domain/symbol_timeframe`, `features/production`), and the row
filters and counts of `tick_quality` and `features/audit`. `feature_vector` is a flat
projection of the market state. `persist_production` writes to its own root through the
store modelled in `Ingest`, and its manifest without an existence check; nothing in the
repository's source calls it. Contract events (`events()` of each detector) and `as_dict` are
projections of what is modelled. `failed_without_structure` of the breaker analysis is a
report only. The features of a dataset row are left out: they are market states of
instants, each checked by `StatesReplayed` to be what a run at that instant gives. Bars of
one frame last the same time, and a zone's offset changes at most once.

## 6. Plan

Done: the core (swings, structure and its refinement, dealing ranges), storage with both of
its pipelines, backfill, native candles, timeframes and normalisation, sessions and
liquidity, all zone detectors, breakers and unicorns, the market state, targets, splits and
datasets.

Worth adding: the features of a dataset row composed with `MarketState`; a second change of
clocks; `persist_production` once something calls it.
