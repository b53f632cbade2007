------------------------------ MODULE Breakers ------------------------------
(***************************************************************************)
(* Breaker blocks (ict/breakers.py): an order block that price closed       *)
(* through against its direction, accompanied by a structure break.         *)
(* Composes OrderBlocks with the structure walk over the same frame: after  *)
(* the walk has processed k bars, its breaks are those a run over these k   *)
(* bars returns, and BlocksAt(k) and BreakersAt(k) are what the two         *)
(* detectors return for them.                                               *)
(***************************************************************************)
EXTENDS Structure, FiniteSetsExt

CONSTANTS
  Duration,       \* how long a bar lasts
  Charts,         \* bound: the frames considered, each with its open times
  BreakerConfigs  \* the detector configurations considered

Blocks == INSTANCE OrderBlocks

\* BreakerConfig, with the OrderBlockConfig it hands on.
BreakerConfigType ==
  [blocks : Blocks!BlockConfigType, mode : {"close", "wick"},
   requireStructure : BOOLEAN, window : Nat \ {0},
   partial : 0 .. Blocks!Whole, full : 1 .. Blocks!Whole]

ASSUME BreakerAssumption ==
  /\ Duration \in Nat \ {0}
  /\ \A chart \in Charts : /\ chart.bars \in Seq(Bars) /\ chart.times \in Seq(Nat)
                            /\ Len(chart.times) = Len(chart.bars)
                            /\ Blocks!Increasing(chart.times)
  /\ BreakerConfigs \subseteq BreakerConfigType
  /\ \A c \in BreakerConfigs : c.partial < c.full /\ c.blocks.partial < c.blocks.full
  \* BreakerDetector hands no FvgConfig on: its blocks see the default gaps.
  /\ \A c, e \in BreakerConfigs : c.blocks.gaps = e.blocks.gaps

VARIABLES
  opens,          \* when each bar of the frame opened
  options         \* the configuration of the breaker detector

allVars == <<vars, opens, options>>

BreakersInit ==
  /\ \E chart \in Charts : frame = chart.bars /\ opens = chart.times
  /\ config \in Configs
  /\ Fresh
  /\ options \in BreakerConfigs

BreakersNext == Next /\ UNCHANGED <<opens, options>>

BreakersSpec == BreakersInit /\ [][BreakersNext]_allVars

----------------------------------------------------------------------------
\* The first k bars and their open times.
SeenBars(k)  == SubSeq(frame, 1, k)
SeenTimes(k) == SubSeq(opens, 1, k)

\* OrderBlockDetector.detect and status_at over the first k bars.
BlocksAt(k) == Blocks!BlocksOf(SeenBars(k), SeenTimes(k), options.blocks)

BlockFillsAt(k, b) == Blocks!BlockFills(SeenBars(k), SeenTimes(k), options.blocks, b)

\* The status a run over k bars gives a block for a decision at the close of i.
BlockStatusAt(k, b, i) ==
  Blocks!StatusAt(SeenBars(k), SeenTimes(k), options.blocks, b, i)

----------------------------------------------------------------------------
\* BreakerDetector.detect

\* _failure: the bars that fail block b, by a close or, in WICK mode, a wick.
Failures(k, b) ==
  IF options.mode = "close"
  THEN Blocks!ClosesAgainst(SeenBars(k), SeenTimes(k), b)
  ELSE {i \in Blocks!BarsFrom(SeenTimes(k), Blocks!CloseTime(SeenTimes(k), b.bar)) :
          LET out == Opposite(b.direction)
          IN  Beyond(out, Extreme(frame[i], out), Blocks!FarEdge(b))}

\* A mutant: a break of any direction confirms a failure.
MatchesAnyDirection(k, b, f) ==
  {s \in Range(ObservableBreaks(breaks, k)) : s.bar \in f .. (f + options.window)}

\* The structure breaks that confirm the failure of block b at bar f.
Matches(k, b, f) ==
  {s \in Range(ObservableBreaks(breaks, k)) :
     s.direction = Opposite(b.direction) /\ s.bar \in f .. (f + options.window)}

\* The flipped zone, confirmed by the last of the block, its failure and the
\* first break that matches.
Breaker(k, b, f) ==
  [source |-> b, direction |-> Opposite(b.direction), top |-> b.top, bottom |-> b.bottom,
   failure |-> f,
   bar |-> Max({b.bar, IF options.requireStructure
                     THEN Min({s.bar : s \in Matches(k, b, f)}) ELSE f})]

BreakersAt(k) ==
  LET failed   == {b \in BlocksAt(k) : Failures(k, b) # {}}
      first(b) == Min(Failures(k, b))
      promoted == {b \in failed : options.requireStructure => Matches(k, b, first(b)) # {}}
  IN  {Breaker(k, b, first(b)) : b \in promoted}

\* analyse: how price returned to the zone of a breaker.
BreakerFillsAt(k, x) ==
  Blocks!TrackZoneFill(SeenBars(k), SeenTimes(k), options, x,
                       Blocks!CloseTime(SeenTimes(k), x.bar))

----------------------------------------------------------------------------
\* The source of a breaker is spent when the breaker appears: its zone had been
\* filled by the bar that failed it, and in CLOSE mode it is invalidated, so
\* that no price level acts in both directions at once.
SourcesSpent ==
  \A x \in BreakersAt(index) :
    /\ Blocks!FillStatus(BlockFillsAt(index, x.source), x.failure) = "mitigated"
    /\ options.mode = "close" => BlockStatusAt(index, x.source, x.bar) = "invalidated"

\* "The failure must be accompanied by a confirmed structure break in the
\* breaker's direction": at the decision a breaker becomes usable, the state of
\* the structure walk has the direction of the breaker.
WithTheTrend ==
  options.requireStructure =>
    \A x \in BreakersAt(index) : StateAt(breaks, x.bar) = x.direction
=============================================================================
