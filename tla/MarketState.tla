----------------------------- MODULE MarketState ---------------------------
(***************************************************************************)
(* The market state (ict/market_state.py): ICTEngineView holds what every   *)
(* detector found in the complete frame, state_at asks each of them what    *)
(* was known at the close of a bar, and counts the evidence for a bias.     *)
(* The detectors are composed here over the one frame that the structure    *)
(* walk processes; View(n) is the engine view over its first n bars.         *)
(***************************************************************************)
EXTENDS Composites, DealingRanges

CONSTANTS
  DayLength, WeekLength, TradingDays, Definitions, \* as in LiquidityLevels
  Engine           \* the configurations MarketStateBuilder injects

Inverted    == INSTANCE InvertedGaps
Balanced    == INSTANCE BalancedRanges
Redelivered == INSTANCE RedeliveredRanges
Delivered   == INSTANCE Delivery
Resting     == INSTANCE LiquidityLevels WITH Configs <- {Engine.liquidity}

\* DealingRangeConfig().equilibrium_tolerance_points, half a point on each side.
DefaultBand == 1

ASSUME EngineAssumption ==
  Engine \in [gaps : Inverted!ConfigType, balanced : Balanced!BprConfigType,
              redelivered : Redelivered!RdrbConfigType, delivery : Delivered!CisdConfigType,
              unicorn : UnicornConfigs, range : RangeConfigs, liquidity : Resting!ConfigType,
              daily : Resting!DailyOpenType]

ASSUME CalendarAssumption ==
  /\ DayLength \in Nat \ {0}
  /\ Definitions \subseteq Resting!DefinitionType
  /\ \A d, e \in Definitions : d.name = e.name => d = e
  /\ \A d \in Definitions : Resting!ShortChange(d.zone)
  /\ WeekLength \in Nat \ {0} /\ TradingDays \in 1 .. WeekLength
  /\ Resting!ShortChange(Engine.liquidity.zone) /\ Resting!ShortChange(Engine.daily.zone)

ASSUME FillAssumption == Engine.gaps.partial < Engine.gaps.full

----------------------------------------------------------------------------
\* MarketStateBuilder.analyse: everything the detectors found, each item with
\* the bar that confirmed it, its fills, and the bars that ended it otherwise.
Tracked(item, bar, fills, ends) == [item |-> item, bar |-> bar, fills |-> fills, ends |-> ends]

\* The first bar that exceeds a level it could already see (module Liquidity
\* walks the bars and records exactly these).
SweepsOf(F, T, L) ==
  LET hits(l) == {k \in DOMAIN F : /\ l.confirmed <= Resting!CloseTime(T, k)
                                   /\ Distance(l.side, Extreme(F[k], l.side), l.price)
                                        > Engine.liquidity.sweepTol}
  IN  {[level |-> l, bar |-> Min(hits(l))] : l \in {l \in L : hits(l) # {}}}

\* ICTEngineView over the first n bars.
View(n) ==
  LET F == SeenBars(n)
      T == SeenTimes(n)
      E == Engine
      G == Inverted!GapsOf(F, T, E.gaps)
      L == Resting!LevelsOf(F, T, E.liquidity)
      at(k) == Inverted!CloseTime(T, k)
      B == ObservableBreaks(breaks, n)
  IN  [breaks |-> B,
       gaps |-> {Tracked(z, z.third, Inverted!TrackZoneFill(F, T, E.gaps, z, at(z.third)), {}) :
                   z \in G},
       inverted |->
         {Tracked(i, i.bar, Inverted!TrackZoneFill(F, T, E.gaps, i.zone, at(i.bar)), {}) :
            i \in Inverted!InversionsOf(F, T, E.gaps)},
       balanced |->
         {Tracked(x, x.bar, Balanced!BalancedFills(F, T, E.balanced, x), {}) :
            x \in Balanced!BalancedOf(T, E.balanced, G)},
       redelivered |->
         {Tracked(x, x.bar, Redelivered!RedeliveredFills(F, T, E.redelivered, x), {}) :
            x \in Redelivered!RedeliveredOf(F, T, E.redelivered)},
       transitions |-> Delivered!TransitionsOf(F, T, E.delivery),
       blocks |-> {Tracked(b, b.bar, BlockFillsAt(n, b), Blocks!ClosesAgainst(F, T, b)) :
                     b \in BlocksAt(n)},
       breakers |-> {Tracked(x, x.bar, BreakerFillsAt(n, x), {}) : x \in BreakersAt(n)},
       unicorns |->
         {Tracked(x, x.bar, UnicornFillsAt(n, E.unicorn, x), DeathsAt(n, x)) :
            x \in UnicornsAt(n, E.unicorn)},
       ranges |-> RangesOf(F, E.range, B),
       levels |-> L,
       sweeps |-> SweepsOf(F, T, L),
       dailyOpens |-> Resting!DailyOpensOf(F, T, E.daily),
       windows |-> Resting!ViewWindows(Definitions, T)]

----------------------------------------------------------------------------
\* What a decision at the close of bar k asks of the view v.

Known(S, k) == {x \in S : x.bar <= k}

\* A mutant: what has ended by the end of the frame was never active.
ActiveFinal(S, k) ==
  {x \in Known(S, k) : x.ends = {} /\ \A f \in x.fills : f.after # "mitigated"}

\* Confirmed, not mitigated, and not ended in another way.
Active(S, k) ==
  {x \in Known(S, k) : /\ \A e \in x.ends : e > k
                       /\ Inverted!FillStatus(x.fills, k) # "mitigated"}

Items(S) == {x.item : x \in S}

\* A mutant: by position, from the wrong end.
LatestFirst(S) ==
  IF S = {} THEN {} ELSE {CHOOSE x \in S : \A y \in S : y.bar >= x.bar}

\* _latest: the last one confirmed, if there is one; an identity decides between
\* two confirmed by one bar.
Latest(S) ==
  IF S = {} THEN {} ELSE {CHOOSE x \in S : \A y \in S : y.bar <= x.bar}

\* The last one confirmed of those in force, whatever has since become of them.
LatestItem(S) == Items(Latest({[item |-> x.item, bar |-> x.bar] : x \in S}))

\* The item nearest to a price by its middle, if there is one.
Nearest(S, price) ==
  LET off(z) == LET d == 2 * price - (z.top + z.bottom) IN IF d < 0 THEN -d ELSE d
  IN  IF S = {} THEN {} ELSE {CHOOSE z \in S : \A y \in S : off(z) <= off(y)}

\* _structure_at
StructureSection(v, k) ==
  LET seen == Range(ObservableBreaks(v.breaks, k))
      last(types) == Latest({b \in seen : b.type \in types})
  IN  [direction |-> LET s == StateAt(v.breaks, k) IN IF s = "undefined" THEN "neutral" ELSE s,
       latest |-> Latest(seen), since |-> {k - b.bar : b \in Latest(seen)},
       named |-> [t \in BreakTypes |-> last({t})],
       counts |-> [t \in BreakTypes |-> Cardinality({b \in seen : b.type = t})]]

\* _liquidity_at
LiquiditySection(v, k, price) ==
  LET swept   == {s \in v.sweeps : s.bar <= k}
      resting == {l \in v.levels : l.confirmed <= Resting!CloseTime(opens, k)}
                   \ {s.level : s \in swept}
      side(d) == {l \in resting : l.side = d}
      last    == Latest(swept)
  IN  [active |-> [d \in Directions |-> side(d)],
       nearest |-> [d \in Directions |->
         {l.price : l \in Nearest({[top |-> l.price, bottom |-> l.price, price |-> l.price] :
                                     l \in side(d)}, price)}],
       swept |-> {s.level : s \in swept}, latest |-> last,
       since |-> {k - s.bar : s \in last}]

\* _imbalance_at
ImbalanceSection(v, k, price) ==
  LET of(d) == {x \in Active(v.gaps, k) : x.item.direction = d}
  IN  [gaps |-> [d \in Directions |-> Items(of(d))],
       latest |-> [d \in Directions |-> LatestItem(of(d))],
       nearest |-> [d \in Directions |-> Nearest(Items(of(d)), price)],
       inverted |-> Items(Active(v.inverted, k)),
       latestInverted |-> LatestItem(Active(v.inverted, k)),
       balanced |-> Items(Active(v.balanced, k)),
       latestBalanced |-> LatestItem(Active(v.balanced, k))]

\* _institutional_at
InstitutionalSection(v, k) ==
  LET blocks(d) == {x \in Active(v.blocks, k) : x.item.direction = d}
      live      == Active(v.breakers, k)
  IN  [blocks |-> [d \in Directions |-> Items(blocks(d))],
       latestBlock |-> [d \in Directions |-> LatestItem(blocks(d))],
       breakers |-> [d \in Directions |-> {x \in Items(live) : x.direction = d}],
       latestBreaker |-> LatestItem(live)]

\* _composites_at
CompositeSection(v, k) ==
  LET turns == Known(v.transitions, k)
  IN  [redelivered |-> Items(Active(v.redelivered, k)),
       latestRedelivered |-> LatestItem(Active(v.redelivered, k)),
       delivery |-> Delivered!DeliveryAt(v.transitions, k),
       turns |-> Cardinality(turns), latestTurn |-> Latest(turns),
       since |-> {k - t.bar : t \in Latest(turns)},
       unicorns |-> Items(Active(v.unicorns, k)),
       latestUnicorn |-> LatestItem(Active(v.unicorns, k))]

\* _premium_discount_at: the range in force, and where the price sits in it by the
\* rule of a detector with the default band.
PremiumSection(v, k, price) ==
  LET current == RangeAt(v.ranges, k)
  IN  [range |-> current,
       zone |-> {ZoneOf([Engine.range EXCEPT !.band = DefaultBand], x, price) : x \in current}]

\* _bias_from: at most one piece of evidence from each of four sections.
Evidence(d, structure, composites, premium, liquidity) ==
  {e \in {"structure", "delivery", "zone", "liquidity"} :
     CASE e = "structure" -> structure.direction = d
       [] e = "delivery"  -> composites.delivery = d
       [] e = "zone"      -> (IF d = "bullish" THEN "discount" ELSE "premium") \in premium.zone
       [] e = "liquidity" -> \E s \in liquidity.latest : s.level.side = Opposite(d)}

Bias(bullish, bearish) ==
  LET more == Cardinality(bullish) - Cardinality(bearish)
  IN  CASE bullish \cup bearish = {} -> "unknown"
        [] more > 0 -> "bullish"
        [] more < 0 -> "bearish"
        [] OTHER    -> "neutral"

\* ICTEngineView.state_at at the close of bar k.
MarketStateAt(v, k) ==
  LET price == frame[k].close
      s == StructureSection(v, k)
      l == LiquiditySection(v, k, price)
      c == CompositeSection(v, k)
      p == PremiumSection(v, k, price)
      t == Resting!CloseTime(opens, k)
      o == Resting!DailyOpenSection(v.dailyOpens, Engine.daily, t, price)
      evidence == [d \in Directions |-> Evidence(d, s, c, p, l)]
  IN  [bar |-> frame[k], structure |-> s, liquidity |-> l,
       imbalance |-> ImbalanceSection(v, k, price),
       institutional |-> InstitutionalSection(v, k), composites |-> c, premium |-> p,
       daily |-> o, session |-> Resting!SessionSection(v.windows, t, o),
       evidence |-> evidence, bias |-> Bias(evidence["bullish"], evidence["bearish"])]

----------------------------------------------------------------------------
\* "Batch vs prefix replay": every state read from the view of the complete frame
\* is the one read from a view of the bars closed by then, but for "the one
\* permitted asymmetry": a daily open whose bar opens at that very instant is
\* not yet among the closed bars, which then have an earlier one or none.
StatesReplayed ==
  index = Len(frame) =>
    \A v \in {View(index)} : \A k \in 1 .. index - 1 :
      LET full   == MarketStateAt(v, k)
          prefix == MarketStateAt(View(k), k)
          now    == Resting!CloseTime(opens, k)
      IN  \/ prefix = full
          \/ /\ \A x \in full.daily : x.level.at = now
             /\ \A y \in prefix.daily : y.level.at < now
             /\ \A f \in DOMAIN full \ {"daily", "session"} : prefix[f] = full[f]
             /\ \A f \in DOMAIN full.session \ {"age"} : prefix.session[f] = full.session[f]

\* The sections are queried from a dozen analyses independently of each other,
\* yet describe one market: the trend and the delivery state are those of the
\* latest break and turn, an inverted gap no longer acts as a gap, a breaker no
\* longer acts as the block it was, and a unicorn lives on a living breaker.
SectionsAgree ==
  index = Len(frame) =>
    \A v \in {View(index)} : \A k \in 1 .. index :
      LET structure     == StructureSection(v, k)
          imbalance     == ImbalanceSection(v, k, frame[k].close)
          institutional == InstitutionalSection(v, k)
          composites    == CompositeSection(v, k)
          breakers == UNION {institutional.breakers[d] : d \in Directions}
          blocks   == UNION {institutional.blocks[d] : d \in Directions}
          gaps     == UNION {imbalance.gaps[d] : d \in Directions}
      IN  /\ {b.direction : b \in structure.latest} = {structure.direction} \ {"neutral"}
          /\ {t.direction : t \in composites.latestTurn} = {composites.delivery} \ {"undefined"}
          /\ Engine.gaps.trigger = "close_through_far_edge" =>
               \A i \in imbalance.inverted : i.source \notin gaps
          /\ \A x \in breakers : x.source \notin blocks
          /\ \A x \in composites.unicorns : x.breaker \in breakers

\* "R2-06 owns the rule; this only supplies the price": the zone a state reports
\* for a close is the zone the dealing-range detector classified that bar into.
ZoneAsClassified ==
  index > 0 =>
    PremiumSection(View(index), index, frame[index].close).zone =
      {o.zone : o \in {o \in ObservationsSoFar(Engine.range) : o.bar = index}}
=============================================================================
