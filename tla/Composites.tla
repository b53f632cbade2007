----------------------------- MODULE Composites ----------------------------
(***************************************************************************)
(* Unicorns composed with the breakers and the gaps they come from          *)
(* (UnicornDetector, ict/unicorn.py), and what blocks, breakers and         *)
(* unicorns promise while the frame grows.                                  *)
(***************************************************************************)
EXTENDS Breakers

CONSTANT UnicornConfigs             \* the unicorn detectors considered

Joined == INSTANCE Unicorns

ASSUME UnicornAssumption ==
  /\ UnicornConfigs \subseteq Joined!UnicornConfigType
  /\ \A u \in UnicornConfigs : u.partial < u.full

----------------------------------------------------------------------------
\* UnicornDetector.detect and analyse over the first k bars.
GapsAt(k, u) == Joined!GapsOf(SeenBars(k), SeenTimes(k), u.gaps)

UnicornsAt(k, u) == Joined!UnicornsOf(SeenTimes(k), u, BreakersAt(k), GapsAt(k, u))

UnicornFillsAt(k, u, x) ==
  Joined!TrackZoneFill(SeenBars(k), SeenTimes(k), u, x,
                       Joined!CloseTime(SeenTimes(k), x.bar))

\* A mutant: the first touch of the breaker is its death.
DeathsAtTouch(k, x) == {f.bar : f \in BreakerFillsAt(k, x.breaker)}

\* The death a unicorn inherits: its breaker is mitigated.
DeathsAt(k, x) ==
  {f.bar : f \in {f \in BreakerFillsAt(k, x.breaker) : f.after = "mitigated"}}

\* A mutant: a death counts for every decision, whenever it happened.
UnicornStatusAtFinal(k, u, x, i) ==
  IF DeathsAt(k, x) # {} THEN "invalidated" ELSE Joined!FillStatus(UnicornFillsAt(k, u, x), i)

\* UnicornAnalysis.status_at for a decision at the close of bar i.
UnicornStatusAt(k, u, x, i) ==
  IF \E d \in DeathsAt(k, x) : d <= i THEN "invalidated"
  ELSE Joined!FillStatus(UnicornFillsAt(k, u, x), i)

----------------------------------------------------------------------------
\* "A run still open at the end of a prefix emits nothing": a longer frame adds
\* only the blocks, breakers and unicorns its own last bar confirms, and changes
\* none of those published before it.
PublishedOnTime ==
  [][/\ {b \in BlocksAt(index') : b.bar <= index} = BlocksAt(index)
     /\ {x \in BreakersAt(index)' : x.bar <= index} = BreakersAt(index)
     /\ \A u \in UnicornConfigs :
          {x \in UnicornsAt(index, u)' : x.bar <= index} = UnicornsAt(index, u)]_allVars

\* What was answered about the status and the fills of a block, a breaker or a
\* unicorn at an earlier decision is answered again, whatever price did since.
StatusKept ==
  [][/\ \A b \in BlocksAt(index) :
          /\ BlockStatusAt(index', b, index) = BlockStatusAt(index, b, index)
          /\ {u \in BlockFillsAt(index', b) : u.bar <= index} = BlockFillsAt(index, b)
     /\ \A x \in BreakersAt(index) :
          {u \in BreakerFillsAt(index', x) : u.bar <= index} = BreakerFillsAt(index, x)
     /\ \A u \in UnicornConfigs : \A x \in UnicornsAt(index, u) :
          UnicornStatusAt(index', u, x, index) = UnicornStatusAt(index, u, x, index)]_allVars

\* "A Unicorn's death is its Breaker's death": when the whole zone has to be
\* filled, the breaker lives at least as long as price leaves a part of the
\* unicorn untouched, unless it was dead before the unicorn was known.
DeathsFollowFills ==
  \A u \in UnicornConfigs : options.full = Joined!Whole =>
    \A x \in UnicornsAt(index, u) : \A d \in DeathsAt(index, x) :
      d > x.bar => Joined!FillStatus(UnicornFillsAt(index, u, x), d) = "mitigated"
=============================================================================
