----------------------------- MODULE Inversions -----------------------------
(***************************************************************************)
(* The zones derived from candles and from fair value gaps: inverted gaps   *)
(* (ict/ifvg.py), balanced and redelivered price ranges (ict/bpr.py,        *)
(* ict/rdrb.py) and delivery legs (ict/cisd.py), over the frame that        *)
(* FairValueGaps walks, and what these detectors promise together.          *)
(***************************************************************************)
EXTENDS FairValueGaps, InvertedGaps, BalancedRanges, RedeliveredRanges, Delivery

CONSTANTS
  BprConfigs, RdrbConfigs, CisdConfigs  \* the other detectors considered

ASSUME DerivedAssumption ==
  /\ BprConfigs \subseteq BprConfigType /\ RdrbConfigs \subseteq RdrbConfigType
  /\ CisdConfigs \subseteq CisdConfigType

----------------------------------------------------------------------------
\* The two trackers of the engine agree: the walk of fvg.py, bar by bar over all
\* zones, records the fills composites.track_zone_fill finds for each zone from
\* its confirmation on, and the dated fills give back the state of the walk.
TrackersAgree ==
  /\ \A z \in zones :
       /\ {u \in fills : u.zone = z} =
            UpTo(TrackZoneFill(frame, opens, config, z, CloseTime(opens, z.third)), index)
       /\ status[z] = StatusAt(z, index)
  /\ active = ActiveAt(index)

\* "a wick that fills a gap 100% -> MITIGATED, a close beyond the far edge ->
\* INVERTED": inversion is the stronger of the two, so a gap that has inverted
\* by a close through it, or by a wick, is mitigated by the close of that bar.
InvertedAreMitigated ==
  config.trigger # "close_inside_zone" =>
    \A i \in UpTo(InversionsOf(frame, opens, config), index) :
      StatusAt(i.source, i.bar) = "mitigated"

\* A balanced range was delivered through both ways: when it becomes known, its
\* earlier gap is mitigated or price has reached the far edge of the overlap
\* from the side of the earlier gap.
BalancedAreTraded ==
  \A p \in BprConfigs : \A x \in UpTo(BalancedOf(opens, p, zones), index) :
    LET a   == x.earlier
        far == FarEdge([x EXCEPT !.direction = a.direction])
    IN  StatusAt(a, x.bar) = "mitigated" \/ ~Deeper(a, far, deepest[a])

\* The published transitions tell the story of the state machine although they
\* are sorted again by instant and identity: no bar turns delivery twice, and each
\* transition starts in the state a decision at the close of the bar before it is
\* told.  Of the complete frame, those dated up to a bar are the ones a run over the
\* bars closed by then finds.
DeliveryChain ==
  \A v \in CisdConfigs :
    LET S == TransitionsOf(SubSeq(frame, 1, index), SubSeq(opens, 1, index), v)
    IN  /\ \A x, y \in S : x.bar = y.bar => x = y
        /\ \A x \in S : x.from = DeliveryAt(S, x.bar - 1)
        /\ UpTo(TransitionsOf(frame, opens, v), index) = S

\* "Batch detection equals streaming replay": all detectors search the complete
\* frame, yet of the gaps, inversions, balanced and redelivered ranges and their
\* fills, those dated up to a bar are the ones a run over the bars closed by then
\* finds.
ZonesKnowable ==
  LET F == SubSeq(frame, 1, index)
      T == SubSeq(opens, 1, index)
      G == GapsOf(F, T, config)
  IN  /\ {z \in zones : Observable(z, index)} = G
      /\ UpTo(InversionsOf(frame, opens, config), index) = InversionsOf(F, T, config)
      /\ UpTo(InvertedFills(frame, opens, config), index) = InvertedFills(F, T, config)
      /\ \A p \in BprConfigs :
           /\ UpTo(BalancedOf(opens, p, zones), index) = BalancedOf(T, p, G)
           /\ \A x \in BalancedOf(T, p, G) :
                UpTo(BalancedFills(frame, opens, p, x), index) = BalancedFills(F, T, p, x)
      /\ \A q \in RdrbConfigs :
           /\ UpTo(RedeliveredOf(frame, opens, q), index) = RedeliveredOf(F, T, q)
           /\ \A x \in RedeliveredOf(F, T, q) :
                UpTo(RedeliveredFills(frame, opens, q, x), index) = RedeliveredFills(F, T, q, x)
=============================================================================
