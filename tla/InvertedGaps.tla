---------------------------- MODULE InvertedGaps ----------------------------
(***************************************************************************)
(* Inverted fair value gaps (ict/ifvg.py): a gap that price went through    *)
(* becomes a zone of the opposite direction.  Functions of the bars F that  *)
(* open at the times T and of the configuration c.                          *)
(***************************************************************************)
EXTENDS Zones

----------------------------------------------------------------------------
\* IfvgDetector.detect

TriggerHit(c, z, bar) ==
  LET out == Opposite(z.direction)
  IN  CASE c.trigger = "close_through_far_edge" -> Beyond(out, bar.close, FarEdge(z))
        [] c.trigger = "close_inside_zone"      -> Beyond(out, bar.close, EntryEdge(z))
        [] c.trigger = "wick_through"           -> Beyond(out, Extreme(bar, out), FarEdge(z))

\* The first maxBarsToInvert bars after the third candle closed.
Window(T, c, z) ==
  {k \in BarsFrom(T, CloseTime(T, z.third)) :
     Cardinality({i \in BarsFrom(T, CloseTime(T, z.third)) : i <= k}) <= c.maxBarsToInvert}

Hits(F, T, c, z) == {k \in Window(T, c, z) : TriggerHit(c, z, F[k])}

\* A mutant: the last bar that closes through the zone inverts it.
InversionLast(F, T, c, z) ==
  [source |-> z, bar |-> Max(Hits(F, T, c, z)),
   zone |-> [z EXCEPT !.direction = Opposite(@)]]

\* One inversion per gap, by the first bar that triggers it: the same prices,
\* the opposite direction.
Inversion(F, T, c, z) ==
  [source |-> z, bar |-> Min(Hits(F, T, c, z)),
   zone |-> [z EXCEPT !.direction = Opposite(@)]]

InversionsOf(F, T, c) ==
  {Inversion(F, T, c, z) : z \in {z \in GapsOf(F, T, c) : Hits(F, T, c, z) # {}}}

----------------------------------------------------------------------------
\* IfvgDetector.analyse: the fills of the inverted zones, from the close of the
\* inverting bar on.
InvertedFills(F, T, c) ==
  UNION {TrackZoneFill(F, T, c, i.zone, CloseTime(T, i.bar)) : i \in InversionsOf(F, T, c)}
=============================================================================
