----------------------------- MODULE OrderBlocks ----------------------------
(***************************************************************************)
(* Order blocks (ict/order_blocks.py): the last run of candles against a    *)
(* move, once a bar has closed through its range.  Everything is a function *)
(* of the bars F that open at the times T and of the configuration c; what  *)
(* a later bar may change is the subject of module Breakers.                *)
(***************************************************************************)
EXTENDS Zones

\* No bar: positions start at 1.
NoBar == 0

\* OrderBlockConfig, with the FvgConfig of the detector.
BlockConfigType ==
  [grouping : {"multi_candle_group", "single_candle"},
   geometry : {"full_range", "body"},
   breakTol : Nat, maxBarsToConfirm : Nat \ {0}, contiguous : BOOLEAN,
   requireGap : BOOLEAN, displacement : BOOLEAN,
   lookback : Nat \ {0}, factor : Nat \ {0},
   partial : 0 .. Whole, full : 1 .. Whole, gaps : GapConfigType]

----------------------------------------------------------------------------
\* _runs

\* An up-close candle is bullish, a down-close one bearish, a doji neither.
Delivers(d, bar) == Beyond(d, bar.close, bar.open)

\* Bar i continues a run of direction d.
Continues(F, T, c, d, i) ==
  /\ {i - 1, i} \subseteq DOMAIN F
  /\ Delivers(d, F[i - 1]) /\ Delivers(d, F[i])
  /\ c.contiguous => CloseTime(T, i - 1) = T[i]

\* The maximal runs of direction d, by their first and last bar.
RunsOf(F, T, c, d) ==
  {r \in (DOMAIN F) \X (DOMAIN F) :
     /\ r[1] <= r[2] /\ Delivers(d, F[r[1]])
     /\ \A i \in (r[1] + 1) .. r[2] : Continues(F, T, c, d, i)
     /\ ~Continues(F, T, c, d, r[1]) /\ ~Continues(F, T, c, d, r[2] + 1)}

----------------------------------------------------------------------------
\* detect

\* _zone: with full_range the wicks bound the block, with body the bodies.
Bounded(c) == [measure |-> IF c.geometry = "full_range" THEN "wick" ELSE "body"]

ZoneTop(F, c, S)    == Max({Upper(Bounded(c), F[i]) : i \in S})
ZoneBottom(F, c, S) == Min({Lower(Bounded(c), F[i]) : i \in S})

\* The block made of the last bars of a run that goes against direction d,
\* before anything has closed through it.
Candidate(F, c, d, r) ==
  LET first == IF c.grouping = "multi_candle_group" THEN r[1] ELSE r[2]
  IN  [direction |-> d, first |-> first, last |-> r[2],
       top |-> ZoneTop(F, c, first .. r[2]), bottom |-> ZoneBottom(F, c, first .. r[2])]

\* The next maxBarsToConfirm bars that close beyond the block in its direction.
ClosesThrough(F, c, b) ==
  {k \in (DOMAIN F) \cap ((b.last + 1) .. (b.last + c.maxBarsToConfirm)) :
     Distance(b.direction, F[k].close, EntryEdge(b)) > c.breakTol}

\* The first gap of the block's direction printed inside its impulse leg, up to
\* the close of bar k.
RelatedGap(F, T, c, b, k) ==
  LET leg == {z \in GapsOf(F, T, c.gaps) :
                z.direction = b.direction /\ b.last <= z.third /\ z.third <= k}
  IN  IF leg = {} THEN NoBar ELSE Min({z.third : z \in leg})

\* The first of these closes confirms the block.
Confirmed(F, T, c, b) ==
  LET k == Min(ClosesThrough(F, c, b))
  IN  [direction |-> b.direction, first |-> b.first, last |-> b.last,
       top |-> b.top, bottom |-> b.bottom, bar |-> k, gap |-> RelatedGap(F, T, c, b, k)]

\* The qualifiers are asked of the confirming bar only; a block that fails them
\* gets no second chance with a later close.
Qualifies(F, c, b) ==
  /\ c.displacement => Displaced(F, c, b.bar)
  /\ c.requireGap => b.gap # NoBar

CandidatesOf(F, T, c) ==
  UNION {{Candidate(F, c, d, r) : r \in RunsOf(F, T, c, Opposite(d))} : d \in Directions}

BlocksOf(F, T, c) ==
  LET closed == {b \in CandidatesOf(F, T, c) : b.top > b.bottom /\ ClosesThrough(F, c, b) # {}}
  IN  {b \in {Confirmed(F, T, c, b) : b \in closed} : Qualifies(F, c, b)}

----------------------------------------------------------------------------
\* analyse: a bar is looked at when it opens at or after the confirmation.

\* A mutant: a failure of the block is looked for from its last candle on.
ClosesAgainstEarly(F, T, b) ==
  {k \in DOMAIN T : k >= b.last /\ Beyond(Opposite(b.direction), F[k].close, FarEdge(b))}

\* The closes beyond the far edge; the first invalidates the block.
ClosesAgainst(F, T, b) ==
  {k \in BarsFrom(T, CloseTime(T, b.bar)) :
     Beyond(Opposite(b.direction), F[k].close, FarEdge(b))}

BlockFills(F, T, c, b) == TrackZoneFill(F, T, c, b, CloseTime(T, b.bar))

\* OrderBlockAnalysis.status_at for a decision at the close of bar k, once the
\* block is observable.
StatusAt(F, T, c, b, k) ==
  IF \E i \in ClosesAgainst(F, T, b) : i <= k THEN "invalidated"
  ELSE FillStatus(BlockFills(F, T, c, b), k)
=============================================================================
