------------------------------ MODULE Delivery ------------------------------
(***************************************************************************)
(* Changes in the state of delivery (ict/cisd.py): a close beyond the open  *)
(* of a run of candles of one direction turns the delivery state.           *)
(***************************************************************************)
EXTENDS Zones

CisdConfigType ==
  [anchor : {"series_open", "extreme_open"}, minLength : Nat \ {0}, tolerance : Nat,
   contiguous : BOOLEAN, maxBars : Nat \ {0}]

----------------------------------------------------------------------------
\* _legs

\* Bars i - 1 and i belong to one leg of direction d; a doji is in no leg.
SameLeg(F, T, v, d, i) ==
  /\ {i - 1, i} \subseteq DOMAIN F
  /\ \A k \in {i - 1, i} : Beyond(d, F[k].close, F[k].open)
  /\ v.contiguous => CloseTime(T, i - 1) = T[i]

LegsOf(F, T, v) ==
  {l \in [direction : Directions, start : DOMAIN F, end : DOMAIN F] :
     /\ l.start <= l.end
     /\ Beyond(l.direction, F[l.start].close, F[l.start].open)
     /\ \A i \in (l.start + 1) .. l.end : SameLeg(F, T, v, l.direction, i)
     /\ ~SameLeg(F, T, v, l.direction, l.start)
     /\ ~SameLeg(F, T, v, l.direction, l.end + 1)}

----------------------------------------------------------------------------
\* detect

\* The open that a close against the leg has to clear: the first one or the one
\* furthest against the leg.
LegLevel(F, v, l) ==
  LET opened == {F[i].open : i \in l.start .. l.end}
  IN  IF v.anchor = "series_open" THEN F[l.start].open
      ELSE IF l.direction = "bearish" THEN Max(opened) ELSE Min(opened)

\* A mutant: the bar right after the leg is passed over.
ClearingsLate(F, v, l) ==
  {i \in (DOMAIN F) \cap ((l.end + 2) .. (l.end + v.maxBars)) :
     Distance(Opposite(l.direction), F[i].close, LegLevel(F, v, l)) > v.tolerance}

\* The closes, soon enough after a leg, that clear its level.
Clearings(F, v, l) ==
  {i \in (DOMAIN F) \cap ((l.end + 1) .. (l.end + v.maxBars)) :
     Distance(Opposite(l.direction), F[i].close, LegLevel(F, v, l)) > v.tolerance}

\* The legs that are turned, each with the bar that does it.
TurnsOf(F, T, v) ==
  LET turned == {l \in LegsOf(F, T, v) :
                   l.end - l.start + 1 >= v.minLength /\ Clearings(F, v, l) # {}}
  IN  {[leg |-> l, bar |-> Min(Clearings(F, v, l))] : l \in turned}

\* The state machine runs in trigger order.
Earlier(x, y) == x.bar < y.bar \/ (x.bar = y.bar /\ x.leg.start < y.leg.start)

\* The state turn x of S finds: the direction of the turn before it, which left the
\* machine in that state whether it changed it or repeated it.
StateBefore(S, x) ==
  LET done == {y \in S : Earlier(y, x)}
      last == CHOOSE y \in done : \A z \in done : z = y \/ Earlier(z, y)
  IN  IF done = {} THEN "undefined" ELSE Opposite(last.leg.direction)

Transition(S, x) ==
  [direction |-> Opposite(x.leg.direction), bar |-> x.bar, leg |-> x.leg,
   from |-> StateBefore(S, x)]

\* A repeat is not a change of state.
TransitionsOf(F, T, v) ==
  LET S == TurnsOf(F, T, v)
  IN  {t \in {Transition(S, x) : x \in S} : t.direction # t.from}

\* The order of publication: by confirmation, then by an identity that starts with
\* the direction.
PublishedBefore(x, y) ==
  x.bar < y.bar \/ (x.bar = y.bar /\ x.direction = "bearish" /\ y.direction = "bullish")

\* CisdAnalysis.state_at for a decision at the close of bar k: what the last of
\* the transitions published by then left.
DeliveryAt(S, k) ==
  LET seen == {x \in S : x.bar <= k}
  IN  IF seen = {} THEN "undefined"
      ELSE (CHOOSE x \in seen : \A y \in seen : ~PublishedBefore(x, y)).direction
=============================================================================
