---------------------------- MODULE FairValueGaps ---------------------------
(***************************************************************************)
(* Fair value gaps (ict/fvg.py): FvgDetector.detect finds the gaps of the   *)
(* whole frame, then the walk of FvgDetector.analyse admits each when its   *)
(* third candle closes and records how deep later bars trade into it.       *)
(* Module Inversions adds what ict/ifvg.py derives from the same gaps.      *)
(***************************************************************************)
EXTENDS Zones

CONSTANTS
  OpenTimes,     \* bound: when the bars of a frame may open
  MaxBars,       \* bound: the longest frame considered
  Configs        \* the detector configurations considered

ASSUME GapAssumption ==
  /\ OpenTimes \subseteq Nat /\ MaxBars \in Nat
  /\ Configs \subseteq ConfigType
  /\ \A c \in Configs : c.partial < c.full

VARIABLES
  frame, opens,  \* the bars handed to analyse and when each opened
  config,
  zones,         \* the gaps found before the walk
  index,         \* bars already processed
  active,        \* the admitted zones that are not mitigated
  deepest,       \* per zone: the furthest price that entered it, or its entry edge
  status,        \* per zone: active, partially_filled, mitigated
  fills          \* the fill updates

vars == <<frame, opens, config, zones, index, active, deepest, status, fills>>

----------------------------------------------------------------------------
Init ==
  /\ \E n \in 0 .. MaxBars :
       /\ opens \in {T \in [1 .. n -> OpenTimes] : Increasing(T)}
       /\ frame \in [1 .. n -> Bars]
  /\ config \in Configs
  /\ zones = GapsOf(frame, opens, config)
  /\ index = 0 /\ active = {} /\ fills = {}
  /\ deepest = [z \in zones |-> EntryEdge(z)]
  /\ status = [z \in zones |-> "active"]

Admitted(j) == active \cup {z \in zones : z.third = j}

\* A mutant: a zone may be filled by its own third candle.
TriesOwn(z, j) ==
  z \in Admitted(j) /\ Deeper(z, Reach(z, frame[j]), deepest[z])

\* Bar j trades deeper into zone z than any bar before it; the third candle
\* defines the gap and cannot fill it.
Tries(z, j) ==
  z \in Admitted(j) /\ z.third < j /\ Deeper(z, Reach(z, frame[j]), deepest[z])

\* A mutant: a zone is mitigated by a close, not by the extreme of a bar.
MitigatesClose(z, j) == Tries(z, j) /\ Fills(z, frame[j].close, config.full)

Mitigates(z, j) == Tries(z, j) /\ Fills(z, Reach(z, frame[j]), config.full)

Updates(z, j) ==
  /\ Tries(z, j) /\ Depth(z, Reach(z, frame[j])) > 0
  /\ Mitigates(z, j) \/ Enters(z, Reach(z, frame[j]), config.partial)

StatusAfter(z, j) ==
  IF Mitigates(z, j) THEN "mitigated"
  ELSE IF Updates(z, j) THEN "partially_filled" ELSE status[z]

FillUpdate(z, j) ==
  [zone |-> z, bar |-> j, price |-> Reach(z, frame[j]), after |-> StatusAfter(z, j)]

\* One bar of the walk: admit, then test every active zone.
WalkBar ==
  \E j \in DOMAIN frame :
    /\ j = index + 1
    /\ index' = j
    /\ deepest' = [z \in zones |-> IF Tries(z, j) THEN Reach(z, frame[j]) ELSE deepest[z]]
    /\ status' = [z \in zones |-> StatusAfter(z, j)]
    /\ fills' = fills \cup {FillUpdate(z, j) : z \in {z \in zones : Updates(z, j)}}
    /\ active' = {z \in Admitted(j) : ~Mitigates(z, j)}
    /\ UNCHANGED <<frame, opens, config, zones>>

Next == WalkBar

Spec == Init /\ [][Next]_vars

----------------------------------------------------------------------------
\* FvgAnalysis.status_at and active_at for a decision at the close of bar k.
Observable(z, k) == z.third <= k

StatusAt(z, k) ==
  LET seen == {u \in fills : u.zone = z /\ u.bar <= k}
  IN  IF seen = {} THEN "active"
      ELSE (CHOOSE u \in seen : \A v \in seen : v.bar <= u.bar).after

ActiveAt(k) == {z \in zones : Observable(z, k) /\ StatusAt(z, k) # "mitigated"}
=============================================================================
