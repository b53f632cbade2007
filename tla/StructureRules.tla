--------------------------- MODULE StructureRules ---------------------------
(***************************************************************************)
(* The rules of ict/structure.py as functions of a frame F, a detector     *)
(* configuration c and a position: classifying a swing, testing a break of *)
(* a reference swing and naming the break.                                 *)
(***************************************************************************)
EXTENDS Swings, FiniteSetsExt

CONSTANT Configs                    \* the detector configurations considered

ConfigType ==
  [left : Nat \ {0}, right : Nat \ {0}, tie : TiePolicies, minStrength : Nat,
   mode : {"close", "wick"}, breakTol : Nat, equalTol : Nat,
   choch : {"synonym", "distinct"}, lookback : Nat \ {0},
   factorNum : Nat \ {0}, factorDen : Nat \ {0}]

\* What SwingConfig and StructureConfig refuse in __post_init__.
ASSUME ConfigsAssumption == Configs \subseteq ConfigType

States     == {"undefined", "bullish", "bearish"}
BreakTypes == {"BOS", "MSS", "CHOCH"}
LabelTypes == {"HH", "HL", "LH", "LL"}

Level(F, d, i) == Extreme(F[i], d)

----------------------------------------------------------------------------
\* _classify: the swing i against the previous swing of its own type.  No
\* label without a predecessor, nor between levels within the tolerance.

LabelName(d, delta) ==
  IF d = "bullish" THEN (IF delta > 0 THEN "HH" ELSE "LH")
                   ELSE (IF delta > 0 THEN "HL" ELSE "LL")

Classify(F, c, d, i, prev) ==
  LET delta == Level(F, d, i) - Level(F, d, prev)
      confirmations == {ConfirmIndex(c, i), ConfirmIndex(c, prev)}
  IN  IF prev = None \/ (delta <= c.equalTol /\ -delta <= c.equalTol)
      THEN {}
      ELSE {[kind |-> d, swing |-> i, previous |-> prev,
             label |-> LabelName(d, delta), confirmed |-> Max(confirmations)]}

----------------------------------------------------------------------------
\* The price compared with the reference level: the close, or in WICK mode
\* the extreme of the bar.
Probe(F, c, d, j) == IF c.mode = "close" THEN F[j].close ELSE Extreme(F[j], d)

\* Bar j breaks the reference swing ref.
Breaks(F, c, d, ref, j) ==
  ref # None /\ Distance(d, Probe(F, c, d, j), Level(F, d, ref)) > c.breakTol

\* _displacement: the bar's range against the mean range of the bars strictly
\* before it; no ratio with too few of them or with a flat baseline.
Displaced(F, c, j) ==
  LET total == SumFunction([k \in (j - c.lookback) .. (j - 1) |-> BarRange(F[k])])
  IN  /\ j > c.lookback
      /\ total > 0
      /\ BarRange(F[j]) * c.lookback * c.factorDen >= c.factorNum * total

\* _make_break: a break with the trend, or the first one, is a BOS.
BreakType(F, c, d, state, j) ==
  IF state \in {"undefined", d} THEN "BOS"
  ELSE IF c.choch = "synonym" \/ Displaced(F, c, j) THEN "MSS" ELSE "CHOCH"

\* A mutant: the reference is recorded after it was consumed.
MakeBreakConsumed(F, c, d, ref, state, j) ==
  [direction |-> d, type |-> BreakType(F, c, d, state, j), reference |-> None,
   bar |-> j, from |-> state, to |-> d]

MakeBreak(F, c, d, ref, state, j) ==
  [direction |-> d, type |-> BreakType(F, c, d, state, j), reference |-> ref,
   bar |-> j, from |-> state, to |-> d]

\* The records a decision taken at the close of bar k may use, the first ones of
\* the walk: filter_observable of contract.py.
ObservableBreaks(breaks, k) == Restrict(breaks, {n \in DOMAIN breaks : breaks[n].bar <= k})

\* StructureAnalysis.state_at.
StateAt(breaks, k) ==
  LET known == ObservableBreaks(breaks, k)
  IN  IF DOMAIN known = {} THEN "undefined" ELSE known[Max(DOMAIN known)].to
=============================================================================
