--------------------------- MODULE Normalization ---------------------------
(***************************************************************************)
(* DataNormalizer (data/normalizer.py): raw rows of a provider, in the     *)
(* order they were supplied, become a frame on the grid.  A row's time is  *)
(* a number of clock ticks, GridStep of them to a slot.                    *)
(***************************************************************************)
EXTENDS Timeframes, SequencesExt

CONSTANT GridStep

ASSUME NormalizationAssumption == GridStep \in Nat \ {0}

FloorToGrid(rows) ==
  [i \in DOMAIN rows |-> [slot |-> rows[i].at \div GridStep, bar |-> rows[i].bar]]

\* The members of a finite set in the order of a relation.
Arranged(S, before) ==
  [n \in 1 .. Cardinality(S) |->
     CHOOSE i \in S : Cardinality({j \in S : <<j, i>> \in before}) = n - 1]

Ascending(S) == Arranged(S, {p \in S \X S : p[1] < p[2]})

\* mergesort is stable: equal times keep the order they were supplied in.
Earlier(rows) ==
  {p \in (DOMAIN rows) \X (DOMAIN rows) :
     \/ rows[p[1]].slot < rows[p[2]].slot
     \/ rows[p[1]].slot = rows[p[2]].slot /\ p[1] < p[2]}

Sorted(rows) ==
  LET order == Arranged(DOMAIN rows, Earlier(rows)) IN [i \in DOMAIN rows |-> rows[order[i]]]

Picked(rows, indices) ==
  LET order == Ascending(indices) IN [i \in DOMAIN order |-> rows[order[i]]]

\* A mutant: the first copy is kept.
DropLaterDuplicates(rows) ==
  Picked(rows, {i \in DOMAIN rows : \A j \in DOMAIN rows : j < i => rows[j].slot # rows[i].slot})

\* keep="last": a later copy is a correction.
DropDuplicates(rows) ==
  Picked(rows, {i \in DOMAIN rows : \A j \in DOMAIN rows : i < j => rows[j].slot # rows[i].slot})

DropInvalid(rows) == Picked(rows, {i \in DOMAIN rows : WellFormed(rows[i].bar)})

Normalize(rows) == DropInvalid(DropDuplicates(Sorted(FloorToGrid(rows))))

FrameOf(rows) ==
  [s \in {rows[i].slot : i \in DOMAIN rows} |->
     rows[CHOOSE i \in DOMAIN rows : rows[i].slot = s].bar]

\* Consecutive bars more than a step apart.
GapEdges(frame) ==
  {e \in (DOMAIN frame) \X (DOMAIN frame) :
     e[2] > e[1] + 1 /\ \A s \in DOMAIN frame : s <= e[1] \/ s >= e[2]}

DetectGaps(frame) ==
  {[start |-> e[1] + 1, end |-> e[2], bar_count |-> e[2] - e[1] - 1] : e \in GapEdges(frame)}
=============================================================================
