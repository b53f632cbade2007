---------------------------- MODULE DatasetProofs ----------------------------
(***************************************************************************)
(* What the embargo guarantees for every specification a dataset may have,  *)
(* every sample of instants and any amount of data.                         *)
(***************************************************************************)
EXTENDS Dataset, Extrema, FiniteSetTheorems

LEMMA HorizonType ==
  ASSUME NEW s \in Specs, NEW t \in s.targets
  PROVE  t.horizon \in Nat \ {0}
  BY DatasetAssumption DEF TargetSpecType

LEMMA SplitTypes ==
  ASSUME NEW s \in Specs, s.split # NoSplit
  PROVE  /\ s.split.trainEnd \in Nat \ {0}
         /\ s.split.validationEnd \in Nat \ {0}
         /\ s.split.embargo \in Nat
  BY DatasetAssumption DEF SplitType

\* Whatever the answer to a target is, it records the end of its window.
LEMMA ValueWindow ==
  ASSUME NEW F, NEW s, NEW i
  PROVE  TargetValue(F, s, i).windowEnd = WindowEnd(F, s, i)
<1>1. ASSUME NEW a, NEW b
      PROVE  /\ Answer(F, s, i, a, b).windowEnd = WindowEnd(F, s, i)
             /\ NoAnswer(F, s, i, a, b).windowEnd = WindowEnd(F, s, i)
  BY DEF Answer, NoAnswer
<1>2. Race(F, s, i).windowEnd = WindowEnd(F, s, i)
  BY <1>1, Zenon DEF Race
<1>3. Excursion(F, s, i).windowEnd = WindowEnd(F, s, i)
  BY <1>1, Zenon DEF Excursion
<1>4. Move(F, s, i).windowEnd = WindowEnd(F, s, i)
  BY <1>1, Zenon DEF Move
<1> QED
  BY <1>1, <1>2, <1>3, <1>4, Zenon DEF TargetValue

----------------------------------------------------------------------------
\* The window of a target ends its horizon after the instant, or ran off the data
\* when the row was built, which every instant of that dataset lay in.
WindowRecorded(m, t) ==
  \/ rows[m].values[t].windowEnd = m + t.horizon
  \/ /\ rows[m].values[t].windowEnd = NoBar
     /\ \A x \in DOMAIN rows : x < m + t.horizon

SpecAccepted == spec \in Specs /\ Accepted(spec)

RowsBuilt ==
  \A m \in DOMAIN rows :
    /\ m \in Nat \ {0}
    /\ rows[m].label = Label(DOMAIN rows, m, Measured(rows[m].values))
    /\ \A t \in spec.targets :
         WindowRecorded(m, t) /\ rows[m].values[t].windowEnd \in 0 .. Len(frame)

IInv == frame \in Seq(Bars \cup {Malformed}) /\ SpecAccepted /\ RowsBuilt

LEMMA InitIInv == Init => IInv
  BY DEF Init, IInv, SpecAccepted, RowsBuilt

\* A dataset built from the data at hand has rows of this form.
LEMMA BuildRows ==
  ASSUME IInv, Build
  PROVE  RowsBuilt'
<1> USE DEF IInv, SpecAccepted
<1>1. PICK sample : rows' = Rows(sample \cap DOMAIN frame)
  BY DEF Build
<1> DEFINE instants == sample \cap DOMAIN frame
<1>2. frame' = frame /\ spec' = spec /\ DOMAIN rows' = instants
  BY <1>1 DEF Build, Rows
<1>3. instants \subseteq 1 .. Len(frame) /\ Len(frame) \in Nat
  OBVIOUS
<1> SUFFICES ASSUME NEW m \in instants
             PROVE  /\ m \in Nat \ {0}
                    /\ rows'[m].label = Label(instants, m, Measured(rows'[m].values))
                    /\ \A t \in spec.targets :
                         WindowRecorded(m, t)' /\ rows'[m].values[t].windowEnd \in 0 .. Len(frame)
  BY <1>2, Zenon DEF RowsBuilt, Label, Measured, LabelOf, Bounded, EndOf, Crosses
<1>4. /\ rows'[m].values = Values(m)
      /\ rows'[m].label = Label(instants, m, Measured(Values(m)))
  BY <1>1 DEF Rows
<1>5. ASSUME NEW t \in spec.targets
      PROVE  WindowRecorded(m, t)' /\ rows'[m].values[t].windowEnd \in 0 .. Len(frame)
  <2>1. rows'[m].values[t].windowEnd = WindowEnd(frame, t, m)
    BY <1>4, ValueWindow DEF Values
  <2>2. t.horizon \in Nat \ {0} /\ m \in 1 .. Len(frame)
    BY <1>3, HorizonType
  <2>3. CASE Complete(frame, t, m)
    BY <2>1, <2>2, <2>3, <1>3 DEF WindowEnd, Complete, WindowRecorded
  <2>4. CASE ~Complete(frame, t, m)
    <3>1. \A x \in DOMAIN rows' : x < m + t.horizon
      BY <2>2, <2>4, <1>2, <1>3 DEF Complete
    <3> QED
      BY <2>1, <2>4, <3>1, <1>3 DEF WindowEnd, WindowRecorded, NoBar
  <2> QED
    BY <2>3, <2>4
<1> QED
  BY <1>3, <1>4, <1>5

\* More data change nothing about the rows that were built.
LEMMA RowsKept ==
  ASSUME RowsBuilt, rows' = rows, spec' = spec,
         Len(frame) \in Nat, Len(frame') \in Nat, Len(frame) <= Len(frame')
  PROVE  RowsBuilt'
<1> SUFFICES ASSUME NEW m \in DOMAIN rows
             PROVE  /\ m \in Nat \ {0}
                    /\ rows[m].label = Label(DOMAIN rows, m, Measured(rows[m].values))'
                    /\ \A t \in spec.targets :
                         /\ WindowRecorded(m, t)'
                         /\ rows[m].values[t].windowEnd \in 0 .. Len(frame')
  BY DEF RowsBuilt
<1>1. Label(DOMAIN rows, m, Measured(rows[m].values))'
        = Label(DOMAIN rows, m, Measured(rows[m].values))
  BY DEF Label, Measured, LabelOf, Bounded, EndOf, Crosses
<1>2. ASSUME NEW t \in spec.targets PROVE WindowRecorded(m, t)' <=> WindowRecorded(m, t)
  BY DEF WindowRecorded
<1> QED
  BY <1>1, <1>2 DEF RowsBuilt

LEMMA NextIInv == IInv /\ [Next]_vars => IInv'
<1> SUFFICES ASSUME IInv, [Next]_vars PROVE IInv'
  OBVIOUS
<1>1. CASE Ingest
  <2>1. /\ frame' \in Seq(Bars \cup {Malformed}) /\ Len(frame') = Len(frame) + 1
        /\ spec' = spec /\ rows' = rows
    BY <1>1 DEF Ingest, IInv
  <2>2. RowsBuilt'
    BY <2>1, RowsKept, Len(frame) \in Nat DEF IInv
  <2> QED
    BY <2>1, <2>2 DEF IInv, SpecAccepted, Accepted
<1>2. CASE Build
  BY <1>2, BuildRows DEF IInv, SpecAccepted, Accepted, Build
<1>3. CASE UNCHANGED vars
  <2>1. RowsBuilt'
    BY <1>3, RowsKept, Len(frame) \in Nat DEF IInv, vars
  <2> QED
    BY <1>3, <2>1 DEF IInv, SpecAccepted, Accepted, vars
<1> QED
  BY <1>1, <1>2, <1>3 DEF Next

LEMMA InvariantIInv == Spec => []IInv
  BY InitIInv, NextIInv, PTL DEF Spec

----------------------------------------------------------------------------
LEMMA SealedByLabels == IInv => WindowsSealed
<1> SUFFICES ASSUME IInv, spec.split # NoSplit,
                    NEW m \in DOMAIN rows, Bounded(rows[m].label), NEW t \in spec.targets
             PROVE  rows[m].values[t].windowEnd < EndOf(rows[m].label)
  BY DEF WindowsSealed
<1> DEFINE end == rows[m].values[t].windowEnd
           ends == Measured(rows[m].values)
<1>1. /\ rows[m].label = Label(DOMAIN rows, m, ends)
      /\ end \in Nat
  BY DEF IInv, RowsBuilt
<1>2. /\ t.horizon \in Nat \ {0} /\ t.horizon <= spec.split.embargo
      /\ spec.split.embargo \in Nat
  BY HorizonType, SplitTypes DEF IInv, SpecAccepted, Accepted
<1>3. rows[m].label = LabelOf(m) /\ ~Crosses(DOMAIN rows, m, ends)
  BY <1>1, <1>2 DEF Label, Bounded
<1>4. EndOf(LabelOf(m)) \in Nat \ {0}
  BY SplitTypes DEF IInv, SpecAccepted, EndOf
<1>5. CASE end = NoBar
  BY <1>3, <1>4, <1>5 DEF NoBar
<1>6. CASE end # NoBar
  <2>1. end \in ends
    BY <1>6 DEF Measured
  <2> QED
    BY <2>1, <1>1, <1>3, <1>4 DEF Crosses
<1> QED
  BY <1>5, <1>6

\* Rows whose future window crosses the end of their split are in no split,
\* whatever targets a row has and wherever the boundaries lie.
THEOREM WindowsSealedHolds == Spec => []WindowsSealed
  BY InvariantIInv, SealedByLabels, PTL

----------------------------------------------------------------------------
\* Without any window inside the data, no instant lies embargo positions later.
LEMMA NothingFarEnough ==
  ASSUME IInv, spec.split # NoSplit, NEW m \in DOMAIN rows, NEW t \in spec.targets,
         rows[m].values[t].windowEnd = NoBar, NEW later \in DOMAIN rows
  PROVE  Cardinality({x \in DOMAIN rows : m < x /\ x <= later}) # spec.split.embargo
<1> DEFINE between == {x \in DOMAIN rows : m < x /\ x <= later}
<1>1. m \in Nat \ {0} /\ later \in Nat /\ DOMAIN rows \subseteq Nat
  BY DEF IInv, RowsBuilt
<1>2. /\ t.horizon \in Nat \ {0} /\ t.horizon <= spec.split.embargo
      /\ spec.split.embargo \in Nat
  BY HorizonType, SplitTypes DEF IInv, SpecAccepted, Accepted
<1>3. later < m + t.horizon
  BY <1>1, <1>2 DEF IInv, RowsBuilt, WindowRecorded, NoBar
<1>4. between \subseteq (m + 1) .. later
  BY <1>1
<1>5. /\ IsFiniteSet((m + 1) .. later)
      /\ Cardinality((m + 1) .. later) = IF m + 1 > later THEN 0 ELSE later - (m + 1) + 1
  BY <1>1, m + 1 \in Int, later \in Int, FS_Interval
<1>6. Cardinality(between) <= Cardinality((m + 1) .. later) /\ IsFiniteSet(between)
  BY <1>4, <1>5, FS_Subset
<1>7. Cardinality(between) \in Nat
  BY <1>6, FS_CardinalityType
<1>8. Cardinality((m + 1) .. later) < spec.split.embargo /\ Cardinality((m + 1) .. later) \in Nat
  BY <1>1, <1>2, <1>3, <1>5
<1>9. Cardinality(between) < spec.split.embargo
  BY <1>2, <1>6, <1>7, <1>8
<1> QED
  BY <1>2, <1>7, <1>9

\* A row that is built again stays in its split or is embargoed.
Tightened ==
  spec.targets # {} => \A m \in Kept : rows'[m].label \in {rows[m].label, "embargoed"}

LEMMA BuildTightens ==
  ASSUME IInv, IInv', Build
  PROVE  Tightened
<1> SUFFICES ASSUME spec.targets # {}, NEW m \in Kept
             PROVE  rows'[m].label \in {rows[m].label, "embargoed"}
  BY DEF Tightened
<1> DEFINE ends == Measured(rows[m].values)
           new  == Measured(rows'[m].values)
<1>1. spec' = spec /\ frame' = frame /\ m \in DOMAIN rows /\ m \in DOMAIN rows'
  BY DEF Build, Kept
<1>2. rows[m].label = Label(DOMAIN rows, m, ends)
  BY <1>1 DEF IInv, RowsBuilt
<1>3. rows'[m].label = Label(DOMAIN rows', m, new)
  BY <1>1 DEF IInv, RowsBuilt, Label, Measured, LabelOf, Bounded, EndOf, Crosses
<1>4. CASE rows[m].label # "embargoed"
  BY <1>2, <1>3, <1>4 DEF Label
<1>5. CASE rows[m].label = "embargoed"
  <2>1. /\ spec.split # NoSplit /\ Bounded(LabelOf(m)) /\ spec.split.embargo > 0
        /\ Crosses(DOMAIN rows, m, ends)
    BY <1>2, <1>5 DEF Label, LabelOf
  <2>2. ends # {}
    <3>1. SUFFICES ASSUME ends = {} PROVE FALSE
      OBVIOUS
    <3>2. PICK t \in spec.targets : TRUE
      OBVIOUS
    <3>3. rows[m].values[t].windowEnd = NoBar
      BY <3>1 DEF Measured
    <3> QED
      BY <1>1, <2>1, <3>1, <3>3, NothingFarEnough DEF Crosses
  <2>3. PICK t \in spec.targets :
          /\ rows[m].values[t].windowEnd # NoBar
          /\ rows[m].values[t].windowEnd >= EndOf(LabelOf(m))
    BY <2>1, <2>2 DEF Crosses, Measured
  <2>4. rows'[m].values[t].windowEnd = rows[m].values[t].windowEnd
    <3>1. PICK sample : rows' = Rows(sample \cap DOMAIN frame)
      BY DEF Build
    <3>2. rows'[m].values[t].windowEnd = WindowEnd(frame, t, m)
      BY <1>1, <3>1, ValueWindow DEF Rows, Values
    <3>3. /\ rows[m].values[t].windowEnd = m + t.horizon
          /\ m + t.horizon <= Len(frame)
      BY <1>1, <2>3 DEF IInv, RowsBuilt, WindowRecorded
    <3> QED
      BY <3>2, <3>3 DEF WindowEnd, Complete
  <2>5. Crosses(DOMAIN rows', m, new)
    <3>1. rows'[m].values[t].windowEnd \in new
      BY <1>1, <2>3, <2>4 DEF Measured
    <3> QED
      BY <2>3, <2>4, <3>1 DEF Crosses
  <2> QED
    BY <1>3, <2>1, <2>5 DEF Label
<1> QED
  BY <1>4, <1>5

LEMMA StepTightens == IInv /\ IInv' /\ [Next]_vars => [Tightened]_vars
<1> SUFFICES ASSUME IInv, IInv', Next PROVE Tightened \/ UNCHANGED vars
  OBVIOUS
<1>1. CASE Ingest
  BY <1>1 DEF Ingest, Tightened, Kept
<1>2. CASE Build
  BY <1>2, BuildTightens
<1> QED
  BY <1>1, <1>2 DEF Next

\* No instant moves from one split to another when the dataset is built again
\* from more data or from another sample, and the embargo is never lifted.
THEOREM LabelsOnlyTightenHolds == Spec => LabelsOnlyTighten
<1>1. IInv /\ IInv' /\ [Next]_vars =>
        [spec.targets # {} =>
           \A m \in Kept : rows'[m].label \in {rows[m].label, "embargoed"}]_vars
  BY StepTightens DEF Tightened
<1> QED
  BY <1>1, InvariantIInv, PTL DEF Spec, LabelsOnlyTighten

----------------------------------------------------------------------------
(***************************************************************************)
(* The race to a barrier.  The bars of its window that end it: those       *)
(* without prices and those that touch a barrier.                          *)
(***************************************************************************)

Frames == Seq(Bars \cup {Malformed})

Bad(F, s, i) == {k \in Window(F, s, i) : ~Finite(F[k])}

Touching(F, s, i, side, distance) ==
  {k \in Window(F, s, i) \ Bad(F, s, i) : Touches(F, s, i, side, distance, k)}

Profit(F, s, i) == Touching(F, s, i, s.side, s.takeProfit)
Loss(F, s, i)   == Touching(F, s, i, Opposite(s.side), s.stopLoss)
Ends(F, s, i)   == Bad(F, s, i) \cup Profit(F, s, i) \cup Loss(F, s, i)

\* The bar f ends the race.
First(F, s, i, f) == f \in Ends(F, s, i) /\ \A k \in Ends(F, s, i) : f <= k

LEMMA WindowIs ==
  ASSUME NEW F, Len(F) \in Nat, NEW s, s.horizon \in Nat \ {0}, NEW i \in 1 .. Len(F)
  PROVE  /\ \A k : k \in Window(F, s, i) <=> k \in i + 1 .. Len(F) /\ k <= i + s.horizon
         /\ Last(F, s, i) \in i .. Len(F)
         /\ Complete(F, s, i) => Last(F, s, i) = i + s.horizon
<1>1. Last(F, s, i) = IF i + s.horizon <= Len(F) THEN i + s.horizon ELSE Len(F)
  <2>1. i + s.horizon \in Int /\ Len(F) \in Int
    OBVIOUS
  <2>2. Min({i + s.horizon, Len(F)}) =
          IF i + s.horizon <= Len(F) THEN i + s.horizon ELSE Len(F)
    BY <2>1, TwoInts
  <2> QED
    BY <2>2 DEF Last
<1> QED
  BY <1>1 DEF Window, Complete

\* What ends a race is its answer.
LEMMA RaceIs ==
  ASSUME NEW F \in Frames, NEW s, s.horizon \in Nat \ {0}, NEW i \in 1 .. Len(F)
  PROVE  /\ Ends(F, s, i) = {} =>
              Race(F, s, i) = NoAnswer(F, s, i, IF Complete(F, s, i)
                                                THEN "no_touch_within_horizon"
                                                ELSE "insufficient_history", NoBar)
         /\ Ends(F, s, i) # {} => \E f \in Ends(F, s, i) : First(F, s, i, f)
         /\ \A f \in Ends(F, s, i) : First(F, s, i, f) =>
              Race(F, s, i) =
                IF f \in Bad(F, s, i) THEN NoAnswer(F, s, i, "malformed_future_bar", NoBar)
                ELSE IF f \in Profit(F, s, i) \cap Loss(F, s, i)
                THEN NoAnswer(F, s, i, "same_bar_ambiguity", f)
                ELSE Answer(F, s, i, IF f \in Profit(F, s, i) THEN <<"tp_first">>
                                     ELSE <<"sl_first">>, f)
<1>1. Race(F, s, i) =
        IF Ends(F, s, i) = {}
        THEN NoAnswer(F, s, i, IF Complete(F, s, i) THEN "no_touch_within_horizon"
                               ELSE "insufficient_history", NoBar)
        ELSE IF Min(Ends(F, s, i)) \in Bad(F, s, i)
        THEN NoAnswer(F, s, i, "malformed_future_bar", NoBar)
        ELSE IF Min(Ends(F, s, i)) \in Profit(F, s, i) \cap Loss(F, s, i)
        THEN NoAnswer(F, s, i, "same_bar_ambiguity", Min(Ends(F, s, i)))
        ELSE Answer(F, s, i, IF Min(Ends(F, s, i)) \in Profit(F, s, i) THEN <<"tp_first">>
                             ELSE <<"sl_first">>, Min(Ends(F, s, i)))
  BY Zenon DEF Race, Ends, Bad, Profit, Loss, Touching
<1>2. Len(F) \in Nat /\ Ends(F, s, i) \in SUBSET Nat
  <2>1. Len(F) \in Nat
    BY DEF Frames
  <2>2. Window(F, s, i) \subseteq Nat
    BY <2>1, WindowIs
  <2> QED
    BY <2>1, <2>2 DEF Ends, Bad, Profit, Loss, Touching
<1>3. ASSUME NEW f \in Ends(F, s, i), First(F, s, i, f)
      PROVE  Min(Ends(F, s, i)) = f
  <2>1. Ends(F, s, i) \in SUBSET Int /\ \A k \in Ends(F, s, i) : f <= k
    BY <1>2, <1>3 DEF First
  <2> QED
    BY <2>1, LeastIs
<1>4. Ends(F, s, i) # {} => \E f \in Ends(F, s, i) : First(F, s, i, f)
  BY <1>2, HasLeast DEF First
<1> QED
  BY <1>1, <1>3, <1>4, Zenon

----------------------------------------------------------------------------
(***************************************************************************)
(* An answer given once is the answer of every longer frame: nothing that  *)
(* decides lies behind the window, and a race is decided by its first bar. *)
(***************************************************************************)

SameAnswer(a, b) ==
  /\ a.resolved = b.resolved /\ a.reason = b.reason
  /\ a.answer = b.answer /\ a.decided = b.decided

LEMMA AnswersCompared ==
  ASSUME NEW F, NEW G, NEW s, NEW i, NEW a, NEW b
  PROVE  /\ SameAnswer(Answer(F, s, i, a, b), Answer(G, s, i, a, b))
         /\ SameAnswer(NoAnswer(F, s, i, a, b), NoAnswer(G, s, i, a, b))
         /\ Answer(F, s, i, a, b).resolved /\ Answer(F, s, i, a, b).answer = a
         /\ Answer(F, s, i, a, b).reason = "none" /\ Answer(F, s, i, a, b).decided = b
         /\ ~NoAnswer(F, s, i, a, b).resolved /\ NoAnswer(F, s, i, a, b).answer = <<>>
         /\ NoAnswer(F, s, i, a, b).reason = a /\ NoAnswer(F, s, i, a, b).decided = b
BY DEF SameAnswer, Answer, NoAnswer

LEMMA PrefixIs ==
  ASSUME NEW F \in Frames, NEW n \in 0 .. Len(F)
  PROVE  /\ SubSeq(F, 1, n) \in Frames /\ Len(SubSeq(F, 1, n)) = n
         /\ \A k \in 1 .. n : SubSeq(F, 1, n)[k] = F[k]
BY DEF Frames

LEMMA RaceOfPrefix ==
  ASSUME NEW F \in Frames, NEW n \in 0 .. Len(F), NEW i \in 1 .. n, NEW s,
         s.horizon \in Nat \ {0},
         Race(SubSeq(F, 1, n), s, i).reason # "insufficient_history"
  PROVE  SameAnswer(Race(F, s, i), Race(SubSeq(F, 1, n), s, i))
<1> DEFINE G == SubSeq(F, 1, n)
<1>1. /\ Len(F) \in Nat /\ n \in Nat /\ i \in 1 .. Len(F)
      /\ G \in Frames /\ Len(G) = n /\ \A k \in 1 .. n : G[k] = F[k]
  BY PrefixIs DEF Frames
<1>0. Race(G, s, i).reason # "insufficient_history" /\ i \in 1 .. Len(G)
  BY <1>1
<1> HIDE DEF G
<1>2. /\ \A k : k \in Window(F, s, i) <=> k \in i + 1 .. Len(F) /\ k <= i + s.horizon
      /\ \A k : k \in Window(G, s, i) <=> k \in i + 1 .. n /\ k <= i + s.horizon
  <2>1. \A k : k \in Window(G, s, i) <=> k \in i + 1 .. Len(G) /\ k <= i + s.horizon
    BY <1>1, WindowIs
  <2> QED
    BY <1>1, <2>1, WindowIs
<1>3. \A k \in Window(F, s, i) : k \in Window(G, s, i) \/ k > n
  BY <1>1, <1>2
<1>4. \A k \in Window(G, s, i) : k \in Window(F, s, i) /\ k \in 1 .. n /\ G[k] = F[k]
  BY <1>1, <1>2
<1>5. G[i] = F[i]
  BY <1>1
<1>6. \A k \in Window(G, s, i) : \A d, x : Touches(G, s, i, d, x, k) <=> Touches(F, s, i, d, x, k)
  BY <1>4, <1>5 DEF Touches, Crossed
<1>7. \A k \in Window(G, s, i) : k \in Bad(G, s, i) <=> k \in Bad(F, s, i)
  BY <1>4 DEF Bad
<1>8. \A k \in Window(G, s, i) : /\ k \in Profit(G, s, i) <=> k \in Profit(F, s, i)
                                 /\ k \in Loss(G, s, i) <=> k \in Loss(F, s, i)
  BY <1>4, <1>6, <1>7 DEF Profit, Loss, Touching
<1>9. /\ Ends(F, s, i) \subseteq Window(F, s, i) /\ Ends(G, s, i) \subseteq Window(G, s, i)
      /\ \A k \in Window(G, s, i) : k \in Ends(G, s, i) <=> k \in Ends(F, s, i)
  BY <1>7, <1>8 DEF Ends, Bad, Profit, Loss, Touching
<1>10. CASE Ends(G, s, i) = {}
  <2>1. Complete(G, s, i)
    BY <1>0, <1>1, <1>10, RaceIs, AnswersCompared
  <2>2. /\ Complete(F, s, i)
        /\ \A k \in Window(F, s, i) : k \in Window(G, s, i)
    BY <1>1, <1>2, <2>1 DEF Complete
  <2>3. Ends(F, s, i) = {}
    BY <1>9, <1>10, <2>2
  <2>4. /\ Race(F, s, i) = NoAnswer(F, s, i, "no_touch_within_horizon", NoBar)
        /\ Race(G, s, i) = NoAnswer(G, s, i, "no_touch_within_horizon", NoBar)
    BY <1>1, <1>10, <2>1, <2>2, <2>3, RaceIs
  <2> QED
    BY <2>4, AnswersCompared DEF G
<1>11. CASE Ends(G, s, i) # {}
  <2>1. PICK f \in Ends(G, s, i) : First(G, s, i, f)
    BY <1>0, <1>1, <1>11, RaceIs
  <2>2. f \in Window(G, s, i) /\ f \in Ends(F, s, i) /\ f \in 1 .. n
    BY <1>4, <1>9
  <2>3. First(F, s, i, f)
    <3>1. \A k \in Ends(F, s, i) : k \in Ends(G, s, i) \/ k > n
      BY <1>3, <1>9
    <3>2. \A k \in Ends(F, s, i) : k \in Int
      BY <1>2, <1>9
    <3> QED
      BY <1>1, <2>1, <2>2, <3>1, <3>2 DEF First
  <2>4. Race(F, s, i) =
          IF f \in Bad(F, s, i) THEN NoAnswer(F, s, i, "malformed_future_bar", NoBar)
          ELSE IF f \in Profit(F, s, i) \cap Loss(F, s, i)
          THEN NoAnswer(F, s, i, "same_bar_ambiguity", f)
          ELSE Answer(F, s, i, IF f \in Profit(F, s, i) THEN <<"tp_first">>
                               ELSE <<"sl_first">>, f)
    BY <1>1, <2>2, <2>3, RaceIs
  <2>5. Race(G, s, i) =
          IF f \in Bad(G, s, i) THEN NoAnswer(G, s, i, "malformed_future_bar", NoBar)
          ELSE IF f \in Profit(G, s, i) \cap Loss(G, s, i)
          THEN NoAnswer(G, s, i, "same_bar_ambiguity", f)
          ELSE Answer(G, s, i, IF f \in Profit(G, s, i) THEN <<"tp_first">>
                               ELSE <<"sl_first">>, f)
    BY <1>0, <1>1, <2>1, RaceIs
  <2>6. /\ f \in Bad(G, s, i) <=> f \in Bad(F, s, i)
        /\ f \in Profit(G, s, i) <=> f \in Profit(F, s, i)
        /\ f \in Loss(G, s, i) <=> f \in Loss(F, s, i)
    BY <1>7, <1>8, <2>2
  <2>7. SameAnswer(Race(F, s, i), Race(G, s, i))
    <3>1. CASE f \in Bad(F, s, i)
      BY <2>4, <2>5, <2>6, <3>1, AnswersCompared
    <3>2. CASE f \notin Bad(F, s, i) /\ f \in Profit(F, s, i) \cap Loss(F, s, i)
      BY <2>4, <2>5, <2>6, <3>2, AnswersCompared
    <3>3. CASE f \notin Bad(F, s, i) /\ f \notin Profit(F, s, i) \cap Loss(F, s, i)
      <4>1. CASE f \in Profit(F, s, i)
        BY <2>4, <2>5, <2>6, <3>3, <4>1, AnswersCompared
      <4>2. CASE f \notin Profit(F, s, i)
        BY <2>4, <2>5, <2>6, <3>3, <4>2, AnswersCompared
      <4> QED
        BY <4>1, <4>2
    <3> QED
      BY <3>1, <3>2, <3>3
  <2> QED
    BY <2>7 DEF G
<1> QED
  BY <1>10, <1>11

\* The other answers are given only when the window is complete.
LEMMA ValueOfPrefix ==
  ASSUME NEW F \in Frames, NEW n \in 0 .. Len(F), NEW i \in 1 .. n, NEW s,
         s.horizon \in Nat \ {0},
         TargetValue(SubSeq(F, 1, n), s, i).reason # "insufficient_history"
  PROVE  SameAnswer(TargetValue(F, s, i), TargetValue(SubSeq(F, 1, n), s, i))
<1> DEFINE G == SubSeq(F, 1, n)
<1>1. /\ Len(F) \in Nat /\ n \in Nat /\ i \in 1 .. Len(F)
      /\ G \in Frames /\ Len(G) = n /\ \A k \in 1 .. n : G[k] = F[k]
  BY PrefixIs DEF Frames
<1>2. Race(G, s, i).reason # "insufficient_history"
      => SameAnswer(Race(F, s, i), Race(G, s, i))
  BY RaceOfPrefix
<1> HIDE DEF G
<1>3. G[i] = F[i] /\ i \in 1 .. Len(G)
  BY <1>1
<1>4. TargetValue(G, s, i).reason # "insufficient_history"
  BY DEF G
<1>5. CASE ~Finite(F[i])
  BY <1>3, <1>5, AnswersCompared DEF TargetValue, G
<1>6. CASE Finite(F[i]) /\ s.kind = "tp_before_sl"
  BY <1>2, <1>3, <1>4, <1>6 DEF TargetValue, G
<1>7. CASE Finite(F[i]) /\ s.kind # "tp_before_sl"
  <2>1. Complete(G, s, i)
    BY <1>3, <1>4, <1>7, AnswersCompared DEF TargetValue
  <2>2. Complete(F, s, i)
    BY <1>1, <2>1 DEF Complete
  <2>3. Last(G, s, i) = i + s.horizon /\ Last(F, s, i) = i + s.horizon
    BY <1>1, <1>3, <2>1, <2>2, WindowIs
  <2>4. /\ Window(G, s, i) = Window(F, s, i) /\ Last(G, s, i) = Last(F, s, i)
        /\ \A k \in Window(G, s, i) : G[k] = F[k]
        /\ G[Last(G, s, i)] = F[Last(F, s, i)]
    BY <1>1, <2>1, <2>3 DEF Window, Complete
  <2>5. SameAnswer(Excursion(F, s, i), Excursion(G, s, i))
    <3>1. /\ {G[k].high : k \in Window(G, s, i)} = {F[k].high : k \in Window(F, s, i)}
          /\ {G[k].low : k \in Window(G, s, i)} = {F[k].low : k \in Window(F, s, i)}
          /\ (\E k \in Window(G, s, i) : ~Finite(G[k]))
             <=> \E k \in Window(F, s, i) : ~Finite(F[k])
      BY <2>4
    <3> QED
      BY <1>3, <3>1, AnswersCompared, Zenon DEF Excursion
  <2>6. SameAnswer(Move(F, s, i), Move(G, s, i))
    BY <1>3, <2>4, AnswersCompared, Zenon DEF Move
  <2> QED
    BY <1>3, <1>7, <2>1, <2>2, <2>5, <2>6 DEF TargetValue, G
<1> QED
  BY <1>5, <1>6, <1>7

\* The rows were answered from the first n bars.
AnsweredFrom(n) ==
  /\ n \in 0 .. Len(frame)
  /\ \A m \in DOMAIN rows :
       /\ m \in 1 .. n
       /\ \A t \in spec.targets :
            rows[m].values[t] = TargetValue(SubSeq(frame, 1, n), t, m)

RowsAnswered == \E n \in 0 .. Len(frame) : AnsweredFrom(n)

LEMMA BuildAnswers ==
  ASSUME IInv, Build
  PROVE  /\ spec' = spec /\ frame' = frame
         /\ \A m \in DOMAIN rows' :
              /\ m \in 1 .. Len(frame)
              /\ \A t \in spec.targets : rows'[m].values[t] = TargetValue(frame, t, m)
<1>1. PICK sample : rows' = Rows(sample \cap DOMAIN frame)
  BY DEF Build
<1>2. DOMAIN frame = 1 .. Len(frame)
  BY DEF IInv
<1>3. spec' = spec /\ frame' = frame
  BY DEF Build
<1>4. \A m \in sample \cap DOMAIN frame : rows'[m].values = Values(m)
  BY <1>1 DEF Rows
<1>5. DOMAIN rows' = sample \cap DOMAIN frame
  BY <1>1 DEF Rows
<1> QED
  BY <1>2, <1>3, <1>4, <1>5 DEF Values

LEMMA StepAnswered == IInv /\ RowsAnswered /\ [Next]_vars => RowsAnswered'
<1> SUFFICES ASSUME IInv, RowsAnswered, [Next]_vars PROVE RowsAnswered'
  OBVIOUS
<1>0. frame \in Frames /\ Len(frame) \in Nat
  BY DEF IInv, Frames
<1>1. PICK n \in 0 .. Len(frame) : AnsweredFrom(n)
  BY DEF RowsAnswered
<1>2. CASE Ingest
  <2>1. PICK bar \in Bars \cup {Malformed} : frame' = Append(frame, bar)
    BY <1>2 DEF Ingest
  <2>2. spec' = spec /\ rows' = rows
    BY <1>2 DEF Ingest
  <2>3. Len(frame') = Len(frame) + 1 /\ SubSeq(frame', 1, n) = SubSeq(frame, 1, n)
    BY <1>0, <2>1 DEF Frames
  <2>4. n \in 0 .. Len(frame')
    BY <1>0, <2>3
  <2>5. /\ n \in 0 .. Len(frame')
        /\ \A m \in DOMAIN rows' :
             /\ m \in 1 .. n
             /\ \A t \in spec'.targets :
                  rows'[m].values[t] = TargetValue(SubSeq(frame', 1, n), t, m)
    BY <1>1, <2>2, <2>3, <2>4 DEF AnsweredFrom
  <2> QED
    BY <2>4, <2>5 DEF RowsAnswered, AnsweredFrom
<1>3. CASE Build
  <2>1. SubSeq(frame, 1, Len(frame)) = frame /\ Len(frame) \in 0 .. Len(frame)
    BY <1>0 DEF Frames
  <2>2. /\ Len(frame') \in 0 .. Len(frame')
        /\ \A m \in DOMAIN rows' :
             /\ m \in 1 .. Len(frame')
             /\ \A t \in spec'.targets :
                  rows'[m].values[t] = TargetValue(SubSeq(frame', 1, Len(frame')), t, m)
    BY <1>3, <2>1, BuildAnswers
  <2> QED
    BY <2>2 DEF RowsAnswered, AnsweredFrom
<1>4. CASE UNCHANGED vars
  BY <1>1, <1>4 DEF vars, RowsAnswered, AnsweredFrom
<1> QED
  BY <1>2, <1>3, <1>4 DEF Next

LEMMA AlwaysAnswered == Spec => []RowsAnswered
<1>1. Init => RowsAnswered
  <2> SUFFICES ASSUME Init PROVE RowsAnswered
    OBVIOUS
  <2>1. Len(frame) = 0 /\ DOMAIN rows = {}
    BY DEF Init
  <2>2. AnsweredFrom(0)
    BY <2>1 DEF AnsweredFrom
  <2> QED
    BY <2>1, <2>2 DEF RowsAnswered
<1> QED
  BY <1>1, StepAnswered, InvariantIInv, PTL DEF Spec

\* An answer, and every refusal that is not for lack of data, is final: built
\* again from more data or for another sample, a row repeats it.
THEOREM AnsweredForGoodHolds == Spec => AnsweredForGood
<1> DEFINE Repeated ==
      \A m \in Kept : \A t \in spec.targets :
        LET old == rows[m].values[t]
            new == rows'[m].values[t]
        IN  old.reason # "insufficient_history" =>
              /\ new.resolved = old.resolved /\ new.reason = old.reason
              /\ new.answer = old.answer /\ new.decided = old.decided
<1>1. IInv /\ RowsAnswered /\ [Next]_vars => [Repeated]_vars
  <2> SUFFICES ASSUME IInv, RowsAnswered, Next, NEW m \in Kept, NEW t \in spec.targets,
                      rows[m].values[t].reason # "insufficient_history"
               PROVE  SameAnswer(rows'[m].values[t], rows[m].values[t])
    BY DEF SameAnswer
  <2>1. CASE Ingest
    BY <2>1 DEF Ingest, SameAnswer
  <2>2. CASE Build
    <3>1. PICK n \in 0 .. Len(frame) : AnsweredFrom(n)
      BY DEF RowsAnswered
    <3>2. m \in 1 .. n /\ rows[m].values[t] = TargetValue(SubSeq(frame, 1, n), t, m)
      BY <3>1 DEF AnsweredFrom, Kept
    <3>3. rows'[m].values[t] = TargetValue(frame, t, m)
      BY <2>2, BuildAnswers DEF Kept
    <3>4. t.horizon \in Nat \ {0} /\ frame \in Frames
      BY HorizonType DEF IInv, SpecAccepted, Frames
    <3> QED
      BY <3>2, <3>3, <3>4, ValueOfPrefix
  <2> QED
    BY <2>1, <2>2 DEF Next
<1> HIDE DEF Repeated
<1>2. [][Repeated]_vars => AnsweredForGood
  BY PTL DEF AnsweredForGood, Repeated
<1> QED
  BY <1>1, <1>2, InvariantIInv, AlwaysAnswered, PTL DEF Spec

----------------------------------------------------------------------------
(***************************************************************************)
(* A race against the excursion of its window and against the same trade   *)
(* seen from the other side.                                               *)
(***************************************************************************)

LEMMA RaceFields ==
  ASSUME NEW s \in Specs, NEW t \in s.targets, t.kind = "tp_before_sl"
  PROVE  /\ t.side \in Directions /\ t.takeProfit \in Nat \ {0} /\ t.stopLoss \in Nat \ {0}
         /\ t.horizon \in Nat \ {0}
  BY DatasetAssumption DEF TargetSpecType

LEMMA PricesOf ==
  ASSUME NEW F \in Frames, NEW k \in 1 .. Len(F), Finite(F[k])
  PROVE  F[k].high \in Int /\ F[k].low \in Int /\ F[k].close \in Int
<1>1. F[k] \in Bars
  BY DEF Frames, Finite
<1> QED
  BY <1>1, BarsAssumption DEF WellFormed

\* The furthest high and the furthest low of some bars are those of one of them.
LEMMA Furthest ==
  ASSUME NEW F \in Frames, NEW S \in SUBSET (1 .. Len(F)), S # {}, \A k \in S : Finite(F[k])
  PROVE  /\ \E x \in S : /\ Max({F[k].high : k \in S}) = F[x].high
                         /\ \A k \in S : F[k].high <= F[x].high
         /\ \E x \in S : /\ Min({F[k].low : k \in S}) = F[x].low
                         /\ \A k \in S : F[x].low <= F[k].low
<1>0. Len(F) \in Nat /\ \A k \in S : F[k].high \in Int /\ F[k].low \in Int
  <2>1. Len(F) \in Nat
    BY DEF Frames
  <2>2. \A k \in S : k \in 1 .. Len(F) /\ Finite(F[k])
    OBVIOUS
  <2> QED
    BY <2>1, <2>2, PricesOf
<1> DEFINE H == [k \in 1 .. Len(F) |-> IF k \in S THEN F[k].high ELSE 0]
           L == [k \in 1 .. Len(F) |-> IF k \in S THEN -F[k].low ELSE 0]
<1>1. H \in [1 .. Len(F) -> Int] /\ L \in [1 .. Len(F) -> Int]
  BY <1>0
<1>2. \A k \in S : H[k] = F[k].high /\ L[k] = -F[k].low
  OBVIOUS
<1> HIDE DEF H, L
<1>3. PICK x \in S : \A k \in S : H[k] <= H[x]
  BY <1>0, <1>1, Peak
<1>4. PICK y \in S : \A k \in S : L[k] <= L[y]
  BY <1>0, <1>1, Peak
<1>5. \A k \in S : F[k].high <= F[x].high
  BY <1>2, <1>3
<1>6. \A k \in S : F[y].low <= F[k].low
  BY <1>0, <1>2, <1>4
<1>7. Max({F[k].high : k \in S}) = F[x].high
  <2> DEFINE T == {F[k].high : k \in S}
  <2>1. F[x].high \in T /\ \A z \in T : z \in Int /\ F[x].high >= z
    BY <1>0, <1>5
  <2> HIDE DEF T
  <2>2. \A z \in T : (\A w \in T : z >= w) => z = F[x].high
    BY <2>1
  <2>3. Max(T) = F[x].high
    BY <2>1, <2>2 DEF Max
  <2> QED
    BY <2>3 DEF T
<1>8. Min({F[k].low : k \in S}) = F[y].low
  <2> DEFINE T == {F[k].low : k \in S}
  <2>1. F[y].low \in T /\ T \in SUBSET Int /\ \A z \in T : F[y].low <= z
    BY <1>0, <1>6
  <2> HIDE DEF T
  <2> QED
    BY <2>1, LeastIs DEF T
<1> QED
  BY <1>5, <1>6, <1>7, <1>8

\* How far bar k lies from the reference of bar i on one side of it.
Reach(F, i, side, k) == Distance(side, Extreme(F[k], side), F[i].close)

\* The answer a on one side is the reach of a bar of S, and none reaches further.
Reached(F, i, side, S, a) ==
  \E x \in S : /\ a = Reach(F, i, side, x)
               /\ \A k \in S : Reach(F, i, side, k) <= Reach(F, i, side, x)

LEMMA ExcursionIs ==
  ASSUME NEW F \in Frames, NEW s, s.horizon \in Nat \ {0}, NEW i \in 1 .. Len(F),
         Finite(F[i]), Excursion(F, s, i).resolved, Complete(F, s, i),
         NEW side \in Directions
  PROVE  /\ \A k \in Window(F, s, i) : Finite(F[k])
         /\ Reached(F, i, side, Window(F, s, i), Excursion(F, s, i).answer[Position(side)])
<1> DEFINE S == Window(F, s, i)
           top == Max({F[k].high : k \in S})
           bottom == Min({F[k].low : k \in S})
<1>1. \A k \in S : Finite(F[k])
  BY AnswersCompared DEF Excursion
<1>2. Excursion(F, s, i).answer = <<top - F[i].close, F[i].close - bottom>>
  BY <1>1, AnswersCompared DEF Excursion
<1>3. S \in SUBSET (1 .. Len(F)) /\ S # {} /\ Len(F) \in Nat
  <2>1. Len(F) \in Nat
    BY DEF Frames
  <2>2. i + 1 \in S
    <3>1. i + 1 \in i + 1 .. Len(F) /\ i + 1 <= i + s.horizon
      BY <2>1 DEF Complete
    <3> QED
      BY <2>1, <3>1, WindowIs
  <2> QED
    BY <2>1, <2>2, WindowIs
<1> HIDE DEF S
<1>4. F[i].close \in Int /\ \A k \in S : F[k].high \in Int /\ F[k].low \in Int
  BY <1>1, <1>3, PricesOf
<1>5. CASE side = "bullish"
  <2>1. PICK x \in S : top = F[x].high /\ \A k \in S : F[k].high <= F[x].high
    BY <1>1, <1>3, Furthest
  <2>2. Excursion(F, s, i).answer[Position(side)] = top - F[i].close
    BY <1>2, <1>5 DEF Position
  <2> HIDE DEF top, bottom
  <2>3. \A k \in S : Reach(F, i, side, k) = F[k].high - F[i].close
    BY <1>5 DEF Reach, Distance, Extreme
  <2>4. \A k \in S : Reach(F, i, side, k) <= Reach(F, i, side, x)
    BY <1>4, <2>1, <2>3
  <2> QED
    BY <1>1, <2>1, <2>2, <2>3, <2>4 DEF Reached, S
<1>6. CASE side = "bearish"
  <2>1. PICK x \in S : bottom = F[x].low /\ \A k \in S : F[x].low <= F[k].low
    BY <1>1, <1>3, Furthest
  <2>2. Excursion(F, s, i).answer[Position(side)] = F[i].close - bottom
    BY <1>2, <1>6 DEF Position
  <2> HIDE DEF top, bottom
  <2>3. \A k \in S : Reach(F, i, side, k) = F[i].close - F[k].low
    BY <1>6 DEF Reach, Distance, Extreme
  <2>4. \A k \in S : Reach(F, i, side, k) <= Reach(F, i, side, x)
    BY <1>4, <2>1, <2>3
  <2> QED
    BY <1>1, <2>1, <2>2, <2>3, <2>4 DEF Reached, S
<1> QED
  BY <1>5, <1>6 DEF Directions

\* Bar k touches a barrier when it does not miss it.
LEMMA TouchIsReach ==
  ASSUME NEW F, NEW s, NEW i, NEW side, NEW distance \in Nat, NEW k,
         Reach(F, i, side, k) \in Int
  PROVE  Touches(F, s, i, side, distance, k)
           <=> ~Missed(Reach(F, i, side, k), side, F[i].close, distance)
BY DEF Touches, Crossed, Missed, Reach

\* What does not miss a barrier reaches it.
LEMMA NotMissedReached ==
  ASSUME NEW r \in Int, NEW side, NEW ref, NEW distance \in Nat,
         ~Missed(r, side, ref, distance)
  PROVE  r >= distance
BY DEF Missed

LEMMA RaceWithinSwing ==
  ASSUME NEW F \in Frames, NEW t, NEW i \in 1 .. Len(F), t.kind = "tp_before_sl",
         t.side \in Directions, t.takeProfit \in Nat, t.stopLoss \in Nat,
         t.horizon \in Nat \ {0}, TargetValue(F, SwingOf(t), i).resolved
  PROVE  LET race  == TargetValue(F, t, i)
             swing == TargetValue(F, SwingOf(t), i)
             toward == Position(t.side)
             ref   == F[i].close
         IN  /\ race.answer = <<"tp_first">> => swing.answer[toward] >= t.takeProfit
             /\ race.answer = <<"sl_first">> => swing.answer[3 - toward] >= t.stopLoss
             /\ race.reason = "no_touch_within_horizon" =>
                  /\ Missed(swing.answer[toward], t.side, ref, t.takeProfit)
                  /\ Missed(swing.answer[3 - toward], Opposite(t.side), ref, t.stopLoss)
<1> DEFINE w == SwingOf(t)
           S == Window(F, t, i)
           toward == Excursion(F, w, i).answer[Position(t.side)]
           against == Excursion(F, w, i).answer[Position(Opposite(t.side))]
<1>1. w.horizon = t.horizon /\ w.kind = "excursion"
  BY DEF SwingOf
<1>2. Finite(F[i]) /\ Complete(F, w, i) /\ Excursion(F, w, i).resolved
      /\ TargetValue(F, w, i) = Excursion(F, w, i)
  <2>1. Finite(F[i]) /\ Complete(F, w, i)
    BY <1>1, AnswersCompared DEF TargetValue
  <2> QED
    BY <1>1, <2>1 DEF TargetValue
<1>3. TargetValue(F, t, i) = Race(F, t, i)
  BY <1>2 DEF TargetValue
<1>4. Window(F, w, i) = S
  BY <1>1 DEF Window, Last
<1>5. Opposite(t.side) \in Directions
  BY DEF Opposite, Directions
<1>6. /\ \A k \in S : Finite(F[k])
      /\ Reached(F, i, t.side, S, toward) /\ Reached(F, i, Opposite(t.side), S, against)
  BY <1>1, <1>2, <1>4, <1>5, ExcursionIs
<1>7. 3 - Position(t.side) = Position(Opposite(t.side))
  BY DEF Position, Opposite, Directions
<1> HIDE DEF S, toward, against, w
<1>8. \A k \in S : /\ Reach(F, i, t.side, k) \in Int
                   /\ Reach(F, i, Opposite(t.side), k) \in Int
  <2>1. Len(F) \in Nat
    BY DEF Frames
  <2>2. S \subseteq 1 .. Len(F)
    BY <2>1, WindowIs DEF S
  <2>3. F[i].close \in Int /\ \A k \in S : F[k].high \in Int /\ F[k].low \in Int
    BY <1>2, <1>6, <2>2, PricesOf
  <2> QED
    BY <2>3 DEF Reach, Distance, Extreme
<1>9. /\ Bad(F, t, i) = {}
      /\ \A k : k \in Profit(F, t, i) <=>
                  k \in S /\ ~Missed(Reach(F, i, t.side, k), t.side, F[i].close, t.takeProfit)
      /\ \A k : k \in Loss(F, t, i) <=>
                  /\ k \in S
                  /\ ~Missed(Reach(F, i, Opposite(t.side), k), Opposite(t.side), F[i].close,
                             t.stopLoss)
  <2>1. Bad(F, t, i) = {}
    BY <1>6 DEF Bad, S
  <2>2. \A k \in S :
          /\ Touches(F, t, i, t.side, t.takeProfit, k)
               <=> ~Missed(Reach(F, i, t.side, k), t.side, F[i].close, t.takeProfit)
          /\ Touches(F, t, i, Opposite(t.side), t.stopLoss, k)
               <=> ~Missed(Reach(F, i, Opposite(t.side), k), Opposite(t.side), F[i].close,
                           t.stopLoss)
    BY <1>8, TouchIsReach
  <2> QED
    BY <2>1, <2>2, Zenon DEF Profit, Loss, Touching, S
<1>10. PICK x \in S : /\ toward = Reach(F, i, t.side, x)
                      /\ \A k \in S : Reach(F, i, t.side, k) <= Reach(F, i, t.side, x)
  BY <1>6 DEF Reached
<1>11. PICK y \in S :
         /\ against = Reach(F, i, Opposite(t.side), y)
         /\ \A k \in S : Reach(F, i, Opposite(t.side), k) <= Reach(F, i, Opposite(t.side), y)
  BY <1>6 DEF Reached
<1>12. \A k \in Profit(F, t, i) : toward >= t.takeProfit
  BY <1>8, <1>9, <1>10, NotMissedReached
<1>13. \A k \in Loss(F, t, i) : against >= t.stopLoss
  BY <1>8, <1>9, <1>11, NotMissedReached
<1>14. Ends(F, t, i) = {} =>
         /\ Missed(toward, t.side, F[i].close, t.takeProfit)
         /\ Missed(against, Opposite(t.side), F[i].close, t.stopLoss)
  <2>1. ASSUME Ends(F, t, i) = {}
        PROVE  x \notin Profit(F, t, i) /\ y \notin Loss(F, t, i)
    BY <2>1 DEF Ends
  <2> QED
    BY <2>1, <1>9, <1>10, <1>11, Zenon
<1>15. CASE Ends(F, t, i) = {}
  <2>1. Race(F, t, i).answer = <<>>
    BY <1>15, RaceIs, AnswersCompared
  <2>2. <<>> # <<"tp_first">> /\ <<>> # <<"sl_first">>
    OBVIOUS
  <2> QED
    BY <1>2, <1>3, <1>7, <1>14, <1>15, <2>1, <2>2 DEF toward, against, w
<1>16. CASE Ends(F, t, i) # {}
  <2>1. PICK f \in Ends(F, t, i) : First(F, t, i, f)
    BY <1>16, RaceIs
  <2>2. Race(F, t, i) =
          IF f \in Profit(F, t, i) \cap Loss(F, t, i)
          THEN NoAnswer(F, t, i, "same_bar_ambiguity", f)
          ELSE Answer(F, t, i, IF f \in Profit(F, t, i) THEN <<"tp_first">>
                               ELSE <<"sl_first">>, f)
    BY <1>9, <2>1, RaceIs
  <2>3. Race(F, t, i).reason # "no_touch_within_horizon"
    BY <2>2, AnswersCompared
  <2>4. /\ Race(F, t, i).answer = <<"tp_first">> => f \in Profit(F, t, i)
        /\ Race(F, t, i).answer = <<"sl_first">> => f \in Loss(F, t, i)
    <3>1. /\ <<>> # <<"tp_first">> /\ <<>> # <<"sl_first">>
          /\ <<"tp_first">> # <<"sl_first">>
      OBVIOUS
    <3>2. f \in Profit(F, t, i) \/ f \in Loss(F, t, i)
      BY <1>9 DEF Ends
    <3> QED
      BY <2>2, <3>1, <3>2, AnswersCompared
  <2> QED
    BY <1>2, <1>3, <1>7, <1>12, <1>13, <2>3, <2>4 DEF toward, against, w
<1> QED
  BY <1>15, <1>16

\* One is lost where the other is won, with the same bar.
Turned(race, other) ==
  /\ other.resolved = race.resolved /\ other.decided = race.decided
  /\ race.resolved => other.answer # race.answer

LEMMA TurnedAnswers ==
  ASSUME NEW F, NEW s, NEW u, NEW i, NEW a, NEW b, NEW c
  PROVE  /\ Turned(NoAnswer(F, s, i, a, c), NoAnswer(F, u, i, b, c))
         /\ a # b => Turned(Answer(F, s, i, a, c), Answer(F, u, i, b, c))
BY DEF Turned, Answer, NoAnswer

\* The trade seen from the other side is over with the same bar, and lost where
\* the trade is won.
LEMMA OtherSide ==
  ASSUME NEW F \in Frames, NEW t, NEW i \in 1 .. Len(F), t.kind = "tp_before_sl",
         t.side \in Directions, t.horizon \in Nat \ {0}
  PROVE  Turned(TargetValue(F, t, i), TargetValue(F, Mirror(t), i))
<1> DEFINE u == Mirror(t)
<1>1. /\ u.kind = t.kind /\ u.horizon = t.horizon /\ u.side = Opposite(t.side)
      /\ u.takeProfit = t.stopLoss /\ u.stopLoss = t.takeProfit
      /\ Opposite(u.side) = t.side
  BY DEF Mirror, Opposite, Directions
<1> HIDE DEF u
<1>2. Window(F, u, i) = Window(F, t, i) /\ (Complete(F, u, i) <=> Complete(F, t, i))
  BY <1>1 DEF Window, Last, Complete
<1>3. Bad(F, u, i) = Bad(F, t, i)
  BY <1>2 DEF Bad
<1>4. \A side, x : Touching(F, u, i, side, x) = Touching(F, t, i, side, x)
  BY <1>2, <1>3 DEF Touching, Touches, Crossed
<1>5. Profit(F, u, i) = Loss(F, t, i) /\ Loss(F, u, i) = Profit(F, t, i)
  BY <1>1, <1>4 DEF Profit, Loss
<1>6. Ends(F, u, i) = Ends(F, t, i)
  BY <1>3, <1>5 DEF Ends
<1>7. /\ <<"tp_first">> # <<"sl_first">>
      /\ u.horizon \in Nat \ {0}
  BY <1>1
<1>8. CASE ~Finite(F[i])
  BY <1>8, TurnedAnswers DEF TargetValue, u
<1>9. CASE Finite(F[i])
  <2>0. /\ TargetValue(F, t, i) = Race(F, t, i)
        /\ TargetValue(F, u, i) = Race(F, u, i)
    BY <1>1, <1>9 DEF TargetValue
  <2>1. CASE Ends(F, t, i) = {}
    BY <1>6, <1>7, <2>0, <2>1, RaceIs, TurnedAnswers DEF u
  <2>2. CASE Ends(F, t, i) # {}
    <3>1. PICK f \in Ends(F, t, i) : First(F, t, i, f)
      BY <2>2, RaceIs
    <3>2. f \in Ends(F, u, i) /\ First(F, u, i, f)
      BY <1>6, <3>1 DEF First
    <3>3. Race(F, t, i) =
            IF f \in Bad(F, t, i) THEN NoAnswer(F, t, i, "malformed_future_bar", NoBar)
            ELSE IF f \in Profit(F, t, i) \cap Loss(F, t, i)
            THEN NoAnswer(F, t, i, "same_bar_ambiguity", f)
            ELSE Answer(F, t, i, IF f \in Profit(F, t, i) THEN <<"tp_first">>
                                 ELSE <<"sl_first">>, f)
      BY <3>1, RaceIs
    <3>4. Race(F, u, i) =
            IF f \in Bad(F, t, i) THEN NoAnswer(F, u, i, "malformed_future_bar", NoBar)
            ELSE IF f \in Profit(F, t, i) \cap Loss(F, t, i)
            THEN NoAnswer(F, u, i, "same_bar_ambiguity", f)
            ELSE Answer(F, u, i, IF f \in Loss(F, t, i) THEN <<"tp_first">>
                                 ELSE <<"sl_first">>, f)
      <4>1. Race(F, u, i) =
              IF f \in Bad(F, u, i) THEN NoAnswer(F, u, i, "malformed_future_bar", NoBar)
              ELSE IF f \in Profit(F, u, i) \cap Loss(F, u, i)
              THEN NoAnswer(F, u, i, "same_bar_ambiguity", f)
              ELSE Answer(F, u, i, IF f \in Profit(F, u, i) THEN <<"tp_first">>
                                   ELSE <<"sl_first">>, f)
        BY <1>7, <3>2, RaceIs
      <4>2. Profit(F, u, i) \cap Loss(F, u, i) = Profit(F, t, i) \cap Loss(F, t, i)
        BY <1>5
      <4> QED
        BY <1>3, <1>5, <4>1, <4>2
    <3>5. f \in Bad(F, t, i) \/ f \in Profit(F, t, i) \/ f \in Loss(F, t, i)
      BY DEF Ends
    <3>6. CASE f \in Bad(F, t, i)
      BY <2>0, <3>3, <3>4, <3>6, TurnedAnswers DEF u
    <3>7. CASE f \notin Bad(F, t, i) /\ f \in Profit(F, t, i) /\ f \in Loss(F, t, i)
      BY <2>0, <3>3, <3>4, <3>7, TurnedAnswers DEF u
    <3>8. CASE f \notin Bad(F, t, i) /\ f \in Profit(F, t, i) /\ f \notin Loss(F, t, i)
      BY <1>7, <2>0, <3>3, <3>4, <3>8, TurnedAnswers DEF u
    <3>9. CASE f \notin Bad(F, t, i) /\ f \notin Profit(F, t, i) /\ f \in Loss(F, t, i)
      BY <1>7, <2>0, <3>3, <3>4, <3>9, TurnedAnswers DEF u
    <3> QED
      BY <3>5, <3>6, <3>7, <3>8, <3>9
  <2> QED
    BY <2>1, <2>2
<1> QED
  BY <1>8, <1>9

\* A race tells what the excursion of its window tells, up to barriers whose float
\* overshoots, and a profit of one side of a trade is the loss of the other, for
\* any barriers and bars and whichever barriers the floats make overshoot.
THEOREM RacesAgreeHolds == Spec => []RacesAgree
<1>1. IInv => RacesAgree
  <2> SUFFICES ASSUME IInv, NEW m \in DOMAIN frame, NEW t \in Races
               PROVE  LET race  == TargetValue(frame, t, m)
                          swing == TargetValue(frame, SwingOf(t), m)
                          other == TargetValue(frame, Mirror(t), m)
                          ref   == frame[m].close
                      IN  /\ swing.resolved =>
                               /\ race.answer = <<"tp_first">> =>
                                    swing.answer[Position(t.side)] >= t.takeProfit
                               /\ race.answer = <<"sl_first">> =>
                                    swing.answer[3 - Position(t.side)] >= t.stopLoss
                               /\ race.reason = "no_touch_within_horizon" =>
                                    /\ Missed(swing.answer[Position(t.side)], t.side, ref,
                                              t.takeProfit)
                                    /\ Missed(swing.answer[3 - Position(t.side)], Opposite(t.side),
                                              ref, t.stopLoss)
                          /\ other.resolved = race.resolved /\ other.decided = race.decided
                          /\ race.resolved => other.answer # race.answer
    BY Zenon DEF RacesAgree
  <2>1. frame \in Frames /\ m \in 1 .. Len(frame)
    BY DEF IInv, Frames
  <2>2. /\ t.kind = "tp_before_sl" /\ t.side \in Directions /\ t.horizon \in Nat \ {0}
        /\ t.takeProfit \in Nat /\ t.stopLoss \in Nat
    BY RaceFields DEF Races, IInv, SpecAccepted
  <2> QED
    BY <2>1, <2>2, RaceWithinSwing, OtherSide DEF Turned
<1> QED
  BY <1>1, InvariantIInv, PTL
=============================================================================
