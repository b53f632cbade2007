------------------------------- MODULE Dataset -------------------------------
(***************************************************************************)
(* DatasetBuilder (features/dataset.py) and the chronological split with    *)
(* its embargo (features/splits.py), over data that keep growing: bars are  *)
(* appended, and at any time a dataset is built again from those that are   *)
(* there.  A row joins the features of an instant, which module Structure   *)
(* and its like are about and which are left out here, with its targets     *)
(* and the split it belongs to.                                             *)
(***************************************************************************)
EXTENDS Targets

CONSTANTS
  Specs,         \* the DatasetSpecs considered
  Samples,       \* the sets of instants a caller may ask for
  MaxBars        \* bound: the longest frame considered

NoSplit == [trainEnd |-> 0, validationEnd |-> 0, embargo |-> -1]

\* SplitSpec.  A boundary is the first bar that closes at or after its instant;
\* two different instants may lie between the same two closes.
SplitType ==
  {s \in [trainEnd : Nat \ {0}, validationEnd : Nat \ {0}, embargo : Nat] :
     s.trainEnd <= s.validationEnd}

ASSUME DatasetAssumption ==
  /\ \A spec \in Specs : spec.targets \subseteq TargetSpecType /\ IsFiniteSet(spec.targets)
  /\ \A spec \in Specs : spec.split \in SplitType \cup {NoSplit}
  /\ \A sample \in Samples : sample \subseteq Nat \ {0}
  /\ MaxBars \in Nat

VARIABLES
  frame,         \* the bars ingested so far
  spec,          \* the specification of the dataset
  rows           \* the rows of the last dataset built, by instant

vars == <<frame, spec, rows>>

\* A mutant: DatasetSpec accepts any embargo.
AcceptedAny(s) == TRUE

\* DatasetSpec refuses an embargo shorter than its longest horizon.
Accepted(s) == s.split # NoSplit => \A t \in s.targets : t.horizon <= s.split.embargo

Init ==
  /\ frame = <<>>
  /\ spec \in {s \in Specs : Accepted(s)}
  /\ rows = [m \in {} |-> 0]

----------------------------------------------------------------------------
\* SplitSpec.label_of and end_of

LabelOf(m) ==
  IF m < spec.split.trainEnd THEN "train"
  ELSE IF m < spec.split.validationEnd THEN "validation" ELSE "test"

\* The splits that something follows, and what follows them.
Bounded(label) == label \in {"train", "validation"}

EndOf(label) ==
  IF label = "train" THEN spec.split.trainEnd ELSE spec.split.validationEnd

\* The ends of the windows of an instant that lie inside the data.  The builder
\* hands on the latest, which crosses a boundary if any of them does.
Measured(values) == {values[t].windowEnd : t \in spec.targets} \ {NoBar}

\* A mutant: a window that runs off the end of the data crosses as well.
CrossesUnmeasured(instants, m, ends) ==
  ends = {} \/ \E end \in ends : end >= EndOf(LabelOf(m))

\* assign_splits: a window of instant m reaches into the next split; without
\* one, the instant embargo positions later does.
Crosses(instants, m, ends) ==
  IF ends # {} THEN \E end \in ends : end >= EndOf(LabelOf(m))
  ELSE \E later \in instants :
         /\ Cardinality({x \in instants : m < x /\ x <= later}) = spec.split.embargo
         /\ later >= EndOf(LabelOf(m))

Label(instants, m, ends) ==
  IF spec.split = NoSplit THEN "none"
  ELSE IF /\ Bounded(LabelOf(m))
          /\ spec.split.embargo > 0
          /\ Crosses(instants, m, ends)
  THEN "embargoed" ELSE LabelOf(m)

\* DatasetBuilder.build: one row per instant that is the close of a bar.
Values(m) == [t \in spec.targets |-> TargetValue(frame, t, m)]

Rows(instants) ==
  [m \in instants |->
     [values |-> Values(m), label |-> Label(instants, m, Measured(Values(m)))]]

----------------------------------------------------------------------------
\* The next bars have been ingested.
Ingest ==
  /\ Len(frame) < MaxBars
  /\ \E bar \in Bars \cup {Malformed} : frame' = Append(frame, bar)
  /\ UNCHANGED <<spec, rows>>

\* A dataset is built at every bar close, or at those a caller samples.
Build ==
  /\ \E sample \in Samples \cup {DOMAIN frame} : rows' = Rows(sample \cap DOMAIN frame)
  /\ UNCHANGED <<frame, spec>>

Next == Ingest \/ Build

Spec == Init /\ [][Next]_vars

----------------------------------------------------------------------------
\* "Rows whose future window crosses their split's end are excluded from every
\* split": a target with a complete window was answered with bars of the split
\* its row is in, whatever the other targets of the row are.
WindowsSealed ==
  spec.split # NoSplit =>
    \A m \in DOMAIN rows : Bounded(rows[m].label) =>
      \A t \in spec.targets :
        rows[m].values[t].windowEnd < EndOf(rows[m].label)

\* "A row whose horizon runs off the end of the data is not embargoed. Its target
\* is unresolved, not leaking": no row of a split holds an answer that a bar of
\* the next split decided.
AnswersSealed ==
  spec.split # NoSplit =>
    \A m \in DOMAIN rows : Bounded(rows[m].label) =>
      \A t \in spec.targets :
        rows[m].values[t].resolved => rows[m].values[t].decided < EndOf(rows[m].label)

\* The instants two datasets have in common.
Kept == DOMAIN rows \cap DOMAIN rows'

\* A dataset built again from more data repeats every answer, and every refusal
\* that was not for lack of data.
AnsweredForGood ==
  [][\A m \in Kept : \A t \in spec.targets :
       LET old == rows[m].values[t]
           new == rows'[m].values[t]
       IN  old.reason # "insufficient_history" =>
             /\ new.resolved = old.resolved /\ new.reason = old.reason
             /\ new.answer = old.answer /\ new.decided = old.decided]_vars

\* Built again, a row stays in its split or is embargoed, and an embargoed row is
\* not let back in: no row is trained on in one build and tested on in the next.
\* Specifications without targets are excluded: their rows are labelled by the
\* positional embargo alone, which depends on the instants each build was given.
LabelsOnlyTighten ==
  [][spec.targets # {} =>
       \A m \in Kept : rows'[m].label \in {rows[m].label, "embargoed"}]_vars

\* The same trade seen from the other side.
Mirror(t) ==
  [kind |-> t.kind, horizon |-> t.horizon, side |-> Opposite(t.side),
   takeProfit |-> t.stopLoss, stopLoss |-> t.takeProfit]

Races == {t \in spec.targets : t.kind = "tp_before_sl"}

\* The excursion of the window of a race, and the place of a side in its answer.
SwingOf(t) == [kind |-> "excursion", horizon |-> t.horizon]
Position(side) == IF side = "bullish" THEN 1 ELSE 2

\* An excursion falls short of a barrier, or ends on one that overshoots.
Missed(reach, side, reference, distance) ==
  \/ reach < distance
  \/ reach = distance /\ <<side, reference, distance>> \in Overshoots

\* A race and an excursion over the same window are computed separately, one from
\* raw prices and the other in rounded points, and tell the same story: a barrier
\* that was reached lies within the excursion; without a touch both lie outside
\* it, unless the excursion ends exactly on a barrier whose float overshoots; and
\* what is a profit of one side of a trade is the loss of the other.
RacesAgree ==
  \A m \in DOMAIN frame : \A t \in Races :
    LET race  == TargetValue(frame, t, m)
        swing == TargetValue(frame, SwingOf(t), m)
        other == TargetValue(frame, Mirror(t), m)
        ref   == frame[m].close
    IN  /\ swing.resolved =>
             /\ race.answer = <<"tp_first">> => swing.answer[Position(t.side)] >= t.takeProfit
             /\ race.answer = <<"sl_first">> => swing.answer[3 - Position(t.side)] >= t.stopLoss
             /\ race.reason = "no_touch_within_horizon" =>
                  /\ Missed(swing.answer[Position(t.side)], t.side, ref, t.takeProfit)
                  /\ Missed(swing.answer[3 - Position(t.side)], Opposite(t.side), ref, t.stopLoss)
        /\ other.resolved = race.resolved /\ other.decided = race.decided
        /\ race.resolved => other.answer # race.answer
=============================================================================
