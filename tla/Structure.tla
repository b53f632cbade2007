------------------------------ MODULE Structure -----------------------------
(***************************************************************************)
(* StructureDetector.analyse (ict/structure.py): one walk over a whole     *)
(* frame.  At each bar the swings confirmed by its close are admitted,     *)
(* then at most one of the two active references is broken and consumed.   *)
(* The frame is complete before the walk starts; that the walk never looks *)
(* past the bar it stands on is what Live!Spec says.                       *)
(***************************************************************************)
EXTENDS StructureRules

CONSTANT MaxBars                    \* bound: the longest frame considered

ASSUME MaxBarsAssumption == MaxBars \in Nat

VARIABLES
  frame,      \* the bars handed to analyse
  config,     \* the detector's configuration
  index,      \* bars already processed
  state,      \* the structural state
  previous,   \* per direction: the swing the next one is classified against
  active,     \* per direction: the reference level, None once broken
  labels,     \* the HH / HL / LH / LL records
  breaks      \* the BOS / MSS / CHOCH records, oldest first

vars == <<frame, config, index, state, previous, active, labels, breaks>>

Frames == UNION {[1 .. n -> Bars] : n \in 0 .. MaxBars}

\* analyse before its loop.
Fresh ==
  /\ index = 0
  /\ state = "undefined"
  /\ previous = [d \in Directions |-> None]
  /\ active = [d \in Directions |-> None]
  /\ labels = {}
  /\ breaks = <<>>

Init == frame \in Frames /\ config \in Configs /\ Fresh

----------------------------------------------------------------------------

\* The swing of direction d that becomes observable with the close of bar j.
Admitted(d, j) == {i \in {j - config.right} : IsSwing(frame, config, d, i)}

\* A mutant: a pending reference is kept when a newer swing confirms.
ActiveAtKept(j) ==
  [d \in Directions |-> IF active[d] = None /\ Admitted(d, j) # {}
                        THEN j - config.right ELSE active[d]]

\* The references after the swings of bar j were admitted.
ActiveAt(j) ==
  [d \in Directions |-> IF Admitted(d, j) # {} THEN j - config.right ELSE active[d]]

\* A mutant: one predecessor shared by highs and lows.
AdmitShared(j) ==
  /\ labels' = labels \cup
       UNION {UNION {Classify(frame, config, d, i, previous[d]) : i \in Admitted(d, j)}
                : d \in Directions}
  /\ previous' = [d \in Directions |->
                    IF \E e \in Directions : Admitted(e, j) # {}
                    THEN j - config.right ELSE previous[d]]

\* The admission loop of bar j: label against the predecessor, then become it.
Admit(j) ==
  /\ labels' = labels \cup
       UNION {UNION {Classify(frame, config, d, i, previous[d]) : i \in Admitted(d, j)}
                : d \in Directions}
  /\ previous' = [d \in Directions |->
                    IF Admitted(d, j) # {} THEN j - config.right ELSE previous[d]]

BreaksAt(d, j) == Breaks(frame, config, d, ActiveAt(j)[d], j)

\* A mutant: the broken reference stays pending.
BreakKeeping(d, j) ==
  /\ breaks' = Append(breaks, MakeBreak(frame, config, d, ActiveAt(j)[d], state, j))
  /\ state' = d
  /\ active' = ActiveAt(j)

\* A mutant: a reversal is recorded but the state does not flip.
BreakSticky(d, j) ==
  /\ breaks' = Append(breaks, MakeBreak(frame, config, d, ActiveAt(j)[d], state, j))
  /\ state' = IF state = "undefined" THEN d ELSE state
  /\ active' = [ActiveAt(j) EXCEPT ![d] = None]

\* Record the break of direction d at bar j and consume its reference.
Break(d, j) ==
  /\ breaks' = Append(breaks, MakeBreak(frame, config, d, ActiveAt(j)[d], state, j))
  /\ state' = d
  /\ active' = [ActiveAt(j) EXCEPT ![d] = None]

\* Move to the next bar of the frame.
Advance(j) ==
  /\ j = index + 1
  /\ j <= Len(frame)
  /\ index' = j
  /\ Admit(j)
  /\ UNCHANGED <<frame, config>>

BullishBreak == \E j \in DOMAIN frame :
  Advance(j) /\ BreaksAt("bullish", j) /\ Break("bullish", j)

\* The elif: a bearish break is looked at only when there was no bullish one.
BearishBreak == \E j \in DOMAIN frame :
  /\ Advance(j)
  /\ ~BreaksAt("bullish", j)
  /\ BreaksAt("bearish", j)
  /\ Break("bearish", j)

NoBreak == \E j \in DOMAIN frame :
  /\ Advance(j)
  /\ \A d \in Directions : ~BreaksAt(d, j)
  /\ active' = ActiveAt(j)
  /\ UNCHANGED <<state, breaks>>

Next == BullishBreak \/ BearishBreak \/ NoBreak

Spec == Init /\ [][Next]_vars

----------------------------------------------------------------------------
BreakRecords ==
  [direction : Directions, type : BreakTypes, reference : Nat \ {0},
   bar : Nat \ {0}, from : States, to : Directions]

LabelRecords ==
  [kind : Directions, swing : Nat \ {0}, previous : Nat \ {0},
   label : LabelTypes, confirmed : Nat \ {0}]

\* Types of the walk of analyse.
TypeOK ==
  /\ frame \in Seq(Bars)
  /\ config \in Configs
  /\ index \in 0 .. Len(frame)
  /\ state \in States
  /\ previous \in [Directions -> Nat]
  /\ active \in [Directions -> Nat]
  /\ labels \subseteq LabelRecords
  /\ breaks \in Seq(BreakRecords)

\* "One level cannot break twice": no two recorded breaks have the same
\* reference swing, and a reference still pending was never broken.
BrokenOnce ==
  /\ \A m, n \in DOMAIN breaks :
       /\ breaks[m].direction = breaks[n].direction
       /\ breaks[m].reference = breaks[n].reference
       => m = n
  /\ \A d \in Directions : active[d] # None =>
       \A n \in DOMAIN breaks :
         breaks[n].direction = d => breaks[n].reference < active[d]

\* Swings are absorbed before the break check: the level a break refers to is
\* a swing already confirmed at the breaking bar, and no newer swing of its
\* type was confirmed by then.
ReferencesFresh ==
  \A n \in DOMAIN breaks :
    LET b == breaks[n]
        known == {i \in SwingsOf(frame, config, b.direction) :
                    ConfirmIndex(config, i) <= b.bar}
    IN  /\ b.reference \in known
        /\ \A i \in known : i <= b.reference

\* The breaks tell the story of the state: each one starts in the state the
\* one before it left, the first in UNDEFINED, the current state is the last
\* one's, and a break is called BOS exactly when it does not reverse the trend.
BreakChain ==
  /\ \A n \in DOMAIN breaks :
       /\ breaks[n].from = IF n = 1 THEN "undefined" ELSE breaks[n - 1].to
       /\ breaks[n].type = "BOS" <=> breaks[n].from # Opposite(breaks[n].to)
       /\ n > 1 => breaks[n - 1].bar < breaks[n].bar
  /\ state = IF breaks = <<>> THEN "undefined" ELSE breaks[Len(breaks)].to

\* In CLOSE mode the elif hides nothing: no close since its confirmation lies
\* beyond a reference that is still pending.
PendingUnbroken ==
  config.mode = "close" =>
    \A d \in Directions : active[d] # None =>
      \A k \in ConfirmIndex(config, active[d]) .. index :
        ~Breaks(frame, config, d, active[d], k)

\* "Batch equals streaming replay": walking the complete frame gives, bar by
\* bar, what a detector that only ever saw the bars so far would publish.
Live == INSTANCE LiveStructure WITH seen <- SubSeq(frame, 1, index)
LiveReplay == Live!Spec
=============================================================================
