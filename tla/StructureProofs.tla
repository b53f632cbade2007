--------------------------- MODULE StructureProofs --------------------------
(***************************************************************************)
(* What TLAPS proves of Structure, of the dealing ranges built on it, and  *)
(* of the blocks, breakers and unicorns composed with it, and of the       *)
(* market state that joins every detector, for every set of well-formed    *)
(* candles, every set of detector configurations and frames of any length. *)
(***************************************************************************)
EXTENDS MarketState, Extrema, FiniteSetTheorems

\* The maximum of two naturals is one of them and bounds both.
LEMMA MaxOfTwo ==
  ASSUME NEW a \in Nat, NEW b \in Nat
  PROVE  /\ Max({a, b}) \in {a, b}
         /\ Max({a, b}) >= a /\ Max({a, b}) >= b
<1> DEFINE P(x) == x \in {a, b} /\ \A y \in {a, b} : x >= y
<1>1. CASE a >= b
  <2>1. P(a)
    BY <1>1
  <2>2. P(Max({a, b}))
    BY <2>1 DEF Max
  <2> QED BY <2>2
<1>2. CASE ~(a >= b)
  <2>1. P(b)
    BY <1>2
  <2>2. P(Max({a, b}))
    BY <2>1 DEF Max
  <2> QED BY <2>2
<1> QED BY <1>1, <1>2

\* A configuration confirms a swing a positive number of bars later.
LEMMA ConfigRight ==
  ASSUME config \in Configs
  PROVE  config.right \in Nat \ {0} /\ config.left \in Nat \ {0}
BY ConfigsAssumption DEF ConfigType

\* Every swing lies in the frame together with the bars that confirm it.
LEMMA SwingInFrame ==
  ASSUME NEW F, NEW c, NEW d, NEW i, Len(F) \in Nat, c.left \in Nat \ {0},
         c.right \in Nat \ {0}, i \in Int, IsSwing(F, c, d, i)
  PROVE  i \in 1 .. Len(F) /\ i + c.right <= Len(F)
BY DEF IsSwing, IsPivot

\* A label is a well-typed record.
LEMMA ClassifyType ==
  ASSUME NEW d \in Directions, NEW i \in Nat \ {0}, NEW p \in Nat,
         config \in Configs, NEW l \in Classify(frame, config, d, i, p)
  PROVE  l \in LabelRecords /\ l.kind = d /\ l.swing = i /\ l.previous = p
         /\ p # None
<1> DEFINE top == Max({ConfirmIndex(config, i), ConfirmIndex(config, p)})
           delta == Level(frame, d, i) - Level(frame, d, p)
<1>1. p # None
      /\ l = [kind |-> d, swing |-> i, previous |-> p,
              label |-> LabelName(d, delta), confirmed |-> top]
  BY DEF Classify
<1>2. ConfirmIndex(config, i) \in Nat \ {0} /\ ConfirmIndex(config, p) \in Nat \ {0}
  BY ConfigRight DEF ConfirmIndex
<1>3. top \in Nat \ {0}
  BY <1>2, MaxOfTwo
<1>4. LabelName(d, delta) \in LabelTypes
  BY DEF LabelName, LabelTypes
<1> HIDE DEF top, delta
<1> QED BY <1>1, <1>3, <1>4 DEF LabelRecords, None

----------------------------------------------------------------------------
\* Admission yields positions of the frame.
LEMMA AdmittedType ==
  ASSUME TypeOK, NEW d \in Directions, NEW j \in 1 .. Len(frame),
         Admitted(d, j) # {}
  PROVE  /\ j - config.right \in 1 .. Len(frame)
         /\ IsSwing(frame, config, d, j - config.right)
         /\ Admitted(d, j) = {j - config.right}
<1>1. Len(frame) \in Nat /\ config \in Configs
  BY DEF TypeOK
<1>2. IsSwing(frame, config, d, j - config.right)
      /\ Admitted(d, j) = {j - config.right}
  BY DEF Admitted
<1>3. j - config.right \in Int
  BY <1>1, ConfigRight
<1> QED BY <1>1, <1>2, <1>3, ConfigRight, SwingInFrame

LEMMA ActiveAtType ==
  ASSUME TypeOK, NEW j \in 1 .. Len(frame)
  PROVE  ActiveAt(j) \in [Directions -> Nat]
<1>1. ASSUME NEW d \in Directions
      PROVE  (IF Admitted(d, j) # {} THEN j - config.right ELSE active[d]) \in Nat
  BY AdmittedType DEF TypeOK
<1> QED BY <1>1 DEF ActiveAt

\* A recorded break is a well-typed record.
LEMMA MakeBreakType ==
  ASSUME NEW d \in Directions, NEW ref \in Nat \ {0}, NEW s \in States,
         NEW j \in Nat \ {0}
  PROVE  MakeBreak(frame, config, d, ref, s, j) \in BreakRecords
<1>1. BreakType(frame, config, d, s, j) \in BreakTypes
  BY DEF BreakType, BreakTypes
<1> QED BY <1>1 DEF MakeBreak, BreakRecords

LEMMA AdmitType ==
  ASSUME TypeOK, NEW j \in 1 .. Len(frame), Admit(j)
  PROVE  previous' \in [Directions -> Nat] /\ labels' \subseteq LabelRecords
<1>1. previous' \in [Directions -> Nat]
  <2>1. ASSUME NEW d \in Directions
        PROVE  (IF Admitted(d, j) # {} THEN j - config.right ELSE previous[d]) \in Nat
    BY AdmittedType DEF TypeOK
  <2> QED BY <2>1 DEF Admit
<1>2. ASSUME NEW d \in Directions, NEW i \in Admitted(d, j),
             NEW l \in Classify(frame, config, d, i, previous[d])
      PROVE  l \in LabelRecords
  <2>1. i \in Nat \ {0}
    BY AdmittedType
  <2>2. previous[d] \in Nat /\ config \in Configs
    BY DEF TypeOK
  <2> QED BY <2>1, <2>2, ClassifyType
<1>3. labels' \subseteq LabelRecords
  BY <1>2 DEF Admit, TypeOK
<1> QED BY <1>1, <1>3

\* The walk is about to go through a frame.
Starts == frame \in Seq(Bars) /\ config \in Configs /\ Fresh

LEMMA InitStarts == Init => Starts
<1> SUFFICES ASSUME Init PROVE Starts
  OBVIOUS
<1>1. PICK n \in 0 .. MaxBars : frame \in [1 .. n -> Bars]
  BY DEF Init, Frames
<1>2. frame \in Seq(Bars)
  BY <1>1, MaxBarsAssumption
<1> QED BY <1>2 DEF Init, Starts

LEMMA StartType == Starts => TypeOK
BY DEF Starts, Fresh, TypeOK, States, None

LEMMA StepType == TypeOK /\ [Next]_vars => TypeOK'
<1> SUFFICES ASSUME TypeOK, [Next]_vars PROVE TypeOK'
  OBVIOUS
<1>1. ASSUME NEW d \in Directions, NEW j \in DOMAIN frame,
             Advance(j), BreaksAt(d, j), Break(d, j)
      PROVE  TypeOK'
  <2>1. j \in 1 .. Len(frame) /\ j \in Nat \ {0} /\ index' = j
        /\ frame' = frame /\ config' = config
    BY <1>1 DEF Advance, TypeOK
  <2>2. ActiveAt(j) \in [Directions -> Nat]
    BY <2>1, ActiveAtType
  <2>3. ActiveAt(j)[d] \in Nat \ {0}
    BY <1>1, <2>2 DEF BreaksAt, Breaks, None
  <2>4. MakeBreak(frame, config, d, ActiveAt(j)[d], state, j) \in BreakRecords
    BY <2>1, <2>3, MakeBreakType DEF TypeOK
  <2>5. breaks' \in Seq(BreakRecords) /\ state' \in States
        /\ active' \in [Directions -> Nat]
    BY <1>1, <2>2, <2>4 DEF Break, TypeOK, States, Directions, None
  <2>6. previous' \in [Directions -> Nat] /\ labels' \subseteq LabelRecords
    BY <1>1, <2>1, AdmitType DEF Advance
  <2> QED BY <2>1, <2>5, <2>6 DEF TypeOK
<1>2. CASE BullishBreak
  BY <1>1, <1>2 DEF BullishBreak, Directions
<1>3. CASE BearishBreak
  BY <1>1, <1>3 DEF BearishBreak, Directions
<1>4. CASE NoBreak
  <2>1. PICK j \in DOMAIN frame : /\ Advance(j) /\ active' = ActiveAt(j)
                                  /\ UNCHANGED <<state, breaks>>
    BY <1>4 DEF NoBreak
  <2>2. j \in 1 .. Len(frame) /\ index' = j /\ frame' = frame /\ config' = config
    BY <2>1 DEF Advance, TypeOK
  <2>3. active' \in [Directions -> Nat]
    BY <2>1, <2>2, ActiveAtType
  <2>4. previous' \in [Directions -> Nat] /\ labels' \subseteq LabelRecords
    BY <2>1, <2>2, AdmitType DEF Advance
  <2> QED BY <2>1, <2>2, <2>3, <2>4 DEF TypeOK
<1>5. CASE UNCHANGED vars
  BY <1>5 DEF vars, TypeOK
<1> QED BY <1>2, <1>3, <1>4, <1>5 DEF Next

\* The variables keep their types at every step of the walk.
THEOREM TypeCorrect == Spec => []TypeOK
BY InitStarts, StartType, StepType, PTL DEF Spec

----------------------------------------------------------------------------
(***************************************************************************)
(* The inductive invariant: the accumulators of the loop are what the      *)
(* swings and the records of the bars processed so far determine.          *)
(***************************************************************************)

\* s is the newest swing of direction d confirmed by bar k.
IsNewest(d, k, s) ==
  /\ s # None => IsSwing(frame, config, d, s) /\ ConfirmIndex(config, s) <= k
  /\ \A i \in SwingsOf(frame, config, d) : ConfirmIndex(config, i) <= k => i <= s

WasBroken(d, s) == \E n \in DOMAIN breaks :
                     breaks[n].direction = d /\ breaks[n].reference = s

\* The active reference a of direction d, where s is the newest swing.
IsPending(d, s, a) ==
  /\ a \in {None, s}
  /\ s # None => (a = None <=> WasBroken(d, s))

RefersFresh(b) ==
  /\ IsNewest(b.direction, b.bar, b.reference)
  /\ b.bar <= index
  /\ b.reference <= previous[b.direction]

PreviousNewest == \A d \in Directions : IsNewest(d, index, previous[d])
ActivePending  == \A d \in Directions : IsPending(d, previous[d], active[d])
BreaksFresh    == \A n \in DOMAIN breaks : RefersFresh(breaks[n])
NoneTwice      == \A m, n \in DOMAIN breaks :
                    /\ breaks[m].direction = breaks[n].direction
                    /\ breaks[m].reference = breaks[n].reference
                    => m = n

IInv == TypeOK /\ PreviousNewest /\ ActivePending /\ BreaksFresh /\ NoneTwice

\* After the admission loop of bar j the predecessors are the newest swings
\* confirmed by j, they only moved forward, and ActiveAt(j) holds the pending
\* references.
LEMMA Admission ==
  ASSUME IInv, NEW j \in 1 .. Len(frame), j = index + 1, Admit(j),
         NEW d \in Directions
  PROVE  /\ IsNewest(d, j, previous'[d])
         /\ previous[d] <= previous'[d]
         /\ IsPending(d, previous'[d], ActiveAt(j)[d])
<1> USE DEF IInv
<1>0. /\ Len(frame) \in Nat /\ config.right \in Nat \ {0}
      /\ previous[d] \in Nat /\ active[d] \in Nat /\ index \in Nat
  BY ConfigRight DEF TypeOK
<1>1. CASE Admitted(d, j) # {}
  <2>1. j - config.right \in 1 .. Len(frame) /\ IsSwing(frame, config, d, j - config.right)
    BY <1>1, AdmittedType
  <2>2. previous'[d] = j - config.right /\ ActiveAt(j)[d] = j - config.right
    BY <1>1 DEF Admit, ActiveAt
  <2>3. IsNewest(d, j, previous'[d])
    BY <1>0, <2>1, <2>2 DEF IsNewest, ConfirmIndex, SwingsOf
  <2>4. previous[d] < j - config.right
    BY <1>0, <2>1 DEF PreviousNewest, IsNewest, ConfirmIndex, None
  <2>5. ~WasBroken(d, j - config.right)
    <3> SUFFICES ASSUME NEW n \in DOMAIN breaks, breaks[n].direction = d,
                        breaks[n].reference = j - config.right
                 PROVE  FALSE
      BY DEF WasBroken
    <3>1. breaks[n].reference <= previous[d]
      BY DEF BreaksFresh, RefersFresh
    <3> QED BY <3>1, <2>4, <1>0, <2>1
  <2> QED BY <1>0, <2>1, <2>2, <2>3, <2>4, <2>5 DEF IsPending, None
<1>2. CASE Admitted(d, j) = {}
  <2>1. previous'[d] = previous[d] /\ ActiveAt(j)[d] = active[d]
    BY <1>2 DEF Admit, ActiveAt
  <2>2. ASSUME NEW i \in SwingsOf(frame, config, d), ConfirmIndex(config, i) <= j
        PROVE  i <= previous[d]
    <3>1. ConfirmIndex(config, i) # j
      BY <1>0, <1>2 DEF Admitted, ConfirmIndex, SwingsOf
    <3>2. ConfirmIndex(config, i) <= index
      BY <1>0, <2>2, <3>1 DEF ConfirmIndex, SwingsOf
    <3> QED BY <3>2 DEF PreviousNewest, IsNewest
  <2>3. IsNewest(d, j, previous[d])
    BY <1>0, <2>2 DEF PreviousNewest, IsNewest, ConfirmIndex
  <2> QED BY <1>0, <2>1, <2>3 DEF ActivePending
<1> QED BY <1>1, <1>2

\* The fields of a recorded break.
LEMMA BreakFields ==
  ASSUME TypeOK, NEW n \in DOMAIN breaks
  PROVE  /\ breaks[n].direction \in Directions /\ breaks[n].to \in Directions
         /\ breaks[n].reference \in Nat \ {0} /\ breaks[n].bar \in Nat \ {0}
         /\ breaks[n].from \in States
<1>1. breaks[n] \in BreakRecords
  BY DEF TypeOK
<1> QED BY <1>1 DEF BreakRecords

\* The breaks already recorded stay fresh when the walk advances.
LEMMA FreshStays ==
  ASSUME IInv, NEW j \in 1 .. Len(frame), Advance(j), NEW n \in DOMAIN breaks
  PROVE  /\ breaks[n].bar <= index'
         /\ breaks[n].reference <= previous'[breaks[n].direction]
<1> USE DEF IInv
<1> DEFINE d == breaks[n].direction
<1>2. d \in Directions /\ breaks[n].bar \in Nat /\ breaks[n].reference \in Nat
  BY BreakFields
<1>3. previous[d] <= previous'[d]
  BY <1>2, Admission DEF Advance
<1>4. previous[d] \in Nat /\ previous'[d] \in Nat
  BY <1>2, AdmitType DEF TypeOK, Advance
<1>5. breaks[n].bar <= index /\ breaks[n].reference <= previous[d]
  BY DEF BreaksFresh, RefersFresh
<1>6. index' = index + 1 /\ index \in Nat
  BY DEF Advance, TypeOK
<1> HIDE DEF d
<1>7. breaks[n].bar <= index'
  BY <1>2, <1>5, <1>6
<1>8. breaks[n].reference <= previous'[d]
  BY <1>2, <1>3, <1>4, <1>5
<1> QED BY <1>7, <1>8 DEF d

\* A step that records a break preserves the invariant.
LEMMA BreakStep ==
  ASSUME IInv, TypeOK', NEW d \in Directions, NEW j \in 1 .. Len(frame),
         Advance(j), BreaksAt(d, j), Break(d, j)
  PROVE  IInv'
<1> DEFINE ref == ActiveAt(j)[d]
           b == MakeBreak(frame, config, d, ref, state, j)
<1>1. /\ frame' = frame /\ config' = config /\ index' = j /\ j = index + 1
      /\ breaks' = Append(breaks, b)
      /\ Admit(j)
  BY DEF Advance, Break
<1>2. /\ b.direction = d /\ b.reference = ref /\ b.bar = j
  BY DEF MakeBreak
<1>3. ref # None
  BY DEF BreaksAt, Breaks
<1>4. IsPending(d, previous'[d], ref) /\ IsNewest(d, j, previous'[d])
  BY <1>1, Admission
<1>5. ref = previous'[d] /\ ~WasBroken(d, ref)
  BY <1>3, <1>4 DEF IsPending
<1>6. /\ breaks \in Seq(BreakRecords) /\ Len(breaks) \in Nat
      /\ Len(breaks') = Len(breaks) + 1 /\ breaks'[Len(breaks) + 1] = b
      /\ \A n \in DOMAIN breaks : breaks'[n] = breaks[n]
      /\ DOMAIN breaks' = DOMAIN breaks \cup {Len(breaks) + 1}
      /\ Len(breaks) + 1 \notin DOMAIN breaks
  <2>1. breaks \in Seq(BreakRecords) /\ Len(breaks) \in Nat
    BY DEF IInv, TypeOK
  <2>2. b \in BreakRecords
    <3>1. breaks' \in Seq(BreakRecords)
      BY DEF TypeOK
    <3>2. j \in Nat \ {0}
      OBVIOUS
    <3>3. ref \in Nat
      BY <1>5, <1>1 DEF TypeOK
    <3>4. ref \in Nat \ {0}
      BY <3>3, <1>3 DEF None
    <3> QED BY <3>2, <3>4, MakeBreakType DEF IInv, TypeOK
  <2> HIDE DEF b
  <2> QED BY <1>1, <2>1, <2>2
<1> HIDE DEF b
<1>7. PreviousNewest'
  <2>1. ASSUME NEW e \in Directions PROVE IsNewest(e, j, previous'[e])
    BY <1>1, Admission
  <2> QED BY <1>1, <2>1 DEF PreviousNewest, IsNewest, SwingsOf
<1>8. BreaksFresh'
  <2>1. ASSUME NEW n \in DOMAIN breaks PROVE RefersFresh(breaks[n])'
    <3>1. IsNewest(breaks[n].direction, breaks[n].bar, breaks[n].reference)
      BY DEF IInv, BreaksFresh, RefersFresh
    <3>2. breaks'[n] = breaks[n]
      BY <1>6
    <3> QED BY <1>1, <3>1, <3>2, FreshStays DEF RefersFresh, IsNewest, SwingsOf
  <2>2. RefersFresh(breaks[Len(breaks)])'
    <3>1. breaks'[Len(breaks')] = b
      BY <1>6
    <3>2. previous'[d] \in Nat
      BY DEF TypeOK
    <3> QED BY <1>1, <1>2, <1>4, <1>5, <3>1, <3>2 DEF RefersFresh, IsNewest, SwingsOf
  <2> QED BY <1>6, <2>1, <2>2 DEF BreaksFresh
<1>9. NoneTwice'
  <2>1. ASSUME NEW n \in DOMAIN breaks, breaks[n].direction = d
        PROVE  breaks[n].reference # ref
    BY <1>5, <2>1 DEF WasBroken
  <2> QED BY <1>2, <1>6, <2>1 DEF NoneTwice, IInv
<1>10. ActivePending'
  <2>1. ASSUME NEW e \in Directions PROVE IsPending(e, previous[e], active[e])'
    <3>1. CASE e = d
      <4>1. active'[d] = None
        BY ActiveAtType DEF Break, IInv
      <4>2. \E n \in DOMAIN breaks' :
              breaks'[n].direction = d /\ breaks'[n].reference = previous'[d]
        BY <1>2, <1>6, <1>5
      <4> QED BY <3>1, <4>1, <4>2 DEF IsPending, WasBroken
    <3>2. CASE e # d
      <4>1. active'[e] = ActiveAt(j)[e]
        BY <3>2, ActiveAtType DEF Break, IInv
      <4>2. IsPending(e, previous'[e], ActiveAt(j)[e])
        BY <1>1, Admission
      <4>3. ASSUME NEW s
            PROVE  WasBroken(e, s) <=> \E n \in DOMAIN breaks' :
                     breaks'[n].direction = e /\ breaks'[n].reference = s
        BY <3>2, <1>2, <1>6 DEF WasBroken
      <4> QED BY <4>1, <4>2, <4>3 DEF IsPending, WasBroken
    <3> QED BY <3>1, <3>2
  <2> QED BY <2>1 DEF ActivePending
<1> QED BY <1>7, <1>8, <1>9, <1>10 DEF IInv

\* A step without a break preserves the invariant.
LEMMA NoBreakStep ==
  ASSUME IInv, TypeOK', NEW j \in 1 .. Len(frame), Advance(j),
         active' = ActiveAt(j), UNCHANGED <<state, breaks>>
  PROVE  IInv'
<1>1. /\ frame' = frame /\ config' = config /\ index' = j /\ j = index + 1
      /\ breaks' = breaks /\ Admit(j)
  BY DEF Advance
<1>2. ASSUME NEW e \in Directions
      PROVE  IsNewest(e, j, previous'[e]) /\ IsPending(e, previous'[e], active'[e])
  BY <1>1, Admission
<1>3. PreviousNewest' /\ ActivePending'
  BY <1>1, <1>2 DEF PreviousNewest, ActivePending, IsNewest, IsPending, WasBroken,
                    SwingsOf
<1>4. BreaksFresh'
  <2>1. ASSUME NEW n \in DOMAIN breaks PROVE RefersFresh(breaks[n])'
    <3>1. IsNewest(breaks[n].direction, breaks[n].bar, breaks[n].reference)
      BY DEF IInv, BreaksFresh, RefersFresh
    <3> QED BY <1>1, <3>1, FreshStays DEF RefersFresh, IsNewest, SwingsOf
  <2> QED BY <1>1, <2>1 DEF BreaksFresh
<1>5. NoneTwice'
  BY <1>1 DEF NoneTwice, IInv
<1> QED BY <1>3, <1>4, <1>5 DEF IInv

\* Every step of the walk is one of the two.
LEMMA StepForms ==
  ASSUME TypeOK, Next
  PROVE  \E j \in 1 .. Len(frame) :
           /\ Advance(j)
           /\ \/ \E d \in Directions :
                   /\ BreaksAt(d, j) /\ Break(d, j)
                   /\ d = "bearish" => ~BreaksAt("bullish", j)
              \/ /\ \A d \in Directions : ~BreaksAt(d, j)
                 /\ active' = ActiveAt(j) /\ UNCHANGED <<state, breaks>>
<1>1. DOMAIN frame = 1 .. Len(frame)
  BY DEF TypeOK
<1>2. CASE BullishBreak
  BY <1>1, <1>2 DEF BullishBreak, Directions
<1>3. CASE BearishBreak
  BY <1>1, <1>3 DEF BearishBreak, Directions
<1>4. CASE NoBreak
  BY <1>1, <1>4 DEF NoBreak
<1> QED BY <1>2, <1>3, <1>4 DEF Next

LEMMA StartInv == Starts => IInv
<1> SUFFICES ASSUME Starts PROVE IInv
  OBVIOUS
<1>1. TypeOK
  BY StartType
<1>2. \A d \in Directions : previous[d] = None /\ active[d] = None
  BY DEF Starts, Fresh
<1>3. ASSUME NEW d \in Directions, NEW i \in SwingsOf(frame, config, d)
      PROVE  ~(ConfirmIndex(config, i) <= index)
  BY <1>1, ConfigRight DEF TypeOK, Starts, Fresh, SwingsOf, ConfirmIndex
<1> QED BY <1>1, <1>2, <1>3
        DEF IInv, PreviousNewest, IsNewest, ActivePending, IsPending, BreaksFresh,
            NoneTwice, Starts, Fresh

LEMMA StepInv == IInv /\ [Next]_vars => IInv'
<1> SUFFICES ASSUME IInv, [Next]_vars PROVE IInv'
  OBVIOUS
<1>0. TypeOK'
  BY StepType DEF IInv
<1>1. CASE Next
  BY <1>0, <1>1, StepForms, BreakStep, NoBreakStep DEF IInv
<1>2. CASE UNCHANGED vars
  BY <1>2 DEF vars, IInv, TypeOK, PreviousNewest, IsNewest, ActivePending, IsPending,
              WasBroken, BreaksFresh, RefersFresh, NoneTwice, SwingsOf
<1> QED BY <1>1, <1>2

LEMMA Inductive == Spec => []IInv
BY InitStarts, StartInv, StepInv, PTL DEF Spec

\* No level is broken twice, whatever the frame and the configuration.
THEOREM BrokenOnceHolds == Spec => []BrokenOnce
<1>1. IInv => BrokenOnce
  <2> SUFFICES ASSUME IInv PROVE BrokenOnce
    OBVIOUS
  <2>1. ASSUME NEW d \in Directions, active[d] # None, NEW n \in DOMAIN breaks,
               breaks[n].direction = d
        PROVE  breaks[n].reference < active[d]
    <3>1. active[d] = previous[d] /\ ~WasBroken(d, previous[d])
      BY <2>1 DEF IInv, ActivePending, IsPending
    <3>2. breaks[n].reference <= previous[d] /\ breaks[n].reference # previous[d]
      BY <2>1, <3>1 DEF IInv, BreaksFresh, RefersFresh, WasBroken
    <3>3. breaks[n].reference \in Nat /\ previous[d] \in Nat
      BY BreakFields DEF IInv, TypeOK
    <3> QED BY <3>1, <3>2, <3>3
  <2> QED BY <2>1 DEF BrokenOnce, IInv, NoneTwice
<1> QED BY <1>1, Inductive, PTL

\* Every break refers to the newest swing of its type confirmed by its bar.
THEOREM ReferencesFreshHolds == Spec => []ReferencesFresh
<1>1. IInv => ReferencesFresh
  <2> SUFFICES ASSUME IInv, NEW n \in DOMAIN breaks
               PROVE  /\ breaks[n].reference \in
                           SwingsOf(frame, config, breaks[n].direction)
                      /\ ConfirmIndex(config, breaks[n].reference) <= breaks[n].bar
                      /\ \A i \in SwingsOf(frame, config, breaks[n].direction) :
                           ConfirmIndex(config, i) <= breaks[n].bar
                           => i <= breaks[n].reference
    BY DEF ReferencesFresh
  <2>1. IsNewest(breaks[n].direction, breaks[n].bar, breaks[n].reference)
    BY DEF IInv, BreaksFresh, RefersFresh
  <2>2. breaks[n].reference \in Nat \ {0} /\ config \in Configs /\ Len(frame) \in Nat
    BY BreakFields DEF IInv, TypeOK
  <2>3. IsSwing(frame, config, breaks[n].direction, breaks[n].reference)
    BY <2>1, <2>2 DEF IsNewest, None
  <2>4. breaks[n].reference \in 1 .. Len(frame)
    BY <2>2, <2>3, ConfigRight, SwingInFrame
  <2> QED BY <2>1, <2>2, <2>3, <2>4 DEF IsNewest, SwingsOf, None
<1> QED BY <1>1, Inductive, PTL

\* The recorded transitions chain up to the current state, and BOS means
\* exactly that the trend was not reversed.
THEOREM BreakChainHolds == Spec => []BreakChain
<1>1. Init => BreakChain
  BY DEF Init, Fresh, BreakChain
<1>2. IInv /\ BreakChain /\ [Next]_vars => BreakChain'
  <2> SUFFICES ASSUME IInv, BreakChain, [Next]_vars PROVE BreakChain'
    OBVIOUS
  <2>0. TypeOK
    BY DEF IInv
  <2>1. CASE UNCHANGED vars
    BY <2>1 DEF vars, BreakChain
  <2>2. CASE Next
    <3>1. PICK j \in 1 .. Len(frame) :
            /\ Advance(j)
            /\ \/ \E d \in Directions : BreaksAt(d, j) /\ Break(d, j)
               \/ UNCHANGED <<state, breaks>>
      BY <2>0, <2>2, StepForms
    <3>2. CASE UNCHANGED <<state, breaks>>
      BY <3>2 DEF BreakChain
    <3>3. ASSUME NEW d \in Directions, BreaksAt(d, j), Break(d, j)
          PROVE  BreakChain'
      <4> DEFINE ref == ActiveAt(j)[d]
                 b == MakeBreak(frame, config, d, ref, state, j)
      <4>1. /\ b.from = state /\ b.to = d /\ b.bar = j
            /\ b.type = BreakType(frame, config, d, state, j)
        BY DEF MakeBreak
      <4>2. b.type = "BOS" <=> state # Opposite(d)
        BY <2>0, <4>1 DEF BreakType, Opposite, Directions, TypeOK, States
      <4>3. ref \in Nat \ {0} /\ j \in Nat \ {0}
        BY <2>0, <3>3, ActiveAtType DEF BreaksAt, Breaks, None
      <4>4. b \in BreakRecords
        BY <2>0, <4>3, MakeBreakType DEF TypeOK
      <4>5. breaks' = Append(breaks, b) /\ state' = d
        BY <3>3 DEF Break
      <4> HIDE DEF b
      <4>6. /\ breaks \in Seq(BreakRecords) /\ Len(breaks) \in Nat
            /\ breaks' \in Seq(BreakRecords)
            /\ Len(breaks') = Len(breaks) + 1 /\ breaks'[Len(breaks) + 1] = b
            /\ \A n \in DOMAIN breaks : breaks'[n] = breaks[n]
        BY <2>0, <4>4, <4>5 DEF TypeOK
      <4>7. ASSUME NEW n \in DOMAIN breaks PROVE breaks[n].bar < j
        <5>1. breaks[n].bar <= index /\ breaks[n].bar \in Nat
          BY <2>0, BreakFields DEF IInv, BreaksFresh, RefersFresh
        <5>2. j = index + 1 /\ index \in Nat
          BY <2>0, <3>1 DEF Advance, TypeOK
        <5> QED BY <5>1, <5>2
      <4>8. ASSUME NEW n \in DOMAIN breaks'
            PROVE  /\ breaks'[n].from = IF n = 1 THEN "undefined" ELSE breaks'[n - 1].to
                   /\ breaks'[n].type = "BOS" <=> breaks'[n].from # Opposite(breaks'[n].to)
                   /\ n > 1 => breaks'[n - 1].bar < breaks'[n].bar
        <5>0. n \in 1 .. Len(breaks) + 1
          BY <4>6
        <5>1. CASE n \in DOMAIN breaks
          <6>1. n \in 1 .. Len(breaks) /\ breaks'[n] = breaks[n]
            BY <4>6, <5>1
          <6>2. n > 1 => n - 1 \in DOMAIN breaks /\ breaks'[n - 1] = breaks[n - 1]
            BY <4>6, <6>1
          <6> QED BY <5>1, <6>1, <6>2 DEF BreakChain
        <5>2. CASE n = Len(breaks) + 1
          <6>1. breaks'[n] = b
            BY <4>6, <5>2
          <6>2. n = 1 => breaks = <<>>
            BY <4>6, <5>2
          <6>3. n > 1 => /\ n - 1 \in DOMAIN breaks /\ n - 1 = Len(breaks)
                         /\ breaks # <<>> /\ breaks'[n - 1] = breaks[n - 1]
            BY <4>6, <5>2
          <6>4. state = IF n = 1 THEN "undefined" ELSE breaks'[n - 1].to
            BY <5>0, <6>2, <6>3 DEF BreakChain
          <6>5. n > 1 => breaks'[n - 1].bar < j
            BY <6>3, <4>7
          <6> QED BY <4>1, <4>2, <6>1, <6>4, <6>5
        <5> QED BY <4>6, <5>0, <5>1, <5>2
      <4>9. state' = IF breaks' = <<>> THEN "undefined" ELSE breaks'[Len(breaks')].to
        BY <4>1, <4>5, <4>6
      <4> QED BY <4>8, <4>9 DEF BreakChain
    <3> QED BY <3>1, <3>2, <3>3
  <2> QED BY <2>1, <2>2
<1> QED BY <1>1, <1>2, Inductive, PTL DEF Spec

----------------------------------------------------------------------------
(***************************************************************************)
(* Why the elif of the code hides nothing: as long as no bar has closed     *)
(* beyond either, a pending low cannot lie above a pending high by more than*)
(* the tolerance, so no close breaks both.                                  *)
(***************************************************************************)

LEMMA BarFields ==
  ASSUME TypeOK, NEW i \in 1 .. Len(frame)
  PROVE  /\ frame[i].high \in Int /\ frame[i].low \in Int /\ frame[i].close \in Int
         /\ frame[i].low <= frame[i].close /\ frame[i].close <= frame[i].high
<1>1. frame[i] \in Bars
  BY DEF TypeOK
<1> QED
  BY <1>1, BarsAssumption DEF WellFormed

\* Swing s of direction d was confirmed by bar j and not broken before it.
UnbrokenUntil(d, s, j) ==
  /\ s \in 1 .. Len(frame) /\ IsSwing(frame, config, d, s)
  /\ ConfirmIndex(config, s) <= j
  /\ \A k \in ConfirmIndex(config, s) .. j - 1 : ~Breaks(frame, config, d, s, k)

LEMMA NeverBoth ==
  ASSUME TypeOK, config.mode = "close", NEW j \in 1 .. Len(frame), NEW H, NEW L,
         UnbrokenUntil("bullish", H, j), UnbrokenUntil("bearish", L, j)
  PROVE  ~(Breaks(frame, config, "bullish", H, j) /\ Breaks(frame, config, "bearish", L, j))
<1> DEFINE high == frame[H].high
           low == frame[L].low
           tol == config.breakTol
<1>1. /\ tol \in Nat /\ config.right \in Nat \ {0} /\ Len(frame) \in Nat
      /\ H \in 1 .. Len(frame) /\ L \in 1 .. Len(frame)
      /\ H + config.right <= j /\ L + config.right <= j
  BY ConfigsAssumption DEF TypeOK, ConfigType, UnbrokenUntil, ConfirmIndex
<1>2. /\ high \in Int /\ frame[H].low \in Int /\ frame[H].close \in Int
      /\ frame[H].low <= frame[H].close /\ frame[H].close <= high
      /\ low \in Int /\ frame[L].high \in Int /\ frame[L].close \in Int
      /\ low <= frame[L].close /\ frame[L].close <= frame[L].high
      /\ frame[j].close \in Int
  BY <1>1, BarFields
<1>3. \A k \in H + config.right .. j - 1 : ~(frame[k].close - high > tol)
  BY <1>1 DEF UnbrokenUntil, ConfirmIndex, Breaks, Distance, Probe, Level, Extreme, None
<1>4. \A k \in L + config.right .. j - 1 : ~(low - frame[k].close > tol)
  BY <1>1 DEF UnbrokenUntil, ConfirmIndex, Breaks, Distance, Probe, Level, Extreme, None
<1>5. \A k \in H + 1 .. H + config.right : high >= frame[k].high
  <2> SUFFICES ASSUME NEW k \in H + 1 .. H + config.right PROVE high >= frame[k].high
    OBVIOUS
  <2>0. k \in 1 .. Len(frame)
    BY <1>1
  <2>1. high > frame[k].high \/ high = frame[k].high
    BY DEF UnbrokenUntil, IsSwing, IsPivot, WindowAfter, Beats, Beyond, Extreme
  <2>2. frame[k].high \in Int
    BY <2>0, BarFields
  <2> QED
    BY <1>2, <2>1, <2>2
<1>6. \A k \in L + 1 .. L + config.right : low <= frame[k].low
  <2> SUFFICES ASSUME NEW k \in L + 1 .. L + config.right PROVE low <= frame[k].low
    OBVIOUS
  <2>0. k \in 1 .. Len(frame)
    BY <1>1
  <2>1. low < frame[k].low \/ low = frame[k].low
    BY DEF UnbrokenUntil, IsSwing, IsPivot, WindowAfter, Beats, Beyond, Extreme
  <2>2. frame[k].low \in Int
    BY <2>0, BarFields
  <2> QED
    BY <1>2, <2>1, <2>2
<1>7. low <= high + tol
  <2>1. CASE L = H
    <3>1. low <= high
      BY <1>2, <2>1
    <3> QED
      BY <1>1, <1>2, <3>1
  <2>2. CASE L > H /\ L <= H + config.right
    <3>1. high >= frame[L].high
      BY <1>1, <1>5, <2>2
    <3> HIDE DEF high, low, tol
    <3> QED
      BY <1>1, <1>2, <3>1
  <2>3. CASE L > H + config.right
    <3>1. ~(frame[L].close - high > tol)
      BY <1>1, <1>3, <2>3
    <3> HIDE DEF high, low, tol
    <3> QED
      BY <1>1, <1>2, <3>1
  <2>4. CASE L < H /\ H <= L + config.right
    <3>1. low <= frame[H].low
      BY <1>1, <1>6, <2>4
    <3> HIDE DEF high, low, tol
    <3> QED
      BY <1>1, <1>2, <3>1
  <2>5. CASE H > L + config.right
    <3>1. ~(low - frame[H].close > tol)
      BY <1>1, <1>4, <2>5
    <3> HIDE DEF high, low, tol
    <3> QED
      BY <1>1, <1>2, <3>1
  <2> QED
    BY <1>1, <2>1, <2>2, <2>3, <2>4, <2>5
<1>8. ~(frame[j].close - high > tol /\ low - frame[j].close > tol)
  BY <1>1, <1>2, <1>7
<1> QED
  BY <1>1, <1>8 DEF Breaks, Distance, Probe, Level, Extreme

\* The references bar j is tested against were not broken before it.
LEMMA PendingAtBar ==
  ASSUME IInv, PendingUnbroken, config.mode = "close", NEW j \in 1 .. Len(frame), Advance(j),
         NEW d \in Directions, ActiveAt(j)[d] # None
  PROVE  UnbrokenUntil(d, ActiveAt(j)[d], j)
<1> DEFINE a == ActiveAt(j)[d]
<1>1. j = index + 1 /\ Admit(j) /\ index \in Nat /\ config.right \in Nat \ {0}
  BY ConfigRight DEF Advance, IInv, TypeOK
<1>2. IsNewest(d, j, previous'[d]) /\ IsPending(d, previous'[d], a)
  BY <1>1, Admission
<1>3. IsSwing(frame, config, d, a) /\ ConfirmIndex(config, a) <= j
  BY <1>2 DEF IsNewest, IsPending
<1>4. a \in Nat
  BY ActiveAtType DEF IInv
<1>5. a \in 1 .. Len(frame)
  BY <1>1, <1>3, <1>4 DEF ConfirmIndex, None
<1>6. \A k \in ConfirmIndex(config, a) .. j - 1 : ~Breaks(frame, config, d, a, k)
  <2>1. CASE Admitted(d, j) # {}
    <3>1. a = j - config.right
      BY <2>1 DEF ActiveAt
    <3>2. ConfirmIndex(config, a) = j
      BY <1>1, <3>1 DEF ConfirmIndex
    <3> QED
      BY <1>1, <3>2
  <2>2. CASE Admitted(d, j) = {}
    <3>1. a = active[d] /\ j - 1 = index
      BY <1>1, <2>2 DEF ActiveAt
    <3> QED
      BY <3>1 DEF PendingUnbroken
  <2> QED
    BY <2>1, <2>2
<1> QED
  BY <1>3, <1>5, <1>6 DEF UnbrokenUntil

\* With close breaks, no close since its confirmation lies beyond a reference
\* that is still pending.
THEOREM PendingUnbrokenHolds == Spec => []PendingUnbroken
<1>1. Init => PendingUnbroken
  BY DEF Init, Fresh, PendingUnbroken
<1>2. IInv /\ PendingUnbroken /\ [Next]_vars => PendingUnbroken'
  <2> SUFFICES ASSUME IInv, PendingUnbroken, [Next]_vars PROVE PendingUnbroken'
    OBVIOUS
  <2>1. CASE UNCHANGED vars
    BY <2>1 DEF vars, PendingUnbroken
  <2>2. ASSUME NEW j \in DOMAIN frame, Advance(j), config.mode = "close",
               NEW d \in Directions, active'[d] # None, active'[d] = ActiveAt(j)[d],
               ~BreaksAt(d, j)
        PROVE  \A k \in ConfirmIndex(config', active'[d]) .. index' :
                 ~Breaks(frame', config', d, active'[d], k)
    <3>1. /\ j \in 1 .. Len(frame) /\ index' = j /\ frame' = frame /\ config' = config
      BY <2>2 DEF Advance, IInv, TypeOK
    <3>2. UnbrokenUntil(d, ActiveAt(j)[d], j)
      BY <2>2, <3>1, PendingAtBar
    <3>3. \A k \in ConfirmIndex(config, ActiveAt(j)[d]) .. j - 1 :
            ~Breaks(frame, config, d, ActiveAt(j)[d], k)
      BY <3>2 DEF UnbrokenUntil
    <3>4. ~Breaks(frame, config, d, ActiveAt(j)[d], j)
      BY <2>2 DEF BreaksAt
    <3>5. ConfirmIndex(config, ActiveAt(j)[d]) \in Nat
      BY <3>2, ConfigRight DEF UnbrokenUntil, ConfirmIndex, IInv, TypeOK
    <3>6. \A k \in ConfirmIndex(config, ActiveAt(j)[d]) .. j :
            ~Breaks(frame, config, d, ActiveAt(j)[d], k)
      BY <3>1, <3>3, <3>4, <3>5
    <3> QED
      BY <2>2, <3>1, <3>6
  <2>3. CASE NoBreak
    <3>1. PICK j \in DOMAIN frame : /\ Advance(j) /\ active' = ActiveAt(j)
                                    /\ \A d \in Directions : ~BreaksAt(d, j)
      BY <2>3 DEF NoBreak
    <3> QED
      BY <2>2, <3>1 DEF PendingUnbroken, Advance
  <2>4. CASE BullishBreak
    <3>1. PICK j \in DOMAIN frame : /\ Advance(j) /\ BreaksAt("bullish", j)
                                    /\ active' = [ActiveAt(j) EXCEPT !["bullish"] = None]
      BY <2>4 DEF BullishBreak, Break
    <3>2. j \in 1 .. Len(frame)
      BY DEF IInv, TypeOK
    <3>3. ActiveAt(j) \in [Directions -> Nat]
      BY <3>2, ActiveAtType DEF IInv
    <3>4. active'["bullish"] = None /\ active'["bearish"] = ActiveAt(j)["bearish"]
      BY <3>1, <3>3 DEF Directions
    <3>5. config.mode = "close" /\ ActiveAt(j)["bearish"] # None => ~BreaksAt("bearish", j)
      <4> SUFFICES ASSUME config.mode = "close", ActiveAt(j)["bearish"] # None
                   PROVE  ~BreaksAt("bearish", j)
        OBVIOUS
      <4>1. ActiveAt(j)["bullish"] # None
        BY <3>1 DEF BreaksAt, Breaks
      <4>2. /\ UnbrokenUntil("bullish", ActiveAt(j)["bullish"], j)
            /\ UnbrokenUntil("bearish", ActiveAt(j)["bearish"], j)
        BY <3>1, <3>2, <4>1, PendingAtBar DEF Directions
      <4> QED
        BY <3>1, <3>2, <4>2, NeverBoth DEF BreaksAt, IInv
    <3> QED
      BY <2>2, <3>1, <3>4, <3>5 DEF PendingUnbroken, Advance, Directions
  <2>5. CASE BearishBreak
    <3>1. PICK j \in DOMAIN frame : /\ Advance(j) /\ ~BreaksAt("bullish", j)
                                    /\ active' = [ActiveAt(j) EXCEPT !["bearish"] = None]
      BY <2>5 DEF BearishBreak, Break
    <3>2. j \in 1 .. Len(frame)
      BY DEF IInv, TypeOK
    <3>3. ActiveAt(j) \in [Directions -> Nat]
      BY <3>2, ActiveAtType DEF IInv
    <3>4. active'["bearish"] = None /\ active'["bullish"] = ActiveAt(j)["bullish"]
      BY <3>1, <3>3 DEF Directions
    <3> QED
      BY <2>2, <3>1, <3>4 DEF PendingUnbroken, Advance, Directions
  <2> QED
    BY <2>1, <2>3, <2>4, <2>5 DEF Next
<1> QED
  BY <1>1, <1>2, Inductive, PTL DEF Spec
----------------------------------------------------------------------------
(***************************************************************************)
(* The walk over a complete frame implements the live specification: what  *)
(* batch detection publishes for the first bars of a frame is what a       *)
(* detector that never saw the rest would have published.                  *)
(***************************************************************************)

\* The rules LiveStructure is written with are the rules of this module.
LEMMA SameRules ==
  ASSUME NEW F, NEW c, NEW d, NEW i, NEW p, NEW s, NEW j
  PROVE  /\ Live!IsSwing(F, c, d, i) <=> IsSwing(F, c, d, i)
         /\ Live!SwingsOf(F, c, d) = SwingsOf(F, c, d)
         /\ Live!ConfirmIndex(c, i) = ConfirmIndex(c, i)
         /\ Live!Breaks(F, c, d, i, j) <=> Breaks(F, c, d, i, j)
         /\ Live!Directions = Directions /\ Live!None = None
<1>1. Live!IsSwing(F, c, d, i) <=> IsSwing(F, c, d, i)
  BY DEF Live!IsSwing, IsSwing, Live!IsPivot, IsPivot, Live!Significant, Significant,
         Live!Beats, Beats, Live!WindowBefore, WindowBefore, Live!WindowAfter,
         WindowAfter, Live!Extreme, Extreme, Live!Beyond, Beyond, Live!Distance, Distance
<1>2. \A k : Live!IsSwing(F, c, d, k) <=> IsSwing(F, c, d, k)
  BY DEF Live!IsSwing, IsSwing, Live!IsPivot, IsPivot, Live!Significant, Significant,
         Live!Beats, Beats, Live!WindowBefore, WindowBefore, Live!WindowAfter,
         WindowAfter, Live!Extreme, Extreme, Live!Beyond, Beyond, Live!Distance, Distance
<1>3. Live!SwingsOf(F, c, d) = SwingsOf(F, c, d)
  BY <1>2 DEF Live!SwingsOf, SwingsOf
<1>4. Live!Breaks(F, c, d, i, j) <=> Breaks(F, c, d, i, j)
  BY DEF Live!Breaks, Breaks, Live!Distance, Distance, Live!Probe, Probe, Live!Level,
         Level, Live!Extreme, Extreme, Live!None, None
<1> QED BY <1>1, <1>3, <1>4
        DEF Live!ConfirmIndex, ConfirmIndex, Live!Directions, Directions, Live!None, None

LEMMA SameClassify ==
  ASSUME NEW F, NEW c, NEW d, NEW i, NEW p
  PROVE  Live!Classify(F, c, d, i, p) = Classify(F, c, d, i, p)
BY DEF Live!Classify, Classify, Live!Level, Level, Live!Extreme, Extreme, Live!Max, Max,
       Live!LabelName, LabelName, Live!ConfirmIndex, ConfirmIndex, Live!None, None

LEMMA SameMakeBreak ==
  ASSUME NEW F, NEW c, NEW d, NEW ref, NEW s, NEW j
  PROVE  Live!MakeBreak(F, c, d, ref, s, j) = MakeBreak(F, c, d, ref, s, j)
<1>1. Live!Displaced(F, c, j) <=> Displaced(F, c, j)
  BY DEF Live!Displaced, Displaced, Live!BarRange, BarRange, Live!SumFunction,
         SumFunction, Live!SumFunctionOnSet, SumFunctionOnSet, Live!FoldFunctionOnSet,
         FoldFunctionOnSet, Live!MapThenFoldSet, MapThenFoldSet
<1> QED BY <1>1 DEF Live!MakeBreak, MakeBreak, Live!BreakType, BreakType

----------------------------------------------------------------------------
(***************************************************************************)
(* The rules look no further than the bar they are asked about.            *)
(***************************************************************************)

LEMMA PrefixBars ==
  ASSUME NEW F \in Seq(Bars), NEW j \in 0 .. Len(F)
  PROVE  /\ SubSeq(F, 1, j) \in Seq(Bars) /\ Len(SubSeq(F, 1, j)) = j
         /\ \A k \in 1 .. j : SubSeq(F, 1, j)[k] = F[k]
OBVIOUS

\* The swings of a prefix are the swings of the frame confirmed within it.
LEMMA PrefixSwing ==
  ASSUME NEW F \in Seq(Bars), NEW j \in 0 .. Len(F), NEW c \in Configs,
         NEW d \in Directions, NEW i \in Int
  PROVE  IsSwing(SubSeq(F, 1, j), c, d, i)
         <=> IsSwing(F, c, d, i) /\ ConfirmIndex(c, i) <= j
<1> DEFINE G == SubSeq(F, 1, j)
<1>1. c.left \in Nat \ {0} /\ c.right \in Nat \ {0}
  BY ConfigsAssumption DEF ConfigType
<1>2. Len(G) = j /\ \A k \in 1 .. j : G[k] = F[k]
  BY PrefixBars
<1> HIDE DEF G
<1>3. CASE i - c.left >= 1 /\ i + c.right <= j
  <2>1. G[i] = F[i]
    BY <1>1, <1>2, <1>3
  <2>2. \A k \in WindowBefore(c, i) \cup WindowAfter(c, i) : G[k] = F[k]
    BY <1>1, <1>2, <1>3 DEF WindowBefore, WindowAfter
  <2>3. IsPivot(G, c, d, i) <=> IsPivot(F, c, d, i)
    BY <1>1, <1>2, <1>3, <2>1, <2>2 DEF IsPivot
  <2>4. Significant(G, c, d, i) <=> Significant(F, c, d, i)
    BY <2>1, <2>2 DEF Significant
  <2> QED BY <1>3, <2>3, <2>4 DEF IsSwing, ConfirmIndex, G
<1>4. CASE ~(i - c.left >= 1 /\ i + c.right <= j)
  BY <1>1, <1>2, <1>4 DEF IsSwing, IsPivot, ConfirmIndex, G
<1> QED BY <1>3, <1>4

LEMMA PrefixBreaks ==
  ASSUME NEW F \in Seq(Bars), NEW j \in 1 .. Len(F), NEW c, NEW d,
         NEW ref \in 0 .. j
  PROVE  Breaks(SubSeq(F, 1, j), c, d, ref, j) <=> Breaks(F, c, d, ref, j)
<1>1. SubSeq(F, 1, j)[j] = F[j] /\ (ref # None => SubSeq(F, 1, j)[ref] = F[ref])
  BY PrefixBars DEF None
<1> QED BY <1>1 DEF Breaks, Probe, Level

LEMMA PrefixClassify ==
  ASSUME NEW F \in Seq(Bars), NEW j \in 1 .. Len(F), NEW c, NEW d,
         NEW i \in 1 .. j, NEW p \in 0 .. j
  PROVE  Classify(SubSeq(F, 1, j), c, d, i, p) = Classify(F, c, d, i, p)
<1>1. SubSeq(F, 1, j)[i] = F[i] /\ (p # None => SubSeq(F, 1, j)[p] = F[p])
  BY PrefixBars DEF None
<1>2. CASE p = None
  BY <1>2 DEF Classify
<1>3. CASE p # None
  BY <1>1, <1>3 DEF Classify, Level
<1> QED BY <1>2, <1>3

LEMMA PrefixMakeBreak ==
  ASSUME NEW F \in Seq(Bars), NEW j \in 1 .. Len(F), NEW c \in Configs, NEW d,
         NEW ref, NEW s
  PROVE  MakeBreak(SubSeq(F, 1, j), c, d, ref, s, j) = MakeBreak(F, c, d, ref, s, j)
<1>1. c.lookback \in Nat \ {0}
  BY ConfigsAssumption DEF ConfigType
<1>2. Displaced(SubSeq(F, 1, j), c, j) <=> Displaced(F, c, j)
  <2>1. CASE j > c.lookback
    <3>1. \A k \in 1 .. j : SubSeq(F, 1, j)[k] = F[k]
      BY PrefixBars
    <3>2. SubSeq(F, 1, j)[j] = F[j] /\ (j - c.lookback) .. (j - 1) \subseteq 1 .. j
      BY <1>1, <2>1, <3>1
    <3>3. [k \in (j - c.lookback) .. (j - 1) |-> BarRange(F[k])]
          = [k \in (j - c.lookback) .. (j - 1) |-> BarRange(SubSeq(F, 1, j)[k])]
      BY <3>1, <3>2
    <3> QED BY <3>2, <3>3 DEF Displaced
  <2>2. CASE ~(j > c.lookback)
    BY <2>2 DEF Displaced
  <2> QED BY <2>1, <2>2
<1> QED BY <1>2 DEF MakeBreak, BreakType

----------------------------------------------------------------------------
(***************************************************************************)
(* The accumulators of the walk are what the live specification reads off  *)
(* the prefix G that ends with bar j.                                      *)
(***************************************************************************)

\* The CHOOSE of LatestBefore has one candidate.
LEMMA LatestUnique ==
  ASSUME NEW F \in Seq(Bars), NEW d, NEW i \in Int, NEW s \in 0 .. Len(F),
         i <= Len(F) + 1,
         s # None => s < i /\ IsSwing(F, config, d, s),
         \A k \in 1 .. (i - 1) : IsSwing(F, config, d, k) => k <= s
  PROVE  Live!LatestBefore(F, d, i) = s
<1>1. Live!IsLatest(F, d, i, s)
  BY SameRules DEF Live!IsLatest
<1>2. ASSUME NEW t \in 0 .. Len(F), Live!IsLatest(F, d, i, t)
      PROVE  t = s
  <2>1. t = 0 \/ (t < i /\ IsSwing(F, config, d, t))
    BY <1>2, SameRules DEF Live!IsLatest, None
  <2>2. \A k \in 1 .. (i - 1) : IsSwing(F, config, d, k) => k <= t
    BY <1>2, SameRules DEF Live!IsLatest
  <2>3. Len(F) \in Nat
    OBVIOUS
  <2>4. t <= s
    BY <2>1, <2>3
  <2>5. s <= t
    BY <2>2, <2>3 DEF None
  <2> QED BY <2>3, <2>4, <2>5
<1> QED BY <1>1, <1>2 DEF Live!LatestBefore

LEMMA LatestOfPrefix ==
  ASSUME IInv, NEW j \in 1 .. Len(frame), j = index + 1, Admit(j),
         NEW d \in Directions
  PROVE  /\ Live!LatestBefore(SubSeq(frame, 1, j), d, j + 1) = previous'[d]
         /\ \A i \in Admitted(d, j) :
              Live!LatestBefore(SubSeq(frame, 1, j), d, i) = previous[d]
<1> DEFINE G == SubSeq(frame, 1, j)
<1>1. /\ frame \in Seq(Bars) /\ Len(frame) \in Nat /\ config \in Configs
      /\ index \in Nat /\ previous[d] \in Nat
  BY DEF IInv, TypeOK
<1>2. config.right \in Nat \ {0} /\ config.left \in Nat \ {0}
  BY <1>1, ConfigRight
<1>3. G \in Seq(Bars) /\ Len(G) = j
  BY <1>1, PrefixBars
<1>4. \A k \in Int : IsSwing(G, config, d, k)
                     <=> IsSwing(frame, config, d, k) /\ ConfirmIndex(config, k) <= j
  BY <1>1, PrefixSwing
<1> HIDE DEF G
<1>5. \A k \in 1 .. Len(frame) : IsSwing(frame, config, d, k)
                                 => k \in SwingsOf(frame, config, d)
  BY DEF SwingsOf
<1>6. Live!LatestBefore(G, d, j + 1) = previous'[d]
  <2>1. IsNewest(d, j, previous'[d])
    BY Admission
  <2>2. previous'[d] \in Nat
    BY AdmitType DEF IInv
  <2>3. previous'[d] # None =>
          IsSwing(G, config, d, previous'[d]) /\ previous'[d] + config.right <= j
    BY <1>4, <2>1, <2>2 DEF IsNewest, ConfirmIndex
  <2>4. previous'[d] \in 0 .. j
    BY <1>2, <2>2, <2>3 DEF None
  <2>5. ASSUME NEW k \in 1 .. j, IsSwing(G, config, d, k)
        PROVE  k <= previous'[d]
    BY <1>1, <1>4, <1>5, <2>1, <2>5 DEF IsNewest
  <2> QED BY <1>3, <2>3, <2>4, <2>5, LatestUnique
<1>7. ASSUME NEW i \in Admitted(d, j)
      PROVE  Live!LatestBefore(G, d, i) = previous[d]
  <2>1. i = j - config.right /\ i \in 1 .. Len(frame)
    BY AdmittedType DEF IInv
  <2>2. IsNewest(d, index, previous[d])
    BY DEF IInv, PreviousNewest
  <2>3. previous[d] # None =>
          IsSwing(G, config, d, previous[d]) /\ previous[d] + config.right <= index
    BY <1>1, <1>2, <1>4, <2>2 DEF IsNewest, ConfirmIndex
  <2>4. previous[d] \in 0 .. j /\ (previous[d] # None => previous[d] < i)
    BY <1>1, <1>2, <2>1, <2>3 DEF None
  <2>5. ASSUME NEW k \in 1 .. (i - 1), IsSwing(G, config, d, k)
        PROVE  k <= previous[d]
    <3>1. IsSwing(frame, config, d, k) /\ k \in 1 .. Len(frame)
      BY <1>4, <2>1, <2>5, <1>1
    <3>2. ConfirmIndex(config, k) <= index
      BY <1>1, <1>2, <2>1 DEF ConfirmIndex
    <3> QED BY <1>5, <2>2, <3>1, <3>2 DEF IsNewest
  <2>6. i <= j + 1
    BY <1>2, <2>1
  <2> QED BY <1>1, <1>3, <2>1, <2>3, <2>4, <2>5, <2>6, LatestUnique
<1> QED BY <1>6, <1>7 DEF G

LEMMA TargetOfPrefix ==
  ASSUME IInv, NEW j \in 1 .. Len(frame), j = index + 1, Admit(j),
         NEW d \in Directions
  PROVE  /\ Live!Target(SubSeq(frame, 1, j), d) = ActiveAt(j)[d]
         /\ Live!Breaks(SubSeq(frame, 1, j), config, d,
                        Live!Target(SubSeq(frame, 1, j), d), j) <=> BreaksAt(d, j)
<1> DEFINE G == SubSeq(frame, 1, j)
<1>1. frame \in Seq(Bars) /\ Len(G) = j
  BY PrefixBars DEF IInv, TypeOK
<1>2. IsPending(d, previous'[d], ActiveAt(j)[d]) /\ IsNewest(d, j, previous'[d])
  BY Admission
<1>3. Live!LatestBefore(G, d, Len(G) + 1) = previous'[d]
  BY <1>1, LatestOfPrefix
<1>4. Live!Target(G, d) = ActiveAt(j)[d]
  BY <1>2, <1>3, SameRules DEF Live!Target, IsPending, WasBroken
<1>5. ActiveAt(j)[d] \in 0 .. j
  <2>1. ActiveAt(j)[d] \in Nat
    BY ActiveAtType DEF IInv
  <2>2. ActiveAt(j)[d] # None => ActiveAt(j)[d] + config.right <= j
    BY <1>2 DEF IsPending, IsNewest, ConfirmIndex
  <2> QED BY <2>1, <2>2, ConfigRight DEF None, IInv, TypeOK
<1>6. Live!Breaks(G, config, d, ActiveAt(j)[d], j)
      <=> Breaks(G, config, d, ActiveAt(j)[d], j)
  BY SameRules
<1>7. Breaks(G, config, d, ActiveAt(j)[d], j) <=> BreaksAt(d, j)
  BY <1>1, <1>5, PrefixBreaks DEF BreaksAt
<1> QED BY <1>4, <1>6, <1>7

LEMMA LabelsOfPrefix ==
  ASSUME IInv, NEW j \in 1 .. Len(frame), j = index + 1, Admit(j)
  PROVE  labels' = labels \cup Live!NewLabels(SubSeq(frame, 1, j))
<1> DEFINE G == SubSeq(frame, 1, j)
           New(d) == {i \in Live!SwingsOf(G, config, d) :
                        Live!ConfirmIndex(config, i) = Len(G)}
<1>1. /\ frame \in Seq(Bars) /\ Len(frame) \in Nat /\ config \in Configs /\ Len(G) = j
  BY PrefixBars DEF IInv, TypeOK
<1>2. config.right \in Nat \ {0}
  BY <1>1, ConfigRight
<1>3. ASSUME NEW d \in Directions PROVE New(d) = Admitted(d, j)
  <2>1. New(d) = {i \in SwingsOf(G, config, d) : ConfirmIndex(config, i) = j}
    BY <1>1, SameRules
  <2>2. \A i \in Int : IsSwing(G, config, d, i)
                       <=> IsSwing(frame, config, d, i) /\ ConfirmIndex(config, i) <= j
    BY <1>1, PrefixSwing
  <2>3. ASSUME NEW i \in Admitted(d, j)
        PROVE  i \in SwingsOf(G, config, d) /\ ConfirmIndex(config, i) = j
    <3>1. i = j - config.right /\ IsSwing(frame, config, d, i) /\ i \in 1 .. Len(frame)
      BY AdmittedType DEF IInv
    <3>2. ConfirmIndex(config, i) = j
      BY <1>2, <3>1 DEF ConfirmIndex
    <3>3. IsSwing(G, config, d, i) /\ i \in 1 .. j
      BY <1>2, <2>2, <3>1, <3>2
    <3> QED BY <1>1, <3>2, <3>3 DEF SwingsOf
  <2>4. ASSUME NEW i \in SwingsOf(G, config, d), ConfirmIndex(config, i) = j
        PROVE  i \in Admitted(d, j)
    <3>1. i \in 1 .. j /\ IsSwing(G, config, d, i)
      BY <1>1 DEF SwingsOf
    <3>2. i = j - config.right
      BY <1>2, <2>4, <3>1 DEF ConfirmIndex
    <3> QED BY <2>2, <3>1, <3>2 DEF Admitted
  <2> QED BY <2>1, <2>3, <2>4
<1>4. ASSUME NEW d \in Directions, NEW i \in Admitted(d, j)
      PROVE  Live!Classify(G, config, d, i, Live!LatestBefore(G, d, i))
             = Classify(frame, config, d, i, previous[d])
  <2>1. Live!LatestBefore(G, d, i) = previous[d]
    BY LatestOfPrefix
  <2>2. i \in 1 .. j
    BY <1>2, AdmittedType DEF IInv
  <2>3. previous[d] \in 0 .. j
    <3>1. IsNewest(d, index, previous[d]) /\ previous[d] \in Nat /\ index \in Nat
      BY DEF IInv, PreviousNewest, TypeOK
    <3> QED BY <1>2, <3>1 DEF IsNewest, ConfirmIndex, None
  <2> QED BY <1>1, <2>1, <2>2, <2>3, SameClassify, PrefixClassify
<1> DEFINE L(d) == UNION {Live!Classify(G, config, d, i, Live!LatestBefore(G, d, i)) :
                            i \in New(d)}
           B(d) == UNION {Classify(frame, config, d, i, previous[d]) : i \in Admitted(d, j)}
<1>5. \A d \in Directions : L(d) = B(d)
  <2> HIDE DEF New, G
  <2> QED BY <1>3, <1>4
<1>6. Live!Directions = Directions
  BY SameRules
<1>7. Live!NewLabels(G) = UNION {L(d) : d \in Directions}
  <2> HIDE DEF G
  <2> QED BY <1>6 DEF Live!NewLabels
<1>8. labels' = labels \cup UNION {B(d) : d \in Directions}
  BY DEF Admit
<1> HIDE DEF L, B, New
<1> QED BY <1>5, <1>7, <1>8

----------------------------------------------------------------------------
\* Batch equals streaming replay.
THEOREM WalkImplementsLive == Spec => LiveReplay
<1> DEFINE AInv == IInv /\ BreakChain
<1>1. Init => Live!Init
  <2> SUFFICES ASSUME Init PROVE Live!Init
    OBVIOUS
  <2>1. frame \in Seq(Bars) /\ index = 0
    BY InitStarts, StartType DEF Starts, Fresh, TypeOK
  <2>2. SubSeq(frame, 1, index) = <<>>
    BY <2>1
  <2> QED BY <2>2 DEF Init, Fresh, Live!Init
<1>2. AInv /\ AInv' /\ [Next]_vars => [Live!Next]_(Live!liveVars)
  <2> SUFFICES ASSUME AInv, AInv', [Next]_vars PROVE [Live!Next]_(Live!liveVars)
    OBVIOUS
  <2>1. CASE UNCHANGED vars
    BY <2>1 DEF vars, Live!liveVars
  <2>2. CASE Next
    <3>0. TypeOK
      BY DEF IInv
    <3>1. PICK j \in 1 .. Len(frame) :
            /\ Advance(j)
            /\ \/ \E d \in Directions :
                    /\ BreaksAt(d, j) /\ Break(d, j)
                    /\ d = "bearish" => ~BreaksAt("bullish", j)
               \/ /\ \A d \in Directions : ~BreaksAt(d, j)
                  /\ active' = ActiveAt(j) /\ UNCHANGED <<state, breaks>>
      BY <2>2, <3>0, StepForms
    <3> DEFINE G == SubSeq(frame, 1, j)
    <3>2. /\ j = index + 1 /\ index' = j /\ frame' = frame /\ config' = config
          /\ Admit(j) /\ frame \in Seq(Bars) /\ index \in 0 .. Len(frame)
          /\ config \in Configs
      BY <3>0, <3>1 DEF Advance, TypeOK
    <3>3. /\ SubSeq(frame', 1, index') = G
          /\ G = Append(SubSeq(frame, 1, index), frame[j])
          /\ frame[j] \in Bars /\ Len(G) = j
      BY <3>2
    <3>4. labels' = labels \cup Live!NewLabels(G)
      BY <3>2, LabelsOfPrefix
    <3>5. ASSUME NEW d \in Directions
          PROVE  /\ Live!Target(G, d) = ActiveAt(j)[d]
                 /\ Live!Breaks(G, config, d, Live!Target(G, d), Len(G)) <=> BreaksAt(d, j)
      BY <3>2, <3>3, TargetOfPrefix
    <3>6. Live!State = state
      BY DEF Live!State, BreakChain
    <3>7. ASSUME NEW d \in Directions
          PROVE  MakeBreak(frame, config, d, ActiveAt(j)[d], state, j)
                 = Live!MakeBreak(G, config, d, Live!Target(G, d), Live!State, Len(G))
      BY <3>2, <3>3, <3>5, <3>6, PrefixMakeBreak, SameMakeBreak
    <3> HIDE DEF G
    <3>8. ASSUME NEW d \in Directions
          PROVE  Live!Broken(G, d)
                 <=> BreaksAt(d, j) /\ (d = "bearish" => ~BreaksAt("bullish", j))
      BY <3>5 DEF Live!Broken, Directions
    <3>9. Live!Directions = Directions
      BY SameRules
    <3>10. Live!Publish(G)
      <4>1. CASE \E d \in Directions :
                   /\ BreaksAt(d, j) /\ Break(d, j)
                   /\ d = "bearish" => ~BreaksAt("bullish", j)
        <5>1. PICK d \in Directions :
                /\ BreaksAt(d, j) /\ Break(d, j)
                /\ d = "bearish" => ~BreaksAt("bullish", j)
          BY <4>1
        <5>2. Live!Broken(G, d)
          BY <3>8, <5>1
        <5>3. breaks' = Append(breaks, Live!MakeBreak(G, config, d, Live!Target(G, d),
                                                      Live!State, Len(G)))
          BY <3>7, <5>1 DEF Break
        <5> QED BY <3>4, <3>9, <5>2, <5>3 DEF Live!Publish
      <4>2. CASE /\ \A d \in Directions : ~BreaksAt(d, j)
                 /\ UNCHANGED breaks
        <5>1. \A d \in Directions : ~Live!Broken(G, d)
          BY <3>8, <4>2
        <5> QED BY <3>4, <3>9, <4>2, <5>1 DEF Live!Publish
      <4> QED BY <3>1, <4>1, <4>2
    <3>11. Live!Arrive(frame[j])
      BY <3>2, <3>3, <3>10 DEF Live!Arrive
    <3> QED BY <3>3, <3>11 DEF Live!Next
  <2> QED BY <2>1, <2>2
<1>3. Spec => []AInv
  BY Inductive, BreakChainHolds, PTL
<1> HIDE DEF AInv
<1> QED BY <1>1, <1>2, <1>3, PTL DEF Spec, LiveReplay, Live!Spec

----------------------------------------------------------------------------
(***************************************************************************)
(* Dealing ranges.                                                         *)
(***************************************************************************)

LEMMA RangeConfigFields ==
  ASSUME NEW r \in RangeConfigs
  PROVE  r.left \in Nat \ {0} /\ r.right \in Nat \ {0}
BY RangeAssumption DEF RangeConfigType

LEMMA BarEnds ==
  ASSUME NEW F \in Seq(Bars), NEW i \in 1 .. Len(F)
  PROVE  /\ F[i].high \in Int /\ F[i].low \in Int /\ F[i].close \in Int
         /\ F[i].low <= F[i].close /\ F[i].close <= F[i].high
<1>1. F[i] \in Bars
  OBVIOUS
<1> QED
  BY <1>1, BarsAssumption DEF WellFormed

----------------------------------------------------------------------------
(***************************************************************************)
(* What the walk guarantees of the breaks B it recorded in the first k     *)
(* bars of the frame F under the structure configuration c.                *)
(***************************************************************************)

\* The bar of the break lies after the level's and beyond it.
BeyondLevel(F, c, b) ==
  /\ b.direction \in Directions
  /\ b.bar \in 1 .. Len(F) /\ b.reference \in 1 .. b.bar - 1
  /\ Distance(b.direction, Probe(F, c, b.direction, b.bar),
              Level(F, b.direction, b.reference)) > c.breakTol

Recorded(F, c, B, k) ==
  /\ F \in Seq(Bars) /\ c \in Configs /\ k \in 0 .. Len(F) /\ B \in Seq(BreakRecords)
  /\ \A n \in DOMAIN B : BeyondLevel(F, c, B[n]) /\ B[n].bar <= k
  /\ \A m, n \in DOMAIN B : m < n => B[m].bar < B[n].bar

\* Whatever swings the range detector uses, a pivot is confirmed before a bar
\* lies beyond it: within its window no bar does.
LEMMA BrokenIsConfirmed ==
  ASSUME NEW F \in Seq(Bars), NEW c \in Configs, NEW r \in RangeConfigs, NEW b,
         BeyondLevel(F, c, b), IsPivot(F, r, b.direction, b.reference)
  PROVE  ConfirmIndex(r, b.reference) < b.bar
<1> DEFINE d == b.direction
           i == b.reference
           j == b.bar
<1>1. /\ d \in Directions /\ j \in 1 .. Len(F) /\ i \in 1 .. j - 1
      /\ Distance(d, Probe(F, c, d, j), Level(F, d, i)) > c.breakTol
      /\ IsPivot(F, r, d, i) /\ c.breakTol \in Nat /\ r.right \in Nat
  BY RangeConfigFields, ConfigsAssumption DEF BeyondLevel, ConfigType
<1> HIDE DEF d, i, j
<1>2. SUFFICES ASSUME j <= i + r.right PROVE FALSE
  BY <1>1 DEF ConfirmIndex, i, j
<1>3. j \in WindowAfter(r, i)
  BY <1>1, <1>2 DEF WindowAfter
<1>4. Beyond(d, Extreme(F[i], d), Extreme(F[j], d)) \/ Extreme(F[i], d) = Extreme(F[j], d)
  BY <1>1, <1>3 DEF IsPivot, Beats
<1>5. i \in 1 .. Len(F)
  BY <1>1
<1>6. /\ F[i].high \in Int /\ F[i].low \in Int
      /\ F[j].high \in Int /\ F[j].low \in Int /\ F[j].close \in Int
      /\ F[j].low <= F[j].close /\ F[j].close <= F[j].high
  BY <1>1, <1>5, BarEnds
<1>7. CASE d = "bullish"
  BY <1>1, <1>4, <1>6, <1>7 DEF Distance, Probe, Level, Extreme, Beyond
<1>8. CASE d = "bearish"
  BY <1>1, <1>4, <1>6, <1>8 DEF Distance, Probe, Level, Extreme, Beyond
<1> QED
  BY <1>1, <1>7, <1>8 DEF Directions

\* The pivots of a prefix are those of the frame whose window fits in it.
LEMMA PivotsOfPrefix ==
  ASSUME NEW F \in Seq(Bars), NEW k \in 0 .. Len(F), NEW r \in RangeConfigs,
         NEW d \in Directions, NEW i \in Int
  PROVE  IsPivot(SubSeq(F, 1, k), r, d, i)
         <=> IsPivot(F, r, d, i) /\ ConfirmIndex(r, i) <= k
<1> DEFINE G == SubSeq(F, 1, k)
<1>1. r.left \in Nat \ {0} /\ r.right \in Nat \ {0}
  BY RangeConfigFields
<1>2. Len(G) = k /\ \A n \in 1 .. k : G[n] = F[n]
  BY PrefixBars
<1> HIDE DEF G
<1>3. CASE i - r.left >= 1 /\ i + r.right <= k
  <2>1. G[i] = F[i]
    BY <1>1, <1>2, <1>3
  <2>2. \A n \in WindowBefore(r, i) \cup WindowAfter(r, i) : G[n] = F[n]
    BY <1>1, <1>2, <1>3 DEF WindowBefore, WindowAfter
  <2>3. IsPivot(G, r, d, i) <=> IsPivot(F, r, d, i)
    BY <1>1, <1>2, <1>3, <2>1, <2>2 DEF IsPivot
  <2> QED
    BY <1>3, <2>3 DEF ConfirmIndex, G
<1>4. CASE ~(i - r.left >= 1 /\ i + r.right <= k)
  BY <1>1, <1>2, <1>4 DEF IsPivot, ConfirmIndex, G
<1> QED
  BY <1>3, <1>4

----------------------------------------------------------------------------
(***************************************************************************)
(* A range is known with the break that creates it, and from the bars up   *)
(* to that break alone.                                                    *)
(***************************************************************************)

LEMMA OpposingBounded ==
  ASSUME NEW F \in Seq(Bars), NEW c \in Configs, NEW r \in RangeConfigs, NEW b,
         BeyondLevel(F, c, b), Opposing(F, r, b) # {}
  PROVE  Max(Opposing(F, r, b)) \in Opposing(F, r, b)
<1>1. b.bar \in Nat
  BY DEF BeyondLevel
<1>2. /\ Opposing(F, r, b) \in SUBSET Nat
      /\ \A i \in Opposing(F, r, b) : i <= b.bar
  BY <1>1 DEF Opposing
<1> QED
  BY <1>1, <1>2, MinMax

LEMMA AnchorsKnown ==
  ASSUME NEW F \in Seq(Bars), NEW c \in Configs, NEW r \in RangeConfigs, NEW b,
         BeyondLevel(F, c, b), Anchored(F, r, b)
  PROVE  /\ \A d \in Directions : /\ Anchors(F, r, b)[d] \in 1 .. b.bar - 1
                                  /\ ConfirmIndex(r, Anchors(F, r, b)[d]) <= b.bar
         /\ DealingRange(F, r, b).bar = b.bar /\ DealingRange(F, r, b).source = b
<1>1. b.bar \in 1 .. Len(F) /\ b.reference \in 1 .. b.bar - 1
  BY DEF BeyondLevel
<1>2. ConfirmIndex(r, b.reference) < b.bar
  BY BrokenIsConfirmed DEF Anchored
<1>3. Max(Opposing(F, r, b)) \in Opposing(F, r, b)
  BY OpposingBounded DEF Anchored
<1>4. ASSUME NEW d \in Directions
      PROVE  /\ Anchors(F, r, b)[d] \in 1 .. b.bar - 1
             /\ ConfirmIndex(r, Anchors(F, r, b)[d]) <= b.bar
             /\ ConfirmIndex(r, Anchors(F, r, b)[d]) \in Nat
  <2>1. r.right \in Nat
    BY RangeConfigFields
  <2>2. CASE d = b.direction
    <3>1. Anchors(F, r, b)[d] = b.reference
      BY <2>2 DEF Anchors
    <3> QED
      BY <1>1, <1>2, <2>1, <3>1 DEF ConfirmIndex
  <2>3. CASE d # b.direction
    <3>1. Anchors(F, r, b)[d] \in Opposing(F, r, b)
      BY <1>3, <2>3 DEF Anchors
    <3> QED
      BY <1>1, <2>1, <3>1 DEF ConfirmIndex, Opposing
  <2> QED
    BY <2>2, <2>3
<1> DEFINE S == {b.bar} \cup {ConfirmIndex(r, Anchors(F, r, b)[d]) : d \in Directions}
<1>5. /\ S \in SUBSET Nat /\ b.bar \in S /\ \A y \in S : y <= b.bar
      /\ b.bar \in Nat
  BY <1>1, <1>4
<1>6. DealingRange(F, r, b).bar = Max(S) /\ DealingRange(F, r, b).source = b
  BY DEF DealingRange
<1> HIDE DEF S
<1>7. Max(S) \in S /\ b.bar <= Max(S)
  BY <1>5, MinMax
<1>8. Max(S) = b.bar
  <2>1. Max(S) \in Nat /\ Max(S) <= b.bar
    BY <1>5, <1>7
  <2> QED
    BY <1>5, <1>7, <2>1
<1> QED
  BY <1>4, <1>6, <1>8

LEMMA PrefixAnchors ==
  ASSUME NEW F \in Seq(Bars), NEW c \in Configs, NEW r \in RangeConfigs, NEW b,
         BeyondLevel(F, c, b), NEW k \in 0 .. Len(F), b.bar <= k
  PROVE  /\ Anchored(SubSeq(F, 1, k), r, b) <=> Anchored(F, r, b)
         /\ Anchors(SubSeq(F, 1, k), r, b) = Anchors(F, r, b)
         /\ Anchored(F, r, b) =>
              /\ \A d \in Directions : Level(SubSeq(F, 1, k), d, Anchors(F, r, b)[d])
                                       = Level(F, d, Anchors(F, r, b)[d])
              /\ DealingRange(SubSeq(F, 1, k), r, b) = DealingRange(F, r, b)
<1> DEFINE G == SubSeq(F, 1, k)
<1>1. /\ b.bar \in 1 .. Len(F) /\ b.reference \in 1 .. b.bar - 1
      /\ b.direction \in Directions /\ Opposite(b.direction) \in Directions
  BY DEF BeyondLevel, Directions, Opposite
<1>2. \A i \in 1 .. k : G[i] = F[i]
  BY PrefixBars
<1>3. \A d \in Directions : \A i \in Int :
        IsPivot(G, r, d, i) <=> IsPivot(F, r, d, i) /\ ConfirmIndex(r, i) <= k
  BY PivotsOfPrefix
<1> HIDE DEF G
<1>4. Opposing(G, r, b) = Opposing(F, r, b)
  <2>1. ASSUME NEW i \in 1 .. b.bar - 1
        PROVE  IsPivot(G, r, Opposite(b.direction), i) /\ ConfirmIndex(r, i) <= b.bar
               <=> IsPivot(F, r, Opposite(b.direction), i) /\ ConfirmIndex(r, i) <= b.bar
    <3>1. i \in Int /\ ConfirmIndex(r, i) \in Int
      BY <1>1, RangeConfigFields DEF ConfirmIndex
    <3>2. ConfirmIndex(r, i) <= b.bar => ConfirmIndex(r, i) <= k
      BY <1>1, <3>1
    <3> QED
      BY <1>1, <1>3, <3>1, <3>2
  <2> QED
    BY <2>1 DEF Opposing
<1>5. IsPivot(G, r, b.direction, b.reference) <=> IsPivot(F, r, b.direction, b.reference)
  <2>1. IsPivot(F, r, b.direction, b.reference) => ConfirmIndex(r, b.reference) < b.bar
    BY BrokenIsConfirmed
  <2>2. b.reference \in Int /\ ConfirmIndex(r, b.reference) \in Int
    BY <1>1, RangeConfigFields DEF ConfirmIndex
  <2> QED
    BY <1>1, <1>3, <2>1, <2>2
<1>6. Anchored(G, r, b) <=> Anchored(F, r, b)
  BY <1>4, <1>5 DEF Anchored
<1>7. Anchors(G, r, b) = Anchors(F, r, b)
  BY <1>4 DEF Anchors
<1>8. ASSUME Anchored(F, r, b)
      PROVE  /\ \A d \in Directions : Level(G, d, Anchors(F, r, b)[d])
                                       = Level(F, d, Anchors(F, r, b)[d])
             /\ DealingRange(G, r, b) = DealingRange(F, r, b)
  <2>1. \A d \in Directions : Anchors(F, r, b)[d] \in 1 .. k
    BY <1>1, <1>8, AnchorsKnown
  <2>2. \A d \in Directions : G[Anchors(F, r, b)[d]] = F[Anchors(F, r, b)[d]]
    BY <1>2, <2>1
  <2>3. /\ Top(G, Anchors(F, r, b)) = Top(F, Anchors(F, r, b))
        /\ Bottom(G, Anchors(F, r, b)) = Bottom(F, Anchors(F, r, b))
    BY <2>2 DEF Top, Bottom, Level, Directions
  <2> QED
    BY <1>7, <2>2, <2>3 DEF Level, DealingRange
<1> QED
  BY <1>6, <1>7, <1>8 DEF G

\* The ranges of the bars walked are the ranges of the whole frame.
LEMMA RangesOfPrefix ==
  ASSUME NEW F, NEW c, NEW B, NEW k, Recorded(F, c, B, k), NEW r \in RangeConfigs
  PROVE  RangesOf(SubSeq(F, 1, k), r, B) = RangesOf(F, r, B)
<1> DEFINE G == SubSeq(F, 1, k)
<1>0. F \in Seq(Bars) /\ c \in Configs /\ k \in 0 .. Len(F)
  BY DEF Recorded
<1>1. ASSUME NEW n \in DOMAIN B
      PROVE  /\ Anchored(G, r, B[n]) <=> Anchored(F, r, B[n])
             /\ Anchors(G, r, B[n]) = Anchors(F, r, B[n])
             /\ Anchored(F, r, B[n]) =>
                  /\ \A d \in Directions : Level(G, d, Anchors(F, r, B[n])[d])
                                           = Level(F, d, Anchors(F, r, B[n])[d])
                  /\ DealingRange(G, r, B[n]) = DealingRange(F, r, B[n])
  <2>1. BeyondLevel(F, c, B[n]) /\ B[n].bar <= k
    BY DEF Recorded
  <2> QED
    BY <1>0, <2>1, PrefixAnchors
<1> HIDE DEF G
<1>2. Pairings(G, r, B) = Pairings(F, r, B)
  <2>1. ASSUME NEW n \in DOMAIN B, Anchored(F, r, B[n])
        PROVE  /\ Top(G, Anchors(G, r, B[n])) = Top(F, Anchors(F, r, B[n]))
               /\ Bottom(G, Anchors(G, r, B[n])) = Bottom(F, Anchors(F, r, B[n]))
    BY <1>1, <2>1 DEF Top, Bottom, Directions
  <2> QED
    BY <1>1, <2>1 DEF Pairings
<1>3. Pairings(F, r, B) \subseteq DOMAIN B
  BY DEF Pairings
<1>4. \A n \in Pairings(F, r, B) : Unchanged(G, r, B, n) <=> Unchanged(F, r, B, n)
  BY <1>1, <1>2, <1>3 DEF Unchanged
<1>5. \A n \in Pairings(F, r, B) : DealingRange(G, r, B[n]) = DealingRange(F, r, B[n])
  BY <1>1 DEF Pairings
<1> QED
  BY <1>2, <1>4, <1>5 DEF RangesOf, G

----------------------------------------------------------------------------
(***************************************************************************)
(* The ranges R of the first k bars: one per confirming bar at most.       *)
(***************************************************************************)

OnePerBar(R, k) ==
  /\ \A x \in R : x.bar \in 1 .. k
  /\ \A x, y \in R : x.bar = y.bar => x = y

LEMMA RangeFacts ==
  ASSUME NEW F, NEW c, NEW B, NEW k, Recorded(F, c, B, k), NEW r \in RangeConfigs,
         NEW n \in Pairings(F, r, B)
  PROVE  n \in DOMAIN B /\ DealingRange(F, r, B[n]).bar = B[n].bar /\ B[n].bar \in 1 .. k
<1>1. n \in DOMAIN B /\ Anchored(F, r, B[n])
  BY DEF Pairings
<1>2. BeyondLevel(F, c, B[n]) /\ B[n].bar <= k /\ F \in Seq(Bars) /\ c \in Configs
      /\ k \in 0 .. Len(F)
  BY <1>1 DEF Recorded
<1>3. DealingRange(F, r, B[n]).bar = B[n].bar
  BY <1>1, <1>2, AnchorsKnown
<1> QED
  BY <1>1, <1>2, <1>3 DEF BeyondLevel

LEMMA RangesOnePerBar ==
  ASSUME NEW F, NEW c, NEW B, NEW k, Recorded(F, c, B, k), NEW r \in RangeConfigs
  PROVE  OnePerBar(RangesOf(F, r, B), k)
<1>1. ASSUME NEW x \in RangesOf(F, r, B)
      PROVE  \E n \in DOMAIN B : x = DealingRange(F, r, B[n]) /\ x.bar = B[n].bar
                                 /\ x.bar \in 1 .. k
  BY RangeFacts DEF RangesOf
<1>2. ASSUME NEW x \in RangesOf(F, r, B), NEW y \in RangesOf(F, r, B), x.bar = y.bar
      PROVE  x = y
  <2>1. PICK m \in DOMAIN B : x = DealingRange(F, r, B[m]) /\ x.bar = B[m].bar
                              /\ x.bar \in 1 .. k
    BY <1>1
  <2>2. PICK n \in DOMAIN B : y = DealingRange(F, r, B[n]) /\ y.bar = B[n].bar
                              /\ y.bar \in 1 .. k
    BY <1>1
  <2>3. DOMAIN B = 1 .. Len(B) /\ \A a, b \in DOMAIN B : a < b => B[a].bar < B[b].bar
    BY DEF Recorded
  <2>4. k \in Nat
    BY DEF Recorded
  <2>5. ~(m < n) /\ ~(n < m)
    BY <1>2, <2>1, <2>2, <2>3, <2>4
  <2>6. m = n
    BY <2>3, <2>5
  <2> QED
    BY <2>1, <2>2, <2>6
<1> QED
  BY <1>1, <1>2 DEF OnePerBar

\* The range z is the first of R to come after x.
Follows(R, x, z) ==
  /\ SupersededAt(R, x) = {z.bar} /\ z.bar > x.bar
  /\ \A y \in R : y.bar > x.bar => z.bar <= y.bar

LEMMA Supersession ==
  ASSUME NEW R, NEW k \in Nat, OnePerBar(R, k), NEW x \in R
  PROVE  /\ SupersededAt(R, x) = {} => \A y \in R : y.bar <= x.bar
         /\ SupersededAt(R, x) # {} => \E z \in R : Follows(R, x, z)
<1> DEFINE later == {y.bar : y \in {y \in R : y.bar > x.bar}}
<1>1. later \in SUBSET Nat /\ \A t \in later : t <= k
  BY DEF OnePerBar
<1>2. CASE later = {}
  <2>1. \A y \in R : ~(y.bar > x.bar)
    BY <1>2
  <2>2. \A y \in R : y.bar \in Nat
    BY DEF OnePerBar
  <2>3. \A y \in R : y.bar <= x.bar
    BY <2>1, <2>2
  <2>4. SupersededAt(R, x) = {}
    BY <1>2 DEF SupersededAt
  <2> QED
    BY <2>3, <2>4
<1>3. CASE later # {}
  <2>1. SupersededAt(R, x) = {Min(later)}
    BY <1>3 DEF SupersededAt
  <2> HIDE DEF later
  <2>2. Min(later) \in later /\ \A t \in later : Min(later) <= t
    BY <1>1, <1>3, MinMax
  <2>3. PICK z \in R : z.bar > x.bar /\ Min(later) = z.bar
    BY <2>2 DEF later
  <2>4. \A y \in R : y.bar > x.bar => z.bar <= y.bar
    BY <2>2, <2>3 DEF later
  <2>5. SupersededAt(R, x) = {z.bar} /\ SupersededAt(R, x) # {}
    BY <2>1, <2>3
  <2>6. Follows(R, x, z)
    BY <2>3, <2>4, <2>5 DEF Follows
  <2> QED
    BY <2>5, <2>6
<1> QED
  BY <1>2, <1>3

\* A range classifies the bars at which it is the last one known.
LEMMA ClassifiesWhenLast ==
  ASSUME NEW R, NEW k \in Nat, OnePerBar(R, k), NEW x \in R, NEW F \in Seq(Bars),
         NEW j \in DOMAIN F
  PROVE  j \in Classifies(R, F, x) <=> x \in RangeAt(R, j)
<1>1. j \in Nat /\ \A y \in R : y.bar \in Nat
  BY DEF OnePerBar
<1>2. x \in RangeAt(R, j) <=> x.bar <= j /\ \A y \in R : y.bar <= j => y.bar <= x.bar
  BY DEF RangeAt
<1>3. j \in Classifies(R, F, x) <=> x.bar <= j /\ \A t \in SupersededAt(R, x) : j < t
  BY DEF Classifies
<1>4. CASE SupersededAt(R, x) = {}
  BY <1>1, <1>2, <1>3, <1>4, Supersession
<1>5. CASE SupersededAt(R, x) # {}
  <2>1. PICK z \in R : Follows(R, x, z)
    BY <1>5, Supersession
  <2> QED
    BY <1>1, <1>2, <1>3, <2>1 DEF Follows
<1> QED
  BY <1>4, <1>5

Observation(F, r, x, k) == [range |-> x, bar |-> k, zone |-> ZoneOf(r, x, F[k].close)]

\* o is the observation of a bar against the last range known at it.
IsObserved(F, r, R, o) ==
  \E x \in R : \E i \in DOMAIN F : x \in RangeAt(R, i) /\ o = Observation(F, r, x, i)

LEMMA ObservationsAt ==
  ASSUME NEW R, NEW k \in Nat, OnePerBar(R, k), NEW F \in Seq(Bars), NEW r
  PROVE  /\ \A o : o \in ObservationsOf(F, r, R) <=> IsObserved(F, r, R, o)
         /\ \A j \in DOMAIN F : {o \in ObservationsOf(F, r, R) : o.bar = j}
                                = {Observation(F, r, x, j) : x \in RangeAt(R, j)}
<1>1. ASSUME NEW x \in R
      PROVE  Classifies(R, F, x) = {i \in DOMAIN F : x \in RangeAt(R, i)}
  BY ClassifiesWhenLast DEF Classifies
<1>2. ObservationsOf(F, r, R) =
        UNION {{Observation(F, r, x, i) : i \in Classifies(R, F, x)} : x \in R}
  BY DEF ObservationsOf, Observation
<1>3. \A o : o \in ObservationsOf(F, r, R) <=> IsObserved(F, r, R, o)
  <2>1. ASSUME NEW o, IsObserved(F, r, R, o) PROVE o \in ObservationsOf(F, r, R)
    <3>1. PICK x \in R : \E i \in DOMAIN F : x \in RangeAt(R, i) /\ o = Observation(F, r, x, i)
      BY <2>1 DEF IsObserved
    <3>2. PICK i \in DOMAIN F : x \in RangeAt(R, i) /\ o = Observation(F, r, x, i)
      BY <3>1
    <3>3. i \in Classifies(R, F, x)
      BY <1>1, <3>2
    <3> HIDE DEF Observation
    <3> QED
      BY <1>2, <3>2, <3>3
  <2>2. ASSUME NEW o \in ObservationsOf(F, r, R) PROVE IsObserved(F, r, R, o)
    <3> HIDE DEF Observation
    <3>1. PICK x \in R : \E i \in Classifies(R, F, x) : o = Observation(F, r, x, i)
      BY <1>2
    <3> QED
      BY <1>1, <3>1 DEF IsObserved
  <2> QED
    BY <2>1, <2>2
<1>4. \A x, i : Observation(F, r, x, i).bar = i
  BY DEF Observation
<1>5. \A j : RangeAt(R, j) \subseteq R
  BY DEF RangeAt
<1> HIDE DEF Observation
<1>6. ASSUME NEW j \in DOMAIN F
      PROVE  {o \in ObservationsOf(F, r, R) : o.bar = j}
             = {Observation(F, r, x, j) : x \in RangeAt(R, j)}
  <2>1. ASSUME NEW o \in ObservationsOf(F, r, R), o.bar = j
        PROVE  o \in {Observation(F, r, x, j) : x \in RangeAt(R, j)}
    <3>1. PICK x \in R : \E i \in DOMAIN F : x \in RangeAt(R, i) /\ o = Observation(F, r, x, i)
      BY <1>3, <2>1 DEF IsObserved
    <3> QED
      BY <1>4, <2>1, <3>1
  <2>2. ASSUME NEW x \in RangeAt(R, j)
        PROVE  Observation(F, r, x, j) \in ObservationsOf(F, r, R)
    BY <1>3, <1>5, <1>6, <2>2 DEF IsObserved
  <2> QED
    BY <1>4, <2>1, <2>2
<1> QED
  BY <1>3, <1>6

----------------------------------------------------------------------------
(***************************************************************************)
(* A walk that goes on adds ranges behind the ones there are.              *)
(***************************************************************************)

\* C is B, or B and a break of a bar after k.
Extends(C, B, k) ==
  /\ Len(B) <= Len(C) /\ \A n \in DOMAIN B : C[n] = B[n]
  /\ \A n \in DOMAIN C : n \in DOMAIN B \/ C[n].bar > k

LEMMA RangesKept ==
  ASSUME NEW F, NEW c, NEW B, NEW k, Recorded(F, c, B, k), NEW C, NEW l,
         Recorded(F, c, C, l), Extends(C, B, k), NEW r \in RangeConfigs
  PROVE  {x \in RangesOf(F, r, C) : x.bar <= k} = RangesOf(F, r, B)
<1>1. /\ DOMAIN B = 1 .. Len(B) /\ DOMAIN C = 1 .. Len(C) /\ Len(B) \in Nat
      /\ Len(C) \in Nat /\ k \in Nat
  BY DEF Recorded
<1>2. DOMAIN B \subseteq DOMAIN C /\ \A n \in DOMAIN B : C[n] = B[n]
  BY <1>1 DEF Extends
<1>3. \A n \in DOMAIN B : n \in Pairings(F, r, C) <=> n \in Pairings(F, r, B)
  BY <1>2 DEF Pairings
<1>4. /\ Pairings(F, r, B) \subseteq DOMAIN B
      /\ Pairings(F, r, C) \subseteq DOMAIN C
  BY DEF Pairings
<1>5. \A m \in DOMAIN C : \A n \in DOMAIN B : m < n => m \in DOMAIN B
  BY <1>1
<1>6. ASSUME NEW n \in Pairings(F, r, B)
      PROVE  Unchanged(F, r, C, n) <=> Unchanged(F, r, B, n)
  BY <1>2, <1>3, <1>4, <1>5 DEF Unchanged
<1>7. \A n \in Pairings(F, r, C) : DealingRange(F, r, C[n]).bar <= k => n \in DOMAIN B
  <2> SUFFICES ASSUME NEW n \in Pairings(F, r, C), DealingRange(F, r, C[n]).bar <= k
               PROVE  n \in DOMAIN B
    OBVIOUS
  <2>1. n \in DOMAIN C /\ C[n].bar \in 1 .. l /\ C[n].bar <= k
    BY RangeFacts
  <2>2. l \in Nat
    BY DEF Recorded
  <2> QED
    BY <1>1, <2>1, <2>2 DEF Extends
<1>8. \A n \in Pairings(F, r, B) :
        DealingRange(F, r, C[n]) = DealingRange(F, r, B[n])
        /\ DealingRange(F, r, B[n]).bar <= k
  BY <1>1, <1>2, <1>4, RangeFacts
<1> DEFINE New(D) == {n \in Pairings(F, r, D) : ~Unchanged(F, r, D, n)}
<1>9. /\ RangesOf(F, r, B) = {DealingRange(F, r, B[n]) : n \in New(B)}
      /\ RangesOf(F, r, C) = {DealingRange(F, r, C[n]) : n \in New(C)}
  BY DEF RangesOf
<1>10. \A n \in DOMAIN B : n \in New(C) <=> n \in New(B)
  BY <1>3, <1>6
<1>11. ASSUME NEW x \in RangesOf(F, r, C), x.bar <= k
       PROVE  x \in RangesOf(F, r, B)
  <2>1. PICK n \in New(C) : x = DealingRange(F, r, C[n])
    BY <1>9
  <2>2. n \in DOMAIN B
    BY <1>7, <1>11, <2>1
  <2>3. n \in New(B)
    BY <1>10, <2>1, <2>2
  <2> QED
    BY <1>8, <1>9, <2>1, <2>3
<1>12. ASSUME NEW x \in RangesOf(F, r, B)
       PROVE  x \in RangesOf(F, r, C) /\ x.bar <= k
  <2>1. PICK n \in New(B) : x = DealingRange(F, r, B[n])
    BY <1>9
  <2>2. n \in New(C)
    BY <1>4, <1>10, <2>1
  <2> QED
    BY <1>8, <1>9, <2>1, <2>2
<1> QED
  BY <1>11, <1>12

\* No later range changes which one was the last at a bar before it.
LEMMA LastKept ==
  ASSUME NEW R, NEW S, NEW k \in Nat, R = {x \in S : x.bar <= k}, NEW j \in 1 .. k,
         \A x \in S : x.bar \in Nat
  PROVE  RangeAt(S, j) = RangeAt(R, j)
<1>1. \A x \in S : x.bar <= j => x \in R
  OBVIOUS
<1>2. {x \in S : x.bar <= j} = {x \in R : x.bar <= j}
  BY <1>1
<1> QED
  BY <1>2 DEF RangeAt

LEMMA SupersessionKept ==
  ASSUME NEW R, NEW S, NEW k \in Nat, NEW l \in Nat, R = {x \in S : x.bar <= k},
         OnePerBar(R, k), OnePerBar(S, l), NEW x \in R
  PROVE  {t \in SupersededAt(S, x) : t <= k} = SupersededAt(R, x)
<1>1. /\ x \in S /\ x.bar <= k /\ x.bar \in Nat
      /\ \A y \in S : y.bar \in Nat
      /\ \A y \in S : y.bar <= k => y \in R
      /\ R \subseteq S /\ \A y \in R : y.bar <= k
  BY DEF OnePerBar
<1>2. CASE SupersededAt(R, x) = {}
  <2>1. \A y \in R : y.bar <= x.bar
    BY <1>2, Supersession
  <2>2. CASE SupersededAt(S, x) = {}
    BY <1>2, <2>2
  <2>3. CASE SupersededAt(S, x) # {}
    <3>0. PICK z \in S : Follows(S, x, z)
      BY <1>1, <2>3, Supersession
    <3>1. SupersededAt(S, x) = {z.bar} /\ z.bar > x.bar
      BY <3>0 DEF Follows
    <3>2. ~(z.bar <= k)
      BY <1>1, <2>1, <3>1
    <3> QED
      BY <1>2, <3>1, <3>2
  <2> QED
    BY <2>2, <2>3
<1>3. CASE SupersededAt(R, x) # {}
  <2>0. PICK y \in R : Follows(R, x, y)
    BY <1>3, Supersession
  <2>1. /\ SupersededAt(R, x) = {y.bar} /\ y.bar > x.bar
        /\ \A w \in R : w.bar > x.bar => y.bar <= w.bar
    BY <2>0 DEF Follows
  <2>2. SupersededAt(S, x) # {}
    BY <1>1, <2>1, Supersession
  <2>9. PICK z \in S : Follows(S, x, z)
    BY <1>1, <2>2, Supersession
  <2>3. /\ SupersededAt(S, x) = {z.bar} /\ z.bar > x.bar
        /\ \A w \in S : w.bar > x.bar => z.bar <= w.bar
    BY <2>9 DEF Follows
  <2>4. z.bar <= y.bar /\ z.bar <= k
    BY <1>1, <2>1, <2>3
  <2>5. y.bar <= z.bar
    BY <1>1, <2>1, <2>3, <2>4
  <2>6. z.bar = y.bar
    BY <1>1, <2>4, <2>5
  <2> QED
    BY <2>1, <2>3, <2>4, <2>6
<1> QED
  BY <1>2, <1>3

\* Nor what was observed at it.
LEMMA ObservationsKept ==
  ASSUME NEW R, NEW S, NEW F \in Seq(Bars), NEW k \in 0 .. Len(F), NEW l \in k .. Len(F),
         R = {x \in S : x.bar <= k}, OnePerBar(R, k), OnePerBar(S, l), NEW r
  PROVE  \A o : o \in ObservationsOf(SubSeq(F, 1, l), r, S) /\ o.bar <= k
                <=> o \in ObservationsOf(SubSeq(F, 1, k), r, R)
<1> DEFINE G == SubSeq(F, 1, k)
           H == SubSeq(F, 1, l)
<1>1. /\ k \in Nat /\ l \in Nat /\ k <= l
      /\ G \in Seq(Bars) /\ DOMAIN G = 1 .. k /\ H \in Seq(Bars) /\ DOMAIN H = 1 .. l
      /\ \A i \in 1 .. k : G[i] = F[i] /\ H[i] = F[i]
  BY PrefixBars
<1> HIDE DEF G, H
<1>2. \A i \in 1 .. k : RangeAt(S, i) = RangeAt(R, i)
  BY <1>1, LastKept DEF OnePerBar
<1>3. \A x : \A i \in 1 .. k : Observation(H, r, x, i) = Observation(G, r, x, i)
  BY <1>1 DEF Observation
<1>4. \A A, x, i : Observation(A, r, x, i).bar = i
  BY DEF Observation
<1>5. /\ \A o : o \in ObservationsOf(G, r, R) <=> IsObserved(G, r, R, o)
      /\ \A o : o \in ObservationsOf(H, r, S) <=> IsObserved(H, r, S, o)
  <2>1. \A o : o \in ObservationsOf(G, r, R) <=> IsObserved(G, r, R, o)
    BY <1>1, ObservationsAt
  <2>2. \A o : o \in ObservationsOf(H, r, S) <=> IsObserved(H, r, S, o)
    BY <1>1, ObservationsAt
  <2> QED
    BY <2>1, <2>2
<1>6. \A i : RangeAt(R, i) \subseteq R /\ RangeAt(S, i) \subseteq S
  BY DEF RangeAt
<1> HIDE DEF Observation
<1>7. ASSUME NEW o \in ObservationsOf(H, r, S), o.bar <= k
      PROVE  o \in ObservationsOf(G, r, R)
  <2>1. PICK x \in S : \E i \in DOMAIN H : x \in RangeAt(S, i) /\ o = Observation(H, r, x, i)
    BY <1>5 DEF IsObserved
  <2>2. PICK i \in DOMAIN H : x \in RangeAt(S, i) /\ o = Observation(H, r, x, i)
    BY <2>1
  <2>3. i \in 1 .. k /\ i \in DOMAIN G
    BY <1>1, <1>4, <1>7, <2>2
  <2>4. x \in RangeAt(R, i) /\ x \in R /\ o = Observation(G, r, x, i)
    BY <1>2, <1>3, <1>6, <2>2, <2>3
  <2> QED
    BY <1>5, <2>3, <2>4 DEF IsObserved
<1>8. ASSUME NEW o \in ObservationsOf(G, r, R)
      PROVE  o \in ObservationsOf(H, r, S) /\ o.bar <= k
  <2>1. PICK x \in R : \E i \in DOMAIN G : x \in RangeAt(R, i) /\ o = Observation(G, r, x, i)
    BY <1>5 DEF IsObserved
  <2>2. PICK i \in DOMAIN G : x \in RangeAt(R, i) /\ o = Observation(G, r, x, i)
    BY <2>1
  <2>3. i \in DOMAIN H /\ i \in 1 .. k /\ o.bar = i /\ i <= k
    BY <1>1, <1>4, <2>2
  <2>4. x \in RangeAt(S, i) /\ x \in S /\ o = Observation(H, r, x, i)
    BY <1>2, <1>3, <1>6, <2>2, <2>3
  <2> QED
    BY <1>5, <2>3, <2>4 DEF IsObserved
<1> QED
  BY <1>7, <1>8 DEF G, H

----------------------------------------------------------------------------
(***************************************************************************)
(* The walk records breaks in the order of their bars, each beyond the     *)
(* level it refers to.  The level precedes the break because it was        *)
(* confirmed by then (IInv).                                               *)
(***************************************************************************)

RecordedSoFar == Recorded(frame, config, breaks, index)

\* The break of bar j joins the record.
LEMMA RecordGrows ==
  ASSUME IInv, RecordedSoFar, NEW d \in Directions, NEW j \in 1 .. Len(frame),
         Advance(j), BreaksAt(d, j), Break(d, j)
  PROVE  RecordedSoFar' /\ Extends(breaks', breaks, index)
<1> DEFINE ref == ActiveAt(j)[d]
           b == MakeBreak(frame, config, d, ref, state, j)
<1>1. /\ frame' = frame /\ config' = config /\ index' = j /\ j = index + 1
      /\ breaks' = Append(breaks, b) /\ Admit(j) /\ TypeOK
  BY DEF Advance, Break, IInv
<1>2. b.direction = d /\ b.reference = ref /\ b.bar = j
  BY DEF MakeBreak
<1>3. ref # None /\ Distance(d, Probe(frame, config, d, j), Level(frame, d, ref)) > config.breakTol
  BY DEF BreaksAt, Breaks
<1>4. ref \in Nat \ {0}
  BY <1>1, <1>3, ActiveAtType DEF None
<1>5. ref + config.right <= j
  BY <1>1, <1>3, Admission DEF IsPending, IsNewest, ConfirmIndex
<1>6. config.right \in Nat \ {0} /\ config \in Configs
  BY <1>1, ConfigRight DEF TypeOK
<1>7. b \in BreakRecords
  <2>1. j \in Nat \ {0} /\ state \in States
    BY <1>1 DEF TypeOK
  <2> QED
    BY <1>4, <2>1, MakeBreakType
<1>8. BeyondLevel(frame, config, b)
  BY <1>2, <1>3, <1>4, <1>5, <1>6 DEF BeyondLevel
<1> HIDE DEF b, ref
<1>9. /\ breaks \in Seq(BreakRecords) /\ Len(breaks) \in Nat
      /\ breaks' \in Seq(BreakRecords)
      /\ Len(breaks') = Len(breaks) + 1 /\ breaks'[Len(breaks) + 1] = b
      /\ \A n \in DOMAIN breaks : breaks'[n] = breaks[n]
      /\ \A n \in DOMAIN breaks' : n \in DOMAIN breaks \/ n = Len(breaks) + 1
      /\ \A n \in DOMAIN breaks : n < Len(breaks) + 1
  BY <1>1, <1>7 DEF TypeOK
<1>10. /\ \A n \in DOMAIN breaks : BeyondLevel(frame, config, breaks[n])
       /\ \A n \in DOMAIN breaks : breaks[n].bar <= index /\ breaks[n].bar \in Nat
       /\ \A m, n \in DOMAIN breaks : m < n => breaks[m].bar < breaks[n].bar
  BY DEF RecordedSoFar, Recorded, BeyondLevel
<1>11. index \in Nat /\ j \in 0 .. Len(frame) /\ frame \in Seq(Bars)
  BY <1>1 DEF TypeOK
<1>12. ASSUME NEW n \in DOMAIN breaks'
       PROVE  BeyondLevel(frame, config, breaks'[n]) /\ breaks'[n].bar <= j
  BY <1>1, <1>2, <1>8, <1>9, <1>10, <1>11
<1>13. ASSUME NEW m \in DOMAIN breaks', NEW n \in DOMAIN breaks', m < n
       PROVE  breaks'[m].bar < breaks'[n].bar
  <2>1. CASE n \in DOMAIN breaks
    <3>1. m \in DOMAIN breaks
      BY <1>9, <1>13, <2>1
    <3> QED
      BY <1>9, <1>10, <1>13, <2>1, <3>1
  <2>2. CASE n = Len(breaks) + 1
    <3>1. m \in DOMAIN breaks
      BY <1>9, <1>13, <2>2
    <3> QED
      BY <1>1, <1>2, <1>9, <1>10, <1>11, <2>2, <3>1
  <2> QED
    BY <1>9, <2>1, <2>2
<1>14. RecordedSoFar'
  BY <1>1, <1>6, <1>9, <1>11, <1>12, <1>13 DEF RecordedSoFar, Recorded
<1>15. Extends(breaks', breaks, index)
  BY <1>1, <1>2, <1>9, <1>11 DEF Extends
<1> QED
  BY <1>14, <1>15

\* Every step of the walk keeps the record and extends it.
LEMMA RecordStep ==
  ASSUME IInv, RecordedSoFar, Next
  PROVE  /\ RecordedSoFar' /\ Extends(breaks', breaks, index)
         /\ frame' = frame /\ index' = index + 1 /\ index' <= Len(frame)
<1>1. TypeOK
  BY DEF IInv
<1>2. PICK j \in 1 .. Len(frame) :
        /\ Advance(j)
        /\ \/ \E d \in Directions : BreaksAt(d, j) /\ Break(d, j)
           \/ UNCHANGED breaks
  BY <1>1, StepForms
<1>3. /\ frame' = frame /\ config' = config /\ index' = j /\ j = index + 1
      /\ j <= Len(frame)
  BY <1>2 DEF Advance
<1>4. CASE UNCHANGED breaks
  <2>1. index \in Nat /\ \A n \in DOMAIN breaks : breaks[n].bar \in Nat
    BY <1>1, BreakFields DEF TypeOK
  <2>2. RecordedSoFar'
    BY <1>3, <1>4, <2>1 DEF RecordedSoFar, Recorded
  <2>3. Len(breaks) \in Nat
    BY <1>1 DEF TypeOK
  <2> QED
    BY <1>3, <1>4, <2>2, <2>3 DEF Extends
<1> QED
  BY <1>2, <1>3, <1>4, RecordGrows

LEMMA StartRecorded == Starts => RecordedSoFar
<1> SUFFICES ASSUME Starts PROVE RecordedSoFar
  OBVIOUS
<1>1. TypeOK /\ breaks = <<>>
  BY StartType DEF Starts, Fresh
<1> QED
  BY <1>1 DEF RecordedSoFar, Recorded, TypeOK

LEMMA AlwaysRecorded == Spec => []RecordedSoFar
<1>1. IInv /\ RecordedSoFar /\ [Next]_vars => RecordedSoFar'
  BY RecordStep DEF vars, RecordedSoFar, Recorded
<1> QED
  BY <1>1, InitStarts, StartRecorded, Inductive, PTL DEF Spec

\* The ranges and the observations so far, of the whole frame.
LEMMA SoFar ==
  ASSUME RecordedSoFar, NEW r \in RangeConfigs
  PROVE  /\ RangesSoFar(r) = RangesOf(frame, r, breaks)
         /\ OnePerBar(RangesSoFar(r), index)
BY RangesOfPrefix, RangesOnePerBar DEF RecordedSoFar, RangesSoFar, Walked

\* A bar is classified once, against the last range known at it, and none after
\* the first range is left out.
THEOREM BarsClassifiedOnceHolds == Spec => []BarsClassifiedOnce
<1>1. RecordedSoFar => BarsClassifiedOnce
  <2> SUFFICES ASSUME RecordedSoFar, NEW r \in RangeConfigs, NEW k \in 1 .. index
               PROVE  LET seen == {o \in ObservationsSoFar(r) : o.bar = k}
                      IN  /\ {o.range : o \in seen} = RangeAt(RangesSoFar(r), k)
                          /\ Cardinality(seen) <= 1
    BY DEF BarsClassifiedOnce
  <2> DEFINE R == RangesSoFar(r)
             seen == {o \in ObservationsSoFar(r) : o.bar = k}
  <2>1. /\ index \in 0 .. Len(frame) /\ frame \in Seq(Bars) /\ index \in Nat
        /\ Walked \in Seq(Bars) /\ k \in DOMAIN Walked
    BY PrefixBars DEF RecordedSoFar, Recorded, Walked
  <2>2. OnePerBar(R, index)
    BY SoFar
  <2> HIDE DEF R
  <2>3. seen = {Observation(Walked, r, x, k) : x \in RangeAt(R, k)}
    BY <2>1, <2>2, ObservationsAt DEF ObservationsSoFar, R
  <2>4. \A x : Observation(Walked, r, x, k).range = x
    BY DEF Observation
  <2>5. {o.range : o \in seen} = RangeAt(R, k)
    <3> HIDE DEF Observation, seen
    <3> QED
      BY <2>3, <2>4
  <2>6. \A x, y \in RangeAt(R, k) : x = y
    <3> SUFFICES ASSUME NEW x \in RangeAt(R, k), NEW y \in RangeAt(R, k) PROVE x = y
      OBVIOUS
    <3>1. x \in R /\ y \in R /\ x.bar <= y.bar /\ y.bar <= x.bar
      BY DEF RangeAt
    <3>2. x.bar \in Nat /\ y.bar \in Nat
      BY <2>1, <2>2, <3>1 DEF OnePerBar
    <3> QED
      BY <2>2, <3>1, <3>2 DEF OnePerBar
  <2>7. \A o, p \in seen : o = p
    <3> HIDE DEF Observation, seen
    <3> QED
      BY <2>3, <2>6
  <2>8. Cardinality(seen) <= 1
    <3> HIDE DEF seen
    <3>1. CASE seen = {}
      BY <3>1, FS_EmptySet
    <3>2. CASE seen # {}
      <4>1. PICK o \in seen : TRUE
        BY <3>2
      <4>2. seen = {o}
        BY <2>7
      <4> QED
        BY <4>2, FS_Singleton
    <3> QED
      BY <3>1, <3>2
  <2> QED
    BY <2>5, <2>8 DEF R
<1> QED
  BY <1>1, AlwaysRecorded, PTL

\* Whatever comes later, the ranges, the supersessions and the observations
\* known by a bar stay what they were.
THEOREM RangesKnowableHolds == Spec => RangesKnowable
<1> DEFINE Kept(r) ==
      LET known == {x \in RangesSoFar(r)' : x.bar <= index}
      IN  /\ known = RangesSoFar(r)
          /\ {o \in ObservationsSoFar(r)' : o.bar <= index} = ObservationsSoFar(r)
          /\ \A x \in known : {k \in SupersededAt(RangesSoFar(r)', x) : k <= index}
                               = SupersededAt(RangesSoFar(r), x)
<1>1. IInv /\ RecordedSoFar /\ RecordedSoFar' /\ [Next]_vars
      => [\A r \in RangeConfigs : Kept(r)]_vars
  <2> SUFFICES ASSUME IInv, RecordedSoFar, RecordedSoFar', Next, NEW r \in RangeConfigs
               PROVE  Kept(r)
    OBVIOUS
  <2> DEFINE R == RangesSoFar(r)
             S == RangesSoFar(r)'
  <2>1. /\ Extends(breaks', breaks, index) /\ frame' = frame /\ index' = index + 1
        /\ index' <= Len(frame)
    BY RecordStep
  <2>2. /\ Recorded(frame, config, breaks, index)
        /\ Recorded(frame, config', breaks', index')
    BY <2>1 DEF RecordedSoFar
  <2>3. R = RangesOf(frame, r, breaks)
    BY <2>2, RangesOfPrefix DEF RangesSoFar, Walked
  <2>4. S = RangesOf(frame, r, breaks')
    BY <2>1, <2>2, RangesOfPrefix DEF RangesSoFar, Walked
  <2>5. OnePerBar(R, index) /\ OnePerBar(S, index')
    BY <2>2, <2>3, <2>4, RangesOnePerBar
  <2>6. config' = config
    <3>1. TypeOK
      BY DEF IInv
    <3> QED
      BY <3>1, StepForms DEF Advance
  <2>7. R = {x \in S : x.bar <= index}
    BY <2>1, <2>2, <2>3, <2>4, <2>6, RangesKept
  <2>8. index \in 0 .. Len(frame) /\ frame \in Seq(Bars) /\ index' \in index .. Len(frame)
    BY <2>1, <2>2 DEF Recorded
  <2>9. /\ ObservationsSoFar(r) = ObservationsOf(SubSeq(frame, 1, index), r, R)
        /\ ObservationsSoFar(r)' = ObservationsOf(SubSeq(frame, 1, index'), r, S)
    BY <2>1 DEF ObservationsSoFar, Walked
  <2> HIDE DEF R, S
  <2>10. index \in Nat /\ index' \in Nat
    BY <2>8
  <2>11. {o \in ObservationsSoFar(r)' : o.bar <= index} = ObservationsSoFar(r)
    <3>1. \A o : o \in ObservationsOf(SubSeq(frame, 1, index'), r, S) /\ o.bar <= index
                 <=> o \in ObservationsOf(SubSeq(frame, 1, index), r, R)
      BY <2>5, <2>7, <2>8, ObservationsKept
    <3> QED
      BY <2>9, <3>1
  <2>12. \A x \in R : {k \in SupersededAt(S, x) : k <= index} = SupersededAt(R, x)
    <3> SUFFICES ASSUME NEW x \in R
                 PROVE  {k \in SupersededAt(S, x) : k <= index} = SupersededAt(R, x)
      OBVIOUS
    <3> QED
      BY <2>5, <2>7, <2>10, SupersessionKept
  <2> QED
    BY <2>7, <2>11, <2>12 DEF R, S
<1>2. Spec => [](IInv /\ RecordedSoFar)
  BY Inductive, AlwaysRecorded, PTL
<1>3. [][\A r \in RangeConfigs : Kept(r)]_vars => RangesKnowable
  BY PTL DEF RangesKnowable
<1> HIDE DEF Kept
<1> QED
  BY <1>1, <1>2, <1>3, PTL DEF Spec

----------------------------------------------------------------------------
(***************************************************************************)
(* Blocks and breakers: how deep price trades into a zone.                 *)
(***************************************************************************)

\* The bars F of a frame and their open times.
FrameOf(F, T, n) ==
  /\ n \in Nat /\ F \in [1 .. n -> Bars] /\ T \in [1 .. n -> Nat] /\ Blocks!Increasing(T)

\* A zone has two edges apart.
IsZone(z) ==
  z.direction \in Directions /\ z.top \in Int /\ z.bottom \in Int /\ z.top > z.bottom

\* The thresholds of a fill.
HasThresholds(c) == c.full \in 1 .. Blocks!Whole /\ c.partial \in 0 .. Blocks!Whole

LEMMA SameExtrema ==
  ASSUME NEW S
  PROVE  Blocks!Max(S) = Max(S) /\ Blocks!Min(S) = Min(S)
BY DEF Blocks!Max, Max, Blocks!Min, Min

LEMMA SameDirections ==
  /\ Blocks!Directions = Directions
  /\ \A d : Blocks!Opposite(d) = Opposite(d)
  /\ \A d, x, y : Blocks!Beyond(d, x, y) = Beyond(d, x, y)
  /\ \A d, x, y : Blocks!Distance(d, x, y) = Distance(d, x, y)
  /\ \A d, bar : Blocks!Extreme(bar, d) = Extreme(bar, d)
BY DEF Blocks!Directions, Directions, Blocks!Opposite, Opposite, Blocks!Beyond, Beyond,
       Blocks!Distance, Distance, Blocks!Extreme, Extreme

\* How deep a price is in a zone.
LEMMA DepthIs ==
  ASSUME NEW z, IsZone(z), NEW p \in Int
  PROVE  /\ Blocks!Depth(z, p) \in 0 .. z.top - z.bottom
         /\ Blocks!Depth(z, p) = z.top - z.bottom <=> ~Blocks!Deeper(z, Blocks!FarEdge(z), p)
<1>1. CASE z.direction = "bullish"
  BY <1>1 DEF IsZone, Blocks!Depth, Blocks!Distance, Blocks!EntryEdge, Blocks!FarEdge,
             Blocks!Deeper, Blocks!Beyond, Blocks!Opposite
<1>2. CASE z.direction = "bearish"
  BY <1>2 DEF IsZone, Blocks!Depth, Blocks!Distance, Blocks!EntryEdge, Blocks!FarEdge,
             Blocks!Deeper, Blocks!Beyond, Blocks!Opposite
<1> QED
  BY <1>1, <1>2 DEF IsZone, Directions

\* A price in the zone fills it once it is deep enough, a deeper one too, and one
\* at the far edge whatever the threshold; the whole zone takes the far edge.
LEMMA FillsIs ==
  ASSUME NEW z, IsZone(z), NEW p \in Int, NEW q \in Int, NEW full \in 1 .. Blocks!Whole
  PROVE  /\ Blocks!Fills(z, p, full) => Blocks!Depth(z, p) > 0
         /\ Blocks!Depth(z, p) = z.top - z.bottom => Blocks!Fills(z, p, full)
         /\ Blocks!Fills(z, p, Blocks!Whole) => Blocks!Depth(z, p) = z.top - z.bottom
         /\ Blocks!Fills(z, p, full) /\ Blocks!Depth(z, p) <= Blocks!Depth(z, q)
              => Blocks!Fills(z, q, full)
<1> DEFINE h == z.top - z.bottom
<1>1. h \in Nat \ {0}
  BY DEF IsZone
<1>2. Blocks!Depth(z, p) \in 0 .. h /\ Blocks!Depth(z, q) \in 0 .. h
  BY DepthIs
<1> HIDE DEF h
<1>3. full * h \in Nat /\ full * h > 0 /\ full * h <= 4 * h
  <2>1. full = 1 \/ full = 2 \/ full = 3 \/ full = 4
    BY DEF Blocks!Whole
  <2> QED
    BY <1>1, <2>1
<1>4. /\ \A r : Blocks!Fills(z, r, full) <=> Blocks!Depth(z, r) * 4 >= full * h
      /\ \A r : Blocks!Fills(z, r, Blocks!Whole) <=> Blocks!Depth(z, r) * 4 >= 4 * h
  BY DEF Blocks!Fills, Blocks!Whole, h
<1> DEFINE x == full * h
<1> HIDE DEF x
<1>5. /\ x \in Nat /\ x > 0 /\ x <= 4 * h
      /\ \A r : Blocks!Fills(z, r, full) <=> Blocks!Depth(z, r) * 4 >= x
  BY <1>3, <1>4 DEF x
<1>6. Blocks!Fills(z, p, full) => Blocks!Depth(z, p) > 0
  BY <1>2, <1>5
<1>7. Blocks!Depth(z, p) = h => Blocks!Fills(z, p, full)
  BY <1>1, <1>5
<1>8. Blocks!Fills(z, p, full) /\ Blocks!Depth(z, p) <= Blocks!Depth(z, q)
        => Blocks!Fills(z, q, full)
  BY <1>1, <1>2, <1>5
<1>9. Blocks!Fills(z, p, Blocks!Whole) => Blocks!Depth(z, p) = h
  BY <1>1, <1>2, <1>4
<1> QED
  BY <1>6, <1>7, <1>8, <1>9 DEF h

\* Of bars that do not overlap, those from the close of bar t on come after it.
LEMMA FromIs ==
  ASSUME NEW F, NEW T, NEW n, FrameOf(F, T, n), NEW t \in 1 .. n
  PROVE  Blocks!BarsFrom(T, Blocks!CloseTime(T, t)) = t + 1 .. n
<1>1. Duration \in Nat \ {0}
  BY BreakerAssumption
<1>2. \A k \in 1 .. n : T[k] >= T[t] + Duration <=> k \in t + 1 .. n
  <2> TAKE k \in 1 .. n
  <2>1. T[k] \in Nat /\ T[t] \in Nat
    BY DEF FrameOf
  <2>2. k > t => T[t] + Duration <= T[k]
    BY DEF Blocks!Increasing, FrameOf
  <2>3. k < t => T[k] + Duration <= T[t]
    BY DEF Blocks!Increasing, FrameOf
  <2> QED
    BY <1>1, <2>1, <2>2, <2>3 DEF FrameOf
<1>3. DOMAIN T = 1 .. n
  BY DEF FrameOf
<1>4. \A k \in t + 1 .. n : k \in 1 .. n
  BY DEF FrameOf
<1> QED
  BY <1>2, <1>3, <1>4 DEF Blocks!BarsFrom, Blocks!CloseTime

LEMMA BarOf ==
  ASSUME NEW F, NEW T, NEW n, FrameOf(F, T, n), NEW k \in 1 .. n
  PROVE  /\ F[k].high \in Int /\ F[k].low \in Int /\ F[k].close \in Int /\ F[k].open \in Int
         /\ F[k].low <= F[k].close /\ F[k].close <= F[k].high
         /\ F[k].low <= F[k].open /\ F[k].open <= F[k].high
<1>1. F[k] \in Bars
  BY DEF FrameOf
<1> QED
  BY <1>1, BarsAssumption DEF WellFormed

\* A bar reaches as deep into a zone as it closes.
LEMMA ReachIs ==
  ASSUME NEW F, NEW T, NEW n, FrameOf(F, T, n), NEW k \in 1 .. n, NEW z, IsZone(z)
  PROVE  /\ Blocks!Reach(z, F[k]) \in Int
         /\ Beyond(Opposite(z.direction), F[k].close, Blocks!FarEdge(z))
              => ~Blocks!Deeper(z, Blocks!FarEdge(z), Blocks!Reach(z, F[k]))
<1>1. /\ F[k].high \in Int /\ F[k].low \in Int /\ F[k].close \in Int
      /\ F[k].low <= F[k].close /\ F[k].close <= F[k].high
  BY BarOf
<1>2. Blocks!FarEdge(z) \in Int
  BY DEF Blocks!FarEdge, IsZone
<1>3. CASE z.direction = "bullish"
  BY <1>1, <1>2, <1>3
  DEF Blocks!Reach, Blocks!Extreme, Beyond, Blocks!Beyond, Blocks!Deeper, Opposite, Blocks!Opposite
<1>4. CASE z.direction = "bearish"
  BY <1>1, <1>2, <1>4
  DEF Blocks!Reach, Blocks!Extreme, Beyond, Blocks!Beyond, Blocks!Deeper, Opposite, Blocks!Opposite
<1> QED
  BY <1>3, <1>4 DEF IsZone, Directions

----------------------------------------------------------------------------
\* Once a bar fills a zone, it is mitigated.
LEMMA FilledStatus ==
  ASSUME NEW F, NEW T, NEW n, FrameOf(F, T, n), NEW c, HasThresholds(c), NEW z, IsZone(z),
         NEW t \in 1 .. n, NEW k \in t + 1 .. n, Blocks!Fills(z, Blocks!Reach(z, F[k]), c.full),
         NEW j \in Nat, k <= j
  PROVE  Blocks!FillStatus(Blocks!TrackZoneFill(F, T, c, z, Blocks!CloseTime(T, t)), j) = "mitigated"
<1> DEFINE W == Blocks!BarsFrom(T, Blocks!CloseTime(T, t))
           depth(i) == Blocks!Depth(z, Blocks!Reach(z, F[i]))
           fills(i) == Blocks!Fills(z, Blocks!Reach(z, F[i]), c.full)
           enters(i) == Blocks!Enters(z, Blocks!Reach(z, F[i]), c.partial)
           deepens == {i \in W : depth(i) > 0 /\ \A y \in W : y < i => depth(y) < depth(i)}
           full == {i \in deepens : fills(i)}
           emitted == {i \in deepens : (enters(i) \/ i \in full) /\ \A y \in full : i <= y}
           record(i) == [zone |-> z, bar |-> i, price |-> Blocks!Reach(z, F[i]),
                         after |-> IF i \in full THEN "mitigated" ELSE "partially_filled"]
           U == Blocks!TrackZoneFill(F, T, c, z, Blocks!CloseTime(T, t))
           S == {i \in t + 1 .. n : fills(i)}
<1>0. n \in Nat
  BY DEF FrameOf
<1>1. W = t + 1 .. n /\ n \in Nat
  BY <1>0, FromIs
<1>2. U = {record(i) : i \in emitted}
  BY DEF Blocks!TrackZoneFill
<1>3. \A i \in W : i \in 1 .. n /\ i \in Nat /\ Blocks!Reach(z, F[i]) \in Int
  BY <1>1, ReachIs
<1>4. c.full \in 1 .. Blocks!Whole
  BY DEF HasThresholds
<1>5. \A i \in W : depth(i) \in Nat
  BY <1>3, DepthIs DEF IsZone
<1>6. \A i, y \in W : /\ fills(i) => depth(i) > 0
                      /\ fills(i) /\ depth(i) <= depth(y) => fills(y)
  BY <1>3, <1>4, FillsIs
<1>7. k \in S /\ S \in SUBSET Nat /\ \A i : i \in S <=> i \in W /\ fills(i)
  BY <1>1, <1>3
<1> HIDE DEF W, depth, fills, enters, S
<1>8. PICK m \in S : \A y \in S : m <= y
  BY <1>7, HasLeast
<1>9. m \in W /\ fills(m) /\ m <= k /\ m \in Nat
  BY <1>7, <1>8
<1>10. m \in deepens
  <2>1. ASSUME NEW y \in W, y < m PROVE depth(y) < depth(m)
    <3>1. ~fills(y)
      BY <1>3, <1>7, <1>8, <1>9, <2>1
    <3> QED
      BY <1>5, <1>6, <1>9, <3>1
  <2> QED
    BY <1>6, <1>9, <2>1
<1>11. m \in full /\ m \in emitted
  BY <1>7, <1>8, <1>9, <1>10
<1>12. \A i \in emitted : i <= m /\ i \in Nat
  BY <1>3, <1>11
<1>13. record(m) \in U /\ record(m).bar = m /\ record(m).after = "mitigated"
  BY <1>2, <1>11
<1>14. \A u \in U : u.bar <= m /\ u.bar \in Nat /\ (u.bar = m => u = record(m))
  BY <1>2, <1>12
<1> DEFINE seen == {u \in U : u.bar <= j}
<1> HIDE DEF U, record
<1>15. /\ record(m) \in seen /\ \A v \in seen : v.bar <= record(m).bar
       /\ \A u \in seen : (\A v \in seen : v.bar <= u.bar) => u = record(m)
  <2>1. m <= j
    BY <1>7, <1>9
  <2> QED
    BY <1>9, <1>13, <1>14, <2>1
<1> HIDE DEF seen
<1>16. (CHOOSE u \in seen : \A v \in seen : v.bar <= u.bar) = record(m) /\ seen # {}
  BY <1>15
<1> QED
  BY <1>13, <1>16 DEF Blocks!FillStatus, seen, U

\* A fill that mitigates a zone is one of a bar that fills it.
LEMMA FillsAre ==
  ASSUME NEW F, NEW T, NEW n, FrameOf(F, T, n), NEW c, NEW z, NEW t \in 1 .. n,
         NEW u \in Blocks!TrackZoneFill(F, T, c, z, Blocks!CloseTime(T, t))
  PROVE  /\ u.bar \in t + 1 .. n
         /\ u.after = "mitigated" => Blocks!Fills(z, Blocks!Reach(z, F[u.bar]), c.full)
<1>1. Blocks!BarsFrom(T, Blocks!CloseTime(T, t)) = t + 1 .. n
  BY FromIs
<1> QED
  BY <1>1 DEF Blocks!TrackZoneFill

----------------------------------------------------------------------------
(***************************************************************************)
(* What the detectors find.                                                *)
(***************************************************************************)

\* Finitely many values have ends.
LEMMA EndsOf ==
  ASSUME NEW n \in Nat, NEW V \in [1 .. n -> Int], NEW S \in SUBSET (1 .. n), S # {}
  PROVE  Max({V[i] : i \in S}) \in Int /\ Min({V[i] : i \in S}) \in Int
<1> DEFINE X == {V[i] : i \in S}
           W == [i \in 1 .. n |-> -V[i]]
<1>1. \A i \in S : i \in 1 .. n /\ V[i] \in Int
  OBVIOUS
<1>2. PICK x \in S : \A i \in S : V[i] <= V[x]
  BY Peak
<1>3. V[x] \in X /\ \A y \in X : V[x] >= y
  BY <1>2
<1>4. PICK z \in S : \A i \in S : W[i] <= W[z]
  <2>1. W \in [1 .. n -> Int]
    OBVIOUS
  <2> HIDE DEF W
  <2> QED
    BY <2>1, Peak
<1>5. \A i \in S : V[z] <= V[i]
  <2> TAKE i \in S
  <2>1. i \in 1 .. n /\ z \in 1 .. n
    OBVIOUS
  <2>2. W[i] = -V[i] /\ W[z] = -V[z] /\ V[i] \in Int /\ V[z] \in Int /\ W[i] <= W[z]
    BY <1>4, <2>1
  <2> QED
    BY <2>2
<1>6. V[z] \in X /\ \A y \in X : V[z] <= y
  BY <1>5
<1>7. X \subseteq Int
  BY <1>1
<1> HIDE DEF X
<1>8. Max(X) \in X /\ Min(X) \in X
  BY <1>3, <1>6 DEF Max, Min
<1> QED
  BY <1>7, <1>8 DEF X

\* The bars a candidate is made of.
LEMMA CandidateIs ==
  ASSUME NEW F, NEW T, NEW n, FrameOf(F, T, n), NEW c, NEW d \in Directions,
         NEW r \in Blocks!RunsOf(F, T, c, Opposite(d))
  PROVE  LET b == Blocks!Candidate(F, c, d, r) IN
         /\ b.direction = d /\ b.last = r[2] /\ b.first \in 1 .. n /\ b.last \in 1 .. n
         /\ b.first <= b.last /\ b.top \in Int /\ b.bottom \in Int
<1> DEFINE b == Blocks!Candidate(F, c, d, r)
           S == b.first .. b.last
           o == Blocks!Bounded(c)
           U == [i \in 1 .. n |-> Blocks!Upper(o, F[i])]
           V == [i \in 1 .. n |-> Blocks!Lower(o, F[i])]
<1>1. r[1] \in 1 .. n /\ r[2] \in 1 .. n /\ r[1] <= r[2]
  BY DEF Blocks!RunsOf, FrameOf
<1>2. /\ b.direction = d /\ b.last = r[2] /\ b.first \in {r[1], r[2]}
      /\ b.top = Max({Blocks!Upper(o, F[i]) : i \in S})
      /\ b.bottom = Min({Blocks!Lower(o, F[i]) : i \in S})
  BY SameExtrema DEF Blocks!Candidate, Blocks!ZoneTop, Blocks!ZoneBottom
<1> HIDE DEF b
<1>3. b.first \in 1 .. n /\ b.last \in 1 .. n /\ b.first <= b.last /\ n \in Nat
  BY <1>1, <1>2 DEF FrameOf
<1>4. S \in SUBSET (1 .. n) /\ S # {}
  BY <1>3
<1>5. U \in [1 .. n -> Int] /\ V \in [1 .. n -> Int]
  <2>1. ASSUME NEW i \in 1 .. n PROVE Blocks!Upper(o, F[i]) \in Int /\ Blocks!Lower(o, F[i]) \in Int
    BY BarOf DEF Blocks!Upper, Blocks!Lower
  <2> QED
    BY <2>1
<1>6. /\ {Blocks!Upper(o, F[i]) : i \in S} = {U[i] : i \in S}
      /\ {Blocks!Lower(o, F[i]) : i \in S} = {V[i] : i \in S}
  BY <1>4
<1> HIDE DEF S, U, V, o
<1>7. Max({U[i] : i \in S}) \in Int /\ Min({V[i] : i \in S}) \in Int
  BY <1>3, <1>4, <1>5, EndsOf
<1> QED
  BY <1>2, <1>3, <1>6, <1>7 DEF b

\* Where a block comes from.
LEMMA BlocksAre ==
  ASSUME NEW F, NEW T, NEW c, NEW b
  PROVE  b \in Blocks!BlocksOf(F, T, c)
           <=> \E d \in Directions : \E r \in Blocks!RunsOf(F, T, c, Opposite(d)) :
                 LET a == Blocks!Candidate(F, c, d, r) IN
                 /\ a.top > a.bottom /\ Blocks!ClosesThrough(F, c, a) # {}
                 /\ b = Blocks!Confirmed(F, T, c, a) /\ Blocks!Qualifies(F, c, b)
<1> DEFINE C == Blocks!CandidatesOf(F, T, c)
<1>1. \A a : a \in C <=> \E d \in Directions : \E r \in Blocks!RunsOf(F, T, c, Opposite(d)) :
                            a = Blocks!Candidate(F, c, d, r)
  BY SameDirections DEF Blocks!CandidatesOf
<1> HIDE DEF C
<1>2. b \in Blocks!BlocksOf(F, T, c)
        <=> \E a \in C : /\ a.top > a.bottom /\ Blocks!ClosesThrough(F, c, a) # {}
                         /\ b = Blocks!Confirmed(F, T, c, a) /\ Blocks!Qualifies(F, c, b)
  BY DEF Blocks!BlocksOf, C
<1> QED
  BY <1>1, <1>2

\* The close that confirms a candidate is the first to go through it.
LEMMA ConfirmedIs ==
  ASSUME NEW F, NEW T, NEW n, FrameOf(F, T, n), NEW c, NEW a, a.last \in 1 .. n,
         Blocks!ClosesThrough(F, c, a) # {}
  PROVE  /\ Blocks!Confirmed(F, T, c, a).bar \in Blocks!ClosesThrough(F, c, a)
         /\ Blocks!Confirmed(F, T, c, a).bar \in a.last + 1 .. n
         /\ \A k \in Blocks!ClosesThrough(F, c, a) : Blocks!Confirmed(F, T, c, a).bar <= k
<1> DEFINE H == Blocks!ClosesThrough(F, c, a)
<1>1. \A k \in H : k \in a.last + 1 .. n /\ k \in Nat /\ k <= n
  BY DEF Blocks!ClosesThrough, FrameOf
<1> HIDE DEF H
<1>2. H \in SUBSET Nat /\ H # {} /\ n \in Nat
  BY <1>1 DEF H, FrameOf
<1>3. Min(H) \in H /\ \A k \in H : Min(H) <= k
  BY <1>1, <1>2, MinMax
<1>4. Blocks!Confirmed(F, T, c, a).bar = Min(H)
  BY SameExtrema DEF Blocks!Confirmed, H
<1> QED
  BY <1>1, <1>3, <1>4 DEF H

\* A block is a zone, confirmed by a bar after its last candle.
LEMMA BlockIs ==
  ASSUME NEW F, NEW T, NEW n, FrameOf(F, T, n), NEW c, NEW b \in Blocks!BlocksOf(F, T, c)
  PROVE  IsZone(b) /\ b.bar \in 1 .. n /\ b.last \in 1 .. n /\ b.last < b.bar
<1>0. PICK d \in Directions : \E r \in Blocks!RunsOf(F, T, c, Opposite(d)) :
        LET a == Blocks!Candidate(F, c, d, r) IN
        /\ a.top > a.bottom /\ Blocks!ClosesThrough(F, c, a) # {}
        /\ b = Blocks!Confirmed(F, T, c, a)
  BY BlocksAre
<1>1. PICK r \in Blocks!RunsOf(F, T, c, Opposite(d)) :
        LET a == Blocks!Candidate(F, c, d, r) IN
        /\ a.top > a.bottom /\ Blocks!ClosesThrough(F, c, a) # {}
        /\ b = Blocks!Confirmed(F, T, c, a)
  BY <1>0
<1> DEFINE a == Blocks!Candidate(F, c, d, r)
<1>2. a.direction = d /\ a.last \in 1 .. n /\ a.top \in Int /\ a.bottom \in Int
  BY CandidateIs
<1>3. b.direction = a.direction /\ b.top = a.top /\ b.bottom = a.bottom /\ b.last = a.last
  BY <1>1 DEF Blocks!Confirmed
<1>4. a.top > a.bottom /\ Blocks!ClosesThrough(F, c, a) # {} /\ b = Blocks!Confirmed(F, T, c, a)
  BY <1>1
<1> HIDE DEF a
<1>5. b.bar \in a.last + 1 .. n
  BY <1>2, <1>4, ConfirmedIs
<1> QED
  BY <1>2, <1>3, <1>4, <1>5 DEF IsZone, FrameOf

----------------------------------------------------------------------------
(***************************************************************************)
(* The walk of BreakersSpec: the invariant of Structure over a frame whose  *)
(* bars open at the times opens.                                           *)
(***************************************************************************)

\* A break leaves the state it names.
BreaksTurn == \A n \in DOMAIN breaks : breaks[n].to = breaks[n].direction

Charted ==
  /\ opens \in [1 .. Len(frame) -> Nat] /\ Blocks!Increasing(opens)
  /\ options \in BreakerConfigs

BInv == IInv /\ RecordedSoFar /\ BreaksTurn /\ Charted

LEMMA StartCharted == BreakersInit => Starts /\ Charted
<1> SUFFICES ASSUME BreakersInit PROVE Starts /\ Charted
  OBVIOUS
<1>1. PICK chart \in Charts : frame = chart.bars /\ opens = chart.times
  BY DEF BreakersInit
<1>2. /\ frame \in Seq(Bars) /\ opens \in Seq(Nat) /\ Len(opens) = Len(frame)
      /\ Blocks!Increasing(opens)
  BY <1>1, BreakerAssumption
<1>3. opens \in [1 .. Len(frame) -> Nat]
  BY <1>2
<1> QED
  BY <1>2, <1>3 DEF BreakersInit, Starts, Charted

LEMMA TurnStep ==
  ASSUME IInv, BreaksTurn, Next
  PROVE  BreaksTurn'
<1>1. TypeOK
  BY DEF IInv
<1>2. PICK j \in 1 .. Len(frame) :
        /\ Advance(j)
        /\ \/ \E d \in Directions : BreaksAt(d, j) /\ Break(d, j)
           \/ UNCHANGED breaks
  BY <1>1, StepForms
<1>3. CASE UNCHANGED breaks
  BY <1>3 DEF BreaksTurn
<1>4. ASSUME NEW d \in Directions, Break(d, j) PROVE BreaksTurn'
  <2> DEFINE b == MakeBreak(frame, config, d, ActiveAt(j)[d], state, j)
  <2>1. breaks' = Append(breaks, b) /\ b.to = b.direction
    BY <1>4 DEF Break, MakeBreak
  <2> HIDE DEF b
  <2>2. breaks \in Seq(BreakRecords)
    BY <1>1 DEF TypeOK
  <2>3. /\ DOMAIN breaks' = DOMAIN breaks \cup {Len(breaks) + 1}
        /\ breaks'[Len(breaks) + 1] = b /\ \A n \in DOMAIN breaks : breaks'[n] = breaks[n]
    BY <2>1, <2>2
  <2> QED
    BY <2>1, <2>3 DEF BreaksTurn
<1> QED
  BY <1>2, <1>3, <1>4

LEMMA BreakersInv == BreakersSpec => []BInv
<1>1. BreakersInit => BInv
  <2> SUFFICES ASSUME BreakersInit PROVE BInv
    OBVIOUS
  <2>1. Starts /\ Charted
    BY StartCharted
  <2>2. breaks = <<>>
    BY <2>1 DEF Starts, Fresh
  <2> QED
    BY <2>1, <2>2, StartInv, StartRecorded DEF BInv, BreaksTurn
<1>2. BInv /\ [BreakersNext]_allVars => BInv'
  <2> SUFFICES ASSUME BInv, [BreakersNext]_allVars PROVE BInv'
    OBVIOUS
  <2>1. [Next]_vars /\ UNCHANGED <<opens, options>>
    BY DEF BreakersNext, allVars
  <2>2. IInv'
    BY <2>1, StepInv DEF BInv
  <2>3. frame' = frame
    BY <2>1, StepForms DEF BInv, IInv, Advance, vars
  <2>4. Charted'
    BY <2>1, <2>3 DEF BInv, Charted
  <2>5. RecordedSoFar'
    BY <2>1, RecordStep DEF vars, RecordedSoFar, Recorded, BInv
  <2>6. BreaksTurn'
    BY <2>1, TurnStep DEF vars, BreaksTurn, BInv
  <2> QED
    BY <2>2, <2>4, <2>5, <2>6 DEF BInv
<1> QED
  BY <1>1, <1>2, PTL DEF BreakersSpec

\* The first k bars are a frame.
LEMMA SeenFrame ==
  ASSUME BInv, NEW k \in 0 .. Len(frame)
  PROVE  /\ FrameOf(SeenBars(k), SeenTimes(k), k)
         /\ \A i \in 1 .. k : SeenBars(k)[i] = frame[i] /\ SeenTimes(k)[i] = opens[i]
<1> DEFINE F == SeenBars(k)
           T == SeenTimes(k)
           n == Len(frame)
<1>1. frame \in Seq(Bars) /\ n \in Nat /\ opens \in [1 .. n -> Nat] /\ Blocks!Increasing(opens)
  BY DEF BInv, IInv, TypeOK, Charted
<1>2. opens \in Seq(Nat) /\ Len(opens) = n
  BY <1>1
<1>3. F \in [1 .. k -> Bars] /\ \A i \in 1 .. k : F[i] = frame[i]
  <2>1. F = SubSeq(frame, 1, k)
    BY DEF SeenBars
  <2> HIDE DEF F
  <2>2. F \in Seq(Bars) /\ Len(F) = k /\ \A i \in 1 .. k : F[i] = frame[i]
    BY <1>1, <2>1
  <2> QED
    BY <2>2
<1>4. T \in [1 .. k -> Nat] /\ \A i \in 1 .. k : T[i] = opens[i]
  <2>1. T = SubSeq(opens, 1, k)
    BY DEF SeenTimes
  <2> HIDE DEF T
  <2>2. T \in Seq(Nat) /\ Len(T) = k /\ \A i \in 1 .. k : T[i] = opens[i]
    BY <1>2, <2>1
  <2> QED
    BY <2>2
<1>5. Blocks!Increasing(T)
  <2>1. DOMAIN T = 1 .. k /\ DOMAIN opens = 1 .. n /\ \A i \in 1 .. k : i \in 1 .. n
    BY <1>1, <1>4
  <2> QED
    BY <1>1, <1>4, <2>1 DEF Blocks!Increasing
<1> QED
  BY <1>3, <1>4, <1>5 DEF FrameOf

\* The configurations of a detector and of the blocks it starts from.
LEMMA OptionFields ==
  ASSUME BInv
  PROVE  /\ HasThresholds(options) /\ HasThresholds(options.blocks)
         /\ options.window \in Nat \ {0} /\ options.requireStructure \in BOOLEAN
BY BreakerAssumption DEF BInv, Charted, BreakerConfigType, Blocks!BlockConfigType, HasThresholds

----------------------------------------------------------------------------
\* The breaks observable at bar k, of the walk that went through index bars.
LEMMA ObservableAre ==
  ASSUME NEW B, NEW k
  PROVE  \A s : s \in Range(ObservableBreaks(B, k))
                  <=> \E n \in DOMAIN B : B[n].bar <= k /\ s = B[n]
BY DEF ObservableBreaks, Restrict, Range

\* The state a break leaves holds at its bar.
LEMMA StateAtBreak ==
  ASSUME BInv, NEW n \in DOMAIN breaks
  PROVE  StateAt(breaks, breaks[n].bar) = breaks[n].to
<1> DEFINE K == {m \in DOMAIN breaks : breaks[m].bar <= breaks[n].bar}
<1>1. /\ DOMAIN breaks = 1 .. Len(breaks) /\ Len(breaks) \in Nat
      /\ \A m \in DOMAIN breaks : breaks[m].bar \in Nat
      /\ \A l, m \in DOMAIN breaks : l < m => breaks[l].bar < breaks[m].bar
  BY BreakFields DEF BInv, IInv, TypeOK, RecordedSoFar, Recorded
<1>2. n \in K /\ \A m \in K : n >= m
  <2>1. ASSUME NEW m \in K PROVE n >= m
    BY <1>1
  <2> QED
    BY <1>1, <2>1
<1>3. \A x \in K : (\A m \in K : x >= m) => x = n
  BY <1>1, <1>2
<1>4. Max(K) = n
  BY <1>2, <1>3 DEF Max
<1>5. K # {}
  BY <1>2
<1> DEFINE O == ObservableBreaks(breaks, breaks[n].bar)
<1>6. DOMAIN O = K /\ O[n] = breaks[n]
  BY <1>2 DEF ObservableBreaks, Restrict
<1>7. StateAt(breaks, breaks[n].bar) = IF DOMAIN O = {} THEN "undefined" ELSE O[Max(DOMAIN O)].to
  BY DEF StateAt
<1> HIDE DEF O, K
<1> QED
  BY <1>4, <1>5, <1>6, <1>7

\* The first break that matches a failure at bar f.
LEMMA MatchIs ==
  ASSUME BInv, NEW k, NEW b, NEW f \in Nat, Matches(k, b, f) # {}
  PROVE  LET at == Min({s.bar : s \in Matches(k, b, f)}) IN
         /\ at \in Nat /\ f <= at /\ at <= k
         /\ StateAt(breaks, at) = Opposite(b.direction)
<1> DEFINE S == {s.bar : s \in Matches(k, b, f)}
<1>1. ASSUME NEW s \in Matches(k, b, f)
      PROVE  \E n \in DOMAIN breaks :
               /\ s = breaks[n] /\ s.bar <= k /\ s.direction = Opposite(b.direction)
               /\ s.bar \in f .. f + options.window
  <2>1. /\ s \in Range(ObservableBreaks(breaks, k)) /\ s.direction = Opposite(b.direction)
        /\ s.bar \in f .. f + options.window
    BY DEF Matches
  <2>2. \A t : t \in Range(ObservableBreaks(breaks, k))
               <=> \E n \in DOMAIN breaks : breaks[n].bar <= k /\ t = breaks[n]
    BY ObservableAre
  <2>3. PICK n \in DOMAIN breaks : breaks[n].bar <= k /\ s = breaks[n]
    BY <2>1, <2>2
  <2> QED
    BY <2>1, <2>3
<1>2. S \in SUBSET Nat /\ S # {}
  <2>1. ASSUME NEW s \in Matches(k, b, f) PROVE s.bar \in Nat
    BY <1>1, BreakFields DEF BInv, IInv
  <2> QED
    BY <2>1
<1> HIDE DEF S
<1>3. PICK x \in S : \A y \in S : x <= y
  BY <1>2, HasLeast
<1>4. Min(S) = x
  BY <1>2, <1>3, LeastIs
<1>5. PICK s \in Matches(k, b, f) : x = s.bar
  BY DEF S
<1>6. PICK n \in DOMAIN breaks :
        /\ s = breaks[n] /\ s.bar <= k /\ s.direction = Opposite(b.direction)
        /\ s.bar \in f .. f + options.window
  BY <1>1
<1>7. StateAt(breaks, x) = Opposite(b.direction)
  BY <1>5, <1>6, StateAtBreak DEF BInv, BreaksTurn
<1>8. options.window \in Nat
  BY OptionFields
<1>9. x \in Nat /\ f <= x /\ x <= k
  BY <1>2, <1>5, <1>6, <1>8
<1> QED
  BY <1>4, <1>7, <1>9 DEF S

\* The bars that fail a block come after it, and reach through it.
LEMMA FailuresAre ==
  ASSUME BInv, NEW k \in 0 .. Len(frame), NEW b \in BlocksAt(k)
  PROVE  /\ IsZone(b) /\ b.bar \in 1 .. k /\ Failures(k, b) \subseteq b.bar + 1 .. k
         /\ \A f \in Failures(k, b) :
              Blocks!Fills(b, Blocks!Reach(b, SeenBars(k)[f]), options.blocks.full)
         /\ options.mode = "close" =>
              Failures(k, b) = Blocks!ClosesAgainst(SeenBars(k), SeenTimes(k), b)
<1> DEFINE F == SeenBars(k)
           T == SeenTimes(k)
           W == Blocks!BarsFrom(T, Blocks!CloseTime(T, b.bar))
           o == Opposite(b.direction)
<1>1. FrameOf(F, T, k)
  BY SeenFrame
<1> HIDE DEF F, T
<1>2. IsZone(b) /\ b.bar \in 1 .. k
  BY <1>1, BlockIs DEF BlocksAt, F, T
<1>3. W = b.bar + 1 .. k
  BY <1>1, <1>2, FromIs
<1> HIDE DEF W
<1>4. ASSUME NEW f \in Failures(k, b)
      PROVE  /\ f \in W
             /\ \/ Beyond(o, F[f].close, Blocks!FarEdge(b))
                \/ Beyond(o, Extreme(F[f], o), Blocks!FarEdge(b))
  <2>1. CASE options.mode = "close"
    BY <2>1, SameDirections DEF Failures, Blocks!ClosesAgainst, F, T, W
  <2>2. CASE options.mode # "close"
    <3>1. f \in W /\ Beyond(o, Extreme(frame[f], o), Blocks!FarEdge(b))
      BY <2>2 DEF Failures, F, T, W
    <3>2. f \in 1 .. k
      BY <1>2, <1>3, <3>1
    <3>3. F[f] = frame[f]
      BY <3>2, SeenFrame DEF F
    <3> QED
      BY <3>1, <3>3
  <2> QED
    BY <2>1, <2>2
<1>5. ASSUME NEW f \in Failures(k, b)
      PROVE  Blocks!Fills(b, Blocks!Reach(b, F[f]), options.blocks.full)
  <2>1. f \in 1 .. k
    BY <1>2, <1>3, <1>4
  <2>2. Blocks!Reach(b, F[f]) \in Int /\ Blocks!FarEdge(b) \in Int
    BY <1>1, <1>2, <2>1, ReachIs DEF Blocks!FarEdge, IsZone
  <2>3. Blocks!Reach(b, F[f]) = Extreme(F[f], o)
    BY SameDirections DEF Blocks!Reach
  <2>4. ~Blocks!Deeper(b, Blocks!FarEdge(b), Blocks!Reach(b, F[f]))
    <3>1. CASE Beyond(o, F[f].close, Blocks!FarEdge(b))
      BY <1>1, <1>2, <2>1, <3>1, ReachIs
    <3>2. CASE Beyond(o, Extreme(F[f], o), Blocks!FarEdge(b))
      <4>1. \A p, q \in Int : Beyond(o, p, q) => ~Beyond(o, q, p)
        BY DEF Beyond
      <4>2. Beyond(o, Blocks!Reach(b, F[f]), Blocks!FarEdge(b))
        BY <2>3, <3>2
      <4>3. ~Beyond(o, Blocks!FarEdge(b), Blocks!Reach(b, F[f]))
        BY <2>2, <4>1, <4>2
      <4> QED
        BY <4>3, SameDirections DEF Blocks!Deeper
    <3> QED
      BY <1>4, <3>1, <3>2
  <2>5. options.blocks.full \in 1 .. Blocks!Whole
    BY OptionFields DEF HasThresholds
  <2> QED
    BY <1>2, <2>2, <2>4, <2>5, DepthIs, FillsIs
<1> QED
  BY <1>2, <1>3, <1>4, <1>5 DEF Failures, F, T

\* Where a breaker comes from.
LEMMA BreakerIs ==
  ASSUME BInv, NEW k \in 0 .. Len(frame), NEW x \in BreakersAt(k)
  PROVE  /\ x.source \in BlocksAt(k) /\ x.failure \in Failures(k, x.source)
         /\ x.failure = Min(Failures(k, x.source)) /\ x = Breaker(k, x.source, x.failure)
         /\ options.requireStructure => Matches(k, x.source, x.failure) # {}
<1>1. PICK b \in BlocksAt(k) :
        /\ Failures(k, b) # {} /\ x = Breaker(k, b, Min(Failures(k, b)))
        /\ options.requireStructure => Matches(k, b, Min(Failures(k, b))) # {}
  BY DEF BreakersAt
<1>2. x.source = b /\ x.failure = Min(Failures(k, b))
  BY <1>1 DEF Breaker
<1>3. FrameOf(SeenBars(k), SeenTimes(k), k)
  BY SeenFrame
<1>4. b.bar \in 1 .. k
  BY <1>3, BlockIs DEF BlocksAt
<1>5. Failures(k, b) \subseteq b.bar + 1 .. k
  BY <1>3, <1>4, FailuresAre
<1>6. Min(Failures(k, b)) \in Failures(k, b)
  <2> DEFINE H == Failures(k, b)
  <2>1. H \in SUBSET Nat /\ H # {} /\ k \in Nat /\ \A y \in H : y <= k
    BY <1>1, <1>4, <1>5
  <2> HIDE DEF H
  <2> QED
    BY <2>1, MinMax DEF H
<1> QED
  BY <1>1, <1>2, <1>6

\* When a breaker becomes usable.
LEMMA BreakerBar ==
  ASSUME BInv, NEW k \in 0 .. Len(frame), NEW x \in BreakersAt(k)
  PROVE  /\ x.source.bar \in 1 .. k /\ x.failure \in x.source.bar + 1 .. k
         /\ x.bar \in x.failure .. k /\ IsZone(x) /\ x.direction = Opposite(x.source.direction)
         /\ x.top = x.source.top /\ x.bottom = x.source.bottom
         /\ options.requireStructure =>
              /\ x.bar = Min({s.bar : s \in Matches(k, x.source, x.failure)})
              /\ StateAt(breaks, x.bar) = x.direction
         /\ ~options.requireStructure => x.bar = x.failure
<1> DEFINE b == x.source
           f == x.failure
           first == Min({s.bar : s \in Matches(k, b, f)})
<1>1. /\ b \in BlocksAt(k) /\ f \in Failures(k, b) /\ x = Breaker(k, b, f)
      /\ options.requireStructure => Matches(k, b, f) # {}
  BY BreakerIs
<1>2. /\ x.direction = Opposite(b.direction) /\ x.top = b.top /\ x.bottom = b.bottom
      /\ x.bar = Max({b.bar, IF options.requireStructure THEN first ELSE f})
  BY <1>1 DEF Breaker
<1>3. IsZone(b) /\ b.bar \in 1 .. k /\ f \in b.bar + 1 .. k
  BY <1>1, FailuresAre
<1>4. k \in Nat
  BY <1>3
<1>5. options.requireStructure =>
        first \in f .. k /\ StateAt(breaks, first) = Opposite(b.direction)
  <2> SUFFICES ASSUME options.requireStructure
               PROVE  first \in f .. k /\ StateAt(breaks, first) = Opposite(b.direction)
    OBVIOUS
  <2>1. Matches(k, b, f) # {} /\ f \in Nat
    BY <1>1, <1>3
  <2> HIDE DEF b, f
  <2>2. first \in Nat /\ f <= first /\ first <= k /\ StateAt(breaks, first) = Opposite(b.direction)
    BY <2>1, MatchIs
  <2> HIDE DEF first
  <2> QED
    BY <1>4, <2>1, <2>2
<1> DEFINE y == IF options.requireStructure THEN first ELSE f
<1> HIDE DEF b, f, first
<1>6. y \in f .. k
  BY <1>3, <1>4, <1>5 DEF y
<1>7. x.bar = Max({b.bar, y})
  BY <1>2 DEF y
<1> HIDE DEF y
<1>8. Max({b.bar, y}) = (IF b.bar >= y THEN b.bar ELSE y)
  BY <1>3, <1>6, TwoInts
<1>9. x.bar = y
  BY <1>3, <1>6, <1>7, <1>8
<1>10. IsZone(x)
  BY <1>2, <1>3 DEF IsZone, Opposite, Directions
<1> QED
  BY <1>2, <1>3, <1>5, <1>6, <1>9, <1>10 DEF y, b, f, first

\* At the decision a breaker becomes usable, the state of the structure walk has
\* the direction of the breaker.
THEOREM WithTheTrendHolds == BreakersSpec => []WithTheTrend
<1>1. BInv => WithTheTrend
  <2>1. BInv => index \in 0 .. Len(frame)
    BY DEF BInv, IInv, TypeOK
  <2> QED
    BY <2>1, BreakerBar DEF WithTheTrend
<1> QED
  BY <1>1, BreakersInv, PTL

\* The block a breaker comes from is spent when the breaker appears.
THEOREM SourcesSpentHolds == BreakersSpec => []SourcesSpent
<1>1. BInv => SourcesSpent
  <2> SUFFICES ASSUME BInv, NEW x \in BreakersAt(index)
               PROVE  /\ Blocks!FillStatus(BlockFillsAt(index, x.source), x.failure) = "mitigated"
                      /\ options.mode = "close" =>
                           BlockStatusAt(index, x.source, x.bar) = "invalidated"
    BY DEF SourcesSpent
  <2> DEFINE b == x.source
             f == x.failure
             F == SeenBars(index)
             T == SeenTimes(index)
  <2>1. index \in 0 .. Len(frame)
    BY DEF BInv, IInv, TypeOK
  <2>2. /\ b \in BlocksAt(index) /\ f \in Failures(index, b)
        /\ b.bar \in 1 .. index /\ f \in b.bar + 1 .. index /\ x.bar \in f .. index
    BY <2>1, BreakerIs, BreakerBar
  <2>3. FrameOf(F, T, index)
    BY <2>1, SeenFrame
  <2>4. /\ IsZone(b) /\ Blocks!Fills(b, Blocks!Reach(b, F[f]), options.blocks.full)
        /\ options.mode = "close" => f \in Blocks!ClosesAgainst(F, T, b)
    BY <2>1, <2>2, FailuresAre
  <2>5. HasThresholds(options.blocks) /\ f \in Nat /\ f <= f /\ f <= x.bar
    BY <2>2, OptionFields
  <2> HIDE DEF b, f, F, T
  <2>6. Blocks!FillStatus(Blocks!BlockFills(F, T, options.blocks, b), f) = "mitigated"
    BY <2>2, <2>3, <2>4, <2>5, FilledStatus DEF Blocks!BlockFills
  <2>7. options.mode = "close" => Blocks!StatusAt(F, T, options.blocks, b, x.bar) = "invalidated"
    BY <2>4, <2>5 DEF Blocks!StatusAt
  <2> QED
    BY <2>6, <2>7 DEF BlockFillsAt, BlockStatusAt, b, f, F, T
<1> QED
  BY <1>1, BreakersInv, PTL

----------------------------------------------------------------------------
(***************************************************************************)
(* Unicorns.                                                               *)
(***************************************************************************)

\* The zones of a unicorn are tracked as those of a block are.
LEMMA SameZones ==
  /\ Joined!Whole = Blocks!Whole /\ Joined!Directions = Directions
  /\ \A T, t : Joined!CloseTime(T, t) = Blocks!CloseTime(T, t)
  /\ \A z, bar : Joined!Reach(z, bar) = Blocks!Reach(z, bar)
  /\ \A S : Joined!Max(S) = Max(S) /\ Joined!Min(S) = Min(S)
  /\ \A c, bar : Joined!Upper(c, bar) = Blocks!Upper(c, bar)
  /\ \A c, bar : Joined!Lower(c, bar) = Blocks!Lower(c, bar)
BY DEF Joined!Whole, Blocks!Whole, Joined!Directions, Directions, Joined!CloseTime,
       Blocks!CloseTime, Joined!Reach, Blocks!Reach, Joined!Extreme, Blocks!Extreme,
       Joined!Opposite, Blocks!Opposite, Joined!Max, Max, Joined!Min, Min, Joined!Upper,
       Blocks!Upper, Joined!Lower, Blocks!Lower

LEMMA SameTracker ==
  /\ \A F, T, c, z, t : Joined!TrackZoneFill(F, T, c, z, t) = Blocks!TrackZoneFill(F, T, c, z, t)
  /\ \A S, k : Joined!FillStatus(S, k) = Blocks!FillStatus(S, k)
<1>1. \A S, k : Joined!FillStatus(S, k) = Blocks!FillStatus(S, k)
  BY DEF Joined!FillStatus, Blocks!FillStatus
<1>2. /\ \A z, p : Joined!Depth(z, p) = Blocks!Depth(z, p)
      /\ \A z, bar : Joined!Reach(z, bar) = Blocks!Reach(z, bar)
      /\ \A T, t : Joined!BarsFrom(T, t) = Blocks!BarsFrom(T, t)
  BY DEF Joined!Depth, Blocks!Depth, Joined!Distance, Blocks!Distance, Joined!EntryEdge,
         Blocks!EntryEdge, Joined!Opposite, Blocks!Opposite, Joined!Reach, Blocks!Reach,
         Joined!Extreme, Blocks!Extreme, Joined!BarsFrom, Blocks!BarsFrom
<1>3. /\ \A z, p, f : Joined!Fills(z, p, f) <=> Blocks!Fills(z, p, f)
      /\ \A z, p, f : Joined!Enters(z, p, f) <=> Blocks!Enters(z, p, f)
  BY <1>2 DEF Joined!Fills, Blocks!Fills, Joined!Enters, Blocks!Enters, Joined!Whole, Blocks!Whole
<1>4. ASSUME NEW F, NEW T, NEW c, NEW z, NEW t
      PROVE  Joined!TrackZoneFill(F, T, c, z, t) = Blocks!TrackZoneFill(F, T, c, z, t)
  BY <1>2, <1>3 DEF Joined!TrackZoneFill, Blocks!TrackZoneFill
<1> QED
  BY <1>1, <1>4

\* A gap has a direction and two prices for edges.
LEMMA GapIs ==
  ASSUME NEW F, NEW T, NEW n, FrameOf(F, T, n), NEW g, NEW z \in Joined!GapsOf(F, T, g)
  PROVE  /\ z.direction \in Directions /\ z.third \in 1 .. n /\ z.top \in Int /\ z.bottom \in Int
<1>1. PICK x \in Directions \X (1 .. n) :
        z = Joined!Gap(F, g, x[1], x[2]) /\ Joined!IsGap(F, T, g, x[1], x[2])
  BY SameZones DEF Joined!GapsOf, FrameOf
<1>2. x[1] \in Directions /\ x[2] \in 1 .. n /\ x[2] > 2 /\ x[2] - 2 \in 1 .. n /\ n \in Nat
  BY <1>1 DEF Joined!IsGap, FrameOf
<1>3. ASSUME NEW k \in 1 .. n
      PROVE  Joined!Upper(g, F[k]) \in Int /\ Joined!Lower(g, F[k]) \in Int
  BY BarOf DEF Joined!Upper, Joined!Lower
<1> QED
  BY <1>1, <1>2, <1>3 DEF Joined!Gap

\* A unicorn is the part a breaker and a gap of its direction share.
LEMMA UnicornIs ==
  ASSUME BInv, NEW k \in 0 .. Len(frame), NEW u, u.minOverlap \in Nat, NEW x \in UnicornsAt(k, u)
  PROVE  LET b == x.breaker IN
         /\ b \in BreakersAt(k) /\ x.gap \in GapsAt(k, u) /\ x.gap.third \in 1 .. k
         /\ x.direction = b.direction /\ x.direction = x.gap.direction /\ IsZone(x)
         /\ b.bottom <= x.bottom /\ x.top <= b.top
         /\ b.bar <= x.bar /\ x.gap.third <= x.bar /\ x.bar \in {b.bar, x.gap.third}
         /\ x.bar \in 1 .. k
<1>1. PICK p \in BreakersAt(k) \X GapsAt(k, u) :
        Joined!Joins(SeenTimes(k), u, p[1], p[2]) /\ x = Joined!Unicorn(p[1], p[2])
  BY DEF UnicornsAt, Joined!UnicornsOf
<1> DEFINE b == p[1]
           z == p[2]
<1>2. b \in BreakersAt(k) /\ z \in GapsAt(k, u)
  BY <1>1
<1>3. /\ b.direction = z.direction
      /\ Joined!Overlap(b, z).top > Joined!Overlap(b, z).bottom
  BY <1>1 DEF Joined!Joins, Joined!Overlaps
<1>4. /\ x.breaker = b /\ x.gap = z /\ x.direction = b.direction
      /\ x.top = Joined!Overlap(b, z).top /\ x.bottom = Joined!Overlap(b, z).bottom
      /\ x.bar = Joined!Max({b.bar, z.third})
  BY <1>1 DEF Joined!Unicorn
<1>5. /\ Joined!Overlap(b, z).top = Min({b.top, z.top})
      /\ Joined!Overlap(b, z).bottom = Max({b.bottom, z.bottom})
  BY SameZones DEF Joined!Overlap
<1>6. FrameOf(SeenBars(k), SeenTimes(k), k)
  BY SeenFrame
<1> HIDE DEF b, z
<1>7. /\ z.direction \in Directions /\ z.third \in 1 .. k /\ z.top \in Int /\ z.bottom \in Int
  BY <1>2, <1>6, GapIs DEF GapsAt
<1>8. IsZone(b) /\ b.bar \in 1 .. k
  <2>1. /\ IsZone(b) /\ b.bar \in b.failure .. k /\ b.failure \in b.source.bar + 1 .. k
        /\ b.source.bar \in 1 .. k
    BY <1>2, BreakerBar
  <2> QED
    BY <2>1
<1>9. b.top \in Int /\ b.bottom \in Int /\ k \in Nat /\ b.bar \in Nat /\ z.third \in Nat
  BY <1>7, <1>8 DEF IsZone
<1>10. /\ Min({b.top, z.top}) = (IF b.top <= z.top THEN b.top ELSE z.top)
       /\ Max({b.bottom, z.bottom}) = (IF b.bottom >= z.bottom THEN b.bottom ELSE z.bottom)
       /\ Max({b.bar, z.third}) = (IF b.bar >= z.third THEN b.bar ELSE z.third)
  <2>1. Min({b.top, z.top}) = (IF b.top <= z.top THEN b.top ELSE z.top)
    BY <1>7, <1>9, TwoInts
  <2>2. Max({b.bottom, z.bottom}) = (IF b.bottom >= z.bottom THEN b.bottom ELSE z.bottom)
    BY <1>7, <1>9, TwoInts
  <2>3. Max({b.bar, z.third}) = (IF b.bar >= z.third THEN b.bar ELSE z.third)
    <3>1. b.bar \in Int /\ z.third \in Int
      BY <1>9
    <3> QED
      BY <3>1, TwoInts
  <2> QED
    BY <2>1, <2>2, <2>3
<1>11. x.top <= b.top /\ b.bottom <= x.bottom /\ x.top \in Int /\ x.bottom \in Int
       /\ x.top > x.bottom
  BY <1>3, <1>4, <1>5, <1>7, <1>9, <1>10
<1>12. /\ x.bar \in {b.bar, z.third} /\ b.bar <= x.bar /\ z.third <= x.bar /\ x.bar \in 1 .. k
  BY <1>4, <1>7, <1>8, <1>9, <1>10, SameZones
<1> QED
  BY <1>2, <1>3, <1>4, <1>7, <1>8, <1>11, <1>12 DEF IsZone

\* A price at the far edge of a zone is at or beyond that of a part of it.
LEMMA PartFilled ==
  ASSUME NEW b, IsZone(b), NEW x, IsZone(x), x.direction = b.direction,
         b.bottom <= x.bottom, x.top <= b.top, NEW p \in Int,
         Blocks!Depth(b, p) = b.top - b.bottom
  PROVE  Blocks!Depth(x, p) = x.top - x.bottom
<1>1. ~Blocks!Deeper(b, Blocks!FarEdge(b), p)
  BY DepthIs
<1>2. ~Blocks!Deeper(x, Blocks!FarEdge(x), p)
  BY <1>1 DEF Blocks!Deeper, Blocks!FarEdge, Blocks!Beyond, Blocks!Opposite, IsZone, Directions
<1> QED
  BY <1>2, DepthIs

\* A breaker that has to be filled whole does not die while a part of its unicorn
\* is untouched.
THEOREM DeathsFollowFillsHolds == BreakersSpec => []DeathsFollowFills
<1>1. BInv => DeathsFollowFills
  <2> SUFFICES ASSUME BInv, NEW u \in UnicornConfigs, options.full = Joined!Whole,
                      NEW x \in UnicornsAt(index, u), NEW d \in DeathsAt(index, x), d > x.bar
               PROVE  Joined!FillStatus(UnicornFillsAt(index, u, x), d) = "mitigated"
    BY DEF DeathsFollowFills
  <2> DEFINE b == x.breaker
             F == SeenBars(index)
             T == SeenTimes(index)
  <2>1. index \in 0 .. Len(frame)
    BY DEF BInv, IInv, TypeOK
  <2>2. FrameOf(F, T, index)
    BY <2>1, SeenFrame
  <2>3. HasThresholds(u) /\ u.minOverlap \in Nat
    BY UnicornAssumption, SameZones DEF Joined!UnicornConfigType, HasThresholds
  <2>4. /\ b \in BreakersAt(index) /\ x.direction = b.direction /\ IsZone(x)
        /\ b.bottom <= x.bottom /\ x.top <= b.top /\ x.bar \in 1 .. index
    BY <2>1, <2>3, UnicornIs
  <2>5. IsZone(b) /\ b.bar \in 1 .. index
    <3>1. /\ IsZone(b) /\ b.bar \in b.failure .. index /\ b.failure \in b.source.bar + 1 .. index
          /\ b.source.bar \in 1 .. index
      BY <2>1, <2>4, BreakerBar
    <3> QED
      BY <3>1
  <2>6. PICK f \in BreakerFillsAt(index, b) : f.after = "mitigated" /\ d = f.bar
    BY DEF DeathsAt
  <2>7. f \in Blocks!TrackZoneFill(F, T, options, b, Blocks!CloseTime(T, b.bar))
    BY DEF BreakerFillsAt
  <2> HIDE DEF b, F, T
  <2>8. /\ d \in b.bar + 1 .. index
        /\ Blocks!Fills(b, Blocks!Reach(b, F[d]), Blocks!Whole)
    BY <2>2, <2>5, <2>6, <2>7, FillsAre, SameZones
  <2>9. d \in 1 .. index /\ d \in Nat /\ d \in x.bar + 1 .. index
    BY <2>4, <2>5, <2>8
  <2>10. Blocks!Reach(x, F[d]) = Blocks!Reach(b, F[d])
    BY <2>4 DEF Blocks!Reach
  <2>11. Blocks!Reach(b, F[d]) \in Int
    BY <2>2, <2>5, <2>9, ReachIs
  <2>12. Blocks!Depth(b, Blocks!Reach(b, F[d])) = b.top - b.bottom
    <3>1. Blocks!Whole \in 1 .. Blocks!Whole
      BY DEF Blocks!Whole
    <3> QED
      BY <2>5, <2>8, <2>11, <3>1, FillsIs
  <2>13. Blocks!Depth(x, Blocks!Reach(b, F[d])) = x.top - x.bottom
    BY <2>4, <2>5, <2>11, <2>12, PartFilled
  <2>14. Blocks!Fills(x, Blocks!Reach(x, F[d]), u.full)
    BY <2>3, <2>4, <2>10, <2>11, <2>13, FillsIs DEF HasThresholds
  <2>15. Blocks!FillStatus(Blocks!TrackZoneFill(F, T, u, x, Blocks!CloseTime(T, x.bar)), d)
           = "mitigated"
    <3>1. d <= d
      BY <2>9
    <3> QED
      BY <2>2, <2>3, <2>4, <2>9, <2>14, <3>1, FilledStatus
  <2> QED
    BY <2>15, SameTracker, SameZones DEF UnicornFillsAt, F, T
<1> QED
  BY <1>1, BreakersInv, PTL

----------------------------------------------------------------------------
(***************************************************************************)
(* What a longer frame adds.                                               *)
(***************************************************************************)

\* The bars G are the first m of the n bars F.
TruncatedTo(F, T, n, G, U, m) ==
  /\ FrameOf(F, T, n)
  /\ m \in 0 .. n /\ G \in [1 .. m -> Bars] /\ U \in [1 .. m -> Nat]
  /\ \A k \in 1 .. m : G[k] = F[k] /\ U[k] = T[k]

LEMMA PrefixFacts ==
  ASSUME NEW F, NEW T, NEW n, NEW G, NEW U, NEW m, TruncatedTo(F, T, n, G, U, m)
  PROVE  /\ DOMAIN F = 1 .. n /\ DOMAIN T = 1 .. n /\ DOMAIN G = 1 .. m /\ DOMAIN U = 1 .. m
         /\ n \in Nat /\ m \in Nat /\ m <= n
         /\ \A k : k \in 1 .. m <=> k \in 1 .. n /\ k <= m
         /\ \A k \in 1 .. m : /\ G[k] = F[k] /\ U[k] = T[k]
                              /\ Blocks!CloseTime(U, k) = Blocks!CloseTime(T, k)
         /\ FrameOf(F, T, n) /\ FrameOf(G, U, m)
<1>1. /\ DOMAIN F = 1 .. n /\ DOMAIN T = 1 .. n /\ DOMAIN G = 1 .. m /\ DOMAIN U = 1 .. m
      /\ n \in Nat /\ m \in Nat /\ m <= n
      /\ \A k : k \in 1 .. m <=> k \in 1 .. n /\ k <= m
  BY DEF TruncatedTo, FrameOf
<1>2. \A k \in 1 .. m : /\ G[k] = F[k] /\ U[k] = T[k]
                        /\ Blocks!CloseTime(U, k) = Blocks!CloseTime(T, k)
  BY DEF TruncatedTo, Blocks!CloseTime
<1>3. Blocks!Increasing(U)
  BY <1>1, <1>2 DEF TruncatedTo, FrameOf, Blocks!Increasing
<1> QED
  BY <1>1, <1>2, <1>3 DEF TruncatedTo, FrameOf

LEMMA DisplacedAlike ==
  ASSUME NEW F, NEW T, NEW n, NEW G, NEW U, NEW m, TruncatedTo(F, T, n, G, U, m),
         NEW c, c.lookback \in Nat \ {0}, NEW i \in 1 .. m
  PROVE  Blocks!Displaced(F, c, i) <=> Blocks!Displaced(G, c, i)
<1>1. ASSUME i > c.lookback
      PROVE  [k \in (i - c.lookback) .. (i - 1) |-> Blocks!BarRange(F[k])]
               = [k \in (i - c.lookback) .. (i - 1) |-> Blocks!BarRange(G[k])]
  <2>1. m \in Nat
    BY DEF TruncatedTo, FrameOf
  <2>2. \A k \in (i - c.lookback) .. (i - 1) : k \in 1 .. m
    BY <1>1, <2>1
  <2> QED
    BY <2>2 DEF TruncatedTo, FrameOf
<1>2. F[i] = G[i]
  BY DEF TruncatedTo, FrameOf
<1> QED
  BY <1>1, <1>2 DEF Blocks!Displaced

LEMMA GapsAre ==
  ASSUME NEW F, NEW T, NEW c, NEW z
  PROVE  z \in Blocks!GapsOf(F, T, c)
           <=> \E d \in Blocks!Directions, third \in DOMAIN F :
                 Blocks!IsGap(F, T, c, d, third) /\ z = Blocks!Gap(F, c, d, third)
<1> DEFINE S == {x \in Blocks!Directions \X (DOMAIN F) : Blocks!IsGap(F, T, c, x[1], x[2])}
<1>1. Blocks!GapsOf(F, T, c) = {Blocks!Gap(F, c, x[1], x[2]) : x \in S}
  BY DEF Blocks!GapsOf
<1>2. ASSUME NEW x \in S, z = Blocks!Gap(F, c, x[1], x[2])
      PROVE  \E d \in Blocks!Directions, third \in DOMAIN F :
               Blocks!IsGap(F, T, c, d, third) /\ z = Blocks!Gap(F, c, d, third)
  <2>1. x[1] \in Blocks!Directions /\ x[2] \in DOMAIN F
    OBVIOUS
  <2> QED
    BY <1>2, <2>1
<1>3. ASSUME NEW d \in Blocks!Directions, NEW third \in DOMAIN F,
             Blocks!IsGap(F, T, c, d, third), z = Blocks!Gap(F, c, d, third)
      PROVE  \E x \in S : z = Blocks!Gap(F, c, x[1], x[2])
  <2>1. <<d, third>> \in S
    BY <1>3
  <2> QED
    BY <1>3, <2>1
<1> HIDE DEF S
<1> QED
  BY <1>1, <1>2, <1>3

LEMMA GapsAlike ==
  ASSUME NEW F, NEW T, NEW n, NEW G, NEW U, NEW m, TruncatedTo(F, T, n, G, U, m),
         NEW c, c.lookback \in Nat \ {0}
  PROVE  {z \in Blocks!GapsOf(F, T, c) : z.third <= m} = Blocks!GapsOf(G, U, c)
<1>1. /\ DOMAIN F = 1 .. n /\ DOMAIN G = 1 .. m /\ n \in Nat /\ m \in Nat
      /\ \A k : k \in 1 .. m <=> k \in 1 .. n /\ k <= m
      /\ \A k \in 1 .. m : /\ G[k] = F[k] /\ U[k] = T[k]
                           /\ Blocks!CloseTime(U, k) = Blocks!CloseTime(T, k)
  BY PrefixFacts
<1>2. ASSUME NEW d \in Blocks!Directions, NEW third \in 1 .. m, third > 2
      PROVE  Blocks!Gap(F, c, d, third) = Blocks!Gap(G, c, d, third)
  <2>1. third - 2 \in 1 .. m
    BY <1>1, <1>2
  <2> QED
    BY <1>1, <2>1 DEF Blocks!Gap
<1>3. ASSUME NEW d \in Blocks!Directions, NEW third \in 1 .. m
      PROVE  Blocks!IsGap(F, T, c, d, third) <=> Blocks!IsGap(G, U, c, d, third)
  <2>1. CASE ~(third > 2)
    BY <2>1 DEF Blocks!IsGap
  <2>2. CASE third > 2
    <3>1. third - 2 \in 1 .. m /\ third - 1 \in 1 .. m
      BY <1>1, <2>2
    <3>2. Blocks!Contiguous(T, third) <=> Blocks!Contiguous(U, third)
      <4>1. \A i \in {third - 2, third - 1} : i \in 1 .. m /\ i + 1 \in 1 .. m
        BY <1>1, <3>1
      <4> QED
        BY <1>1, <4>1 DEF Blocks!Contiguous
    <3>3. Blocks!Displaced(F, c, third - 1) <=> Blocks!Displaced(G, c, third - 1)
      BY <3>1, DisplacedAlike
    <3> QED
      BY <1>2, <2>2, <3>2, <3>3 DEF Blocks!IsGap
  <2> QED
    BY <2>1, <2>2
<1>4. \A z : z \in Blocks!GapsOf(F, T, c)
        <=> \E d \in Blocks!Directions, third \in 1 .. n :
              Blocks!IsGap(F, T, c, d, third) /\ z = Blocks!Gap(F, c, d, third)
  BY <1>1, GapsAre
<1>5. \A z : z \in Blocks!GapsOf(G, U, c)
        <=> \E d \in Blocks!Directions, third \in 1 .. m :
              Blocks!IsGap(G, U, c, d, third) /\ z = Blocks!Gap(G, c, d, third)
  BY <1>1, GapsAre
<1>6. \A d, third : Blocks!Gap(F, c, d, third).third = third
  BY DEF Blocks!Gap
<1>7. \A d, third : Blocks!IsGap(F, T, c, d, third) => third > 2
  BY DEF Blocks!IsGap
<1>8. ASSUME NEW z \in Blocks!GapsOf(F, T, c), z.third <= m PROVE z \in Blocks!GapsOf(G, U, c)
  <2>1. PICK d \in Blocks!Directions : \E third \in 1 .. n :
          Blocks!IsGap(F, T, c, d, third) /\ z = Blocks!Gap(F, c, d, third)
    BY <1>4
  <2>2. PICK third \in 1 .. n :
          Blocks!IsGap(F, T, c, d, third) /\ z = Blocks!Gap(F, c, d, third)
    BY <2>1
  <2>3. third \in 1 .. m /\ third > 2
    BY <1>1, <1>6, <1>7, <1>8, <2>2
  <2> QED
    BY <1>2, <1>3, <1>5, <2>2, <2>3
<1>9. ASSUME NEW z \in Blocks!GapsOf(G, U, c)
      PROVE  z \in Blocks!GapsOf(F, T, c) /\ z.third <= m
  <2>1. PICK d \in Blocks!Directions : \E third \in 1 .. m :
          Blocks!IsGap(G, U, c, d, third) /\ z = Blocks!Gap(G, c, d, third)
    BY <1>5
  <2>2. PICK third \in 1 .. m :
          Blocks!IsGap(G, U, c, d, third) /\ z = Blocks!Gap(G, c, d, third)
    BY <2>1
  <2>3. Blocks!IsGap(F, T, c, d, third) /\ third \in 1 .. n /\ third <= m
    BY <1>1, <1>3, <2>2
  <2>4. z = Blocks!Gap(F, c, d, third)
    BY <1>2, <1>7, <2>2, <2>3
  <2> QED
    BY <1>4, <1>6, <2>3, <2>4
<1> QED
  BY <1>8, <1>9

LEMMA FillsAlike ==
  ASSUME NEW F, NEW T, NEW n, NEW G, NEW U, NEW m, TruncatedTo(F, T, n, G, U, m),
         NEW c, NEW z, NEW instant
  PROVE  Blocks!UpTo(Blocks!TrackZoneFill(F, T, c, z, instant), m)
           = Blocks!TrackZoneFill(G, U, c, z, instant)
<1> DEFINE from(H) == Blocks!BarsFrom(H, instant)
           depth(H, k) == Blocks!Depth(z, Blocks!Reach(z, H[k]))
           deep(H, W) == {k \in W : /\ depth(H, k) > 0
                                    /\ \A i \in W : i < k => depth(H, i) < depth(H, k)}
           full(H, W) == {k \in deep(H, W) : Blocks!Fills(z, Blocks!Reach(z, H[k]), c.full)}
           emitted(H, W) == {k \in deep(H, W) :
                               /\ Blocks!Enters(z, Blocks!Reach(z, H[k]), c.partial) \/ k \in full(H, W)
                               /\ \A i \in full(H, W) : k <= i}
           record(H, W, k) == [zone |-> z, bar |-> k, price |-> Blocks!Reach(z, H[k]),
                               after |-> IF k \in full(H, W) THEN "mitigated" ELSE "partially_filled"]
           W == from(T)
           V == from(U)
<1>1. /\ Blocks!TrackZoneFill(F, T, c, z, instant) = {record(F, W, k) : k \in emitted(F, W)}
      /\ Blocks!TrackZoneFill(G, U, c, z, instant) = {record(G, V, k) : k \in emitted(G, V)}
  BY DEF Blocks!TrackZoneFill
<1>2. \A k : k \in V <=> k \in W /\ k <= m
  BY PrefixFacts DEF Blocks!BarsFrom
<1>3. \A k \in V : G[k] = F[k]
  BY PrefixFacts DEF Blocks!BarsFrom
<1>4. (\A k \in W : k \in Nat) /\ (\A k \in V : k \in Nat) /\ m \in Nat
  BY PrefixFacts DEF Blocks!BarsFrom
<1> HIDE DEF from, W, V
<1>5. \A k : k \in deep(G, V) <=> k \in deep(F, W) /\ k <= m
  <2>1. ASSUME NEW k \in V
        PROVE  (\A i \in V : i < k => depth(G, i) < depth(G, k))
                 <=> (\A i \in W : i < k => depth(F, i) < depth(F, k))
    <3>1. \A i : i \in V /\ i < k <=> i \in W /\ i < k
      BY <1>2, <1>4
    <3>2. \A i \in V : depth(G, i) = depth(F, i)
      BY <1>3
    <3> HIDE DEF depth
    <3> QED
      BY <3>1, <3>2
  <2>2. \A k \in V : depth(G, k) = depth(F, k)
    BY <1>3
  <2> HIDE DEF depth
  <2> QED
    BY <1>2, <2>1, <2>2
<1>6. \A k : k \in full(G, V) <=> k \in full(F, W) /\ k <= m
  <2>1. \A k \in deep(G, V) : k \in V
    OBVIOUS
  <2> HIDE DEF deep
  <2> QED
    BY <1>3, <1>5, <2>1
<1>7. \A k : k \in emitted(G, V) <=> k \in emitted(F, W) /\ k <= m
  <2>1. \A k \in deep(G, V) : k \in V
    OBVIOUS
  <2>2. \A i \in full(F, W) : i \in Nat
    BY <1>4
  <2>3. \A k \in V : (\A i \in full(G, V) : k <= i) <=> (\A i \in full(F, W) : k <= i)
    <3> HIDE DEF full
    <3> QED
      BY <1>2, <1>4, <1>6, <2>2
  <2> HIDE DEF deep, full
  <2> QED
    BY <1>3, <1>5, <1>6, <2>1, <2>3
<1>8. \A k \in emitted(G, V) : record(G, V, k) = record(F, W, k)
  <2> TAKE k \in emitted(G, V)
  <2>1. k \in V /\ k <= m
    BY <1>2
  <2>2. k \in full(G, V) <=> k \in full(F, W)
    BY <1>6, <2>1
  <2> HIDE DEF full, emitted
  <2> QED
    BY <1>3, <2>1, <2>2
<1>9. \A k : record(F, W, k).bar = k
  OBVIOUS
<1> HIDE DEF record, emitted
<1>10. \A u : u \in Blocks!UpTo(Blocks!TrackZoneFill(F, T, c, z, instant), m)
               <=> u \in Blocks!TrackZoneFill(G, U, c, z, instant)
  BY <1>1, <1>7, <1>8, <1>9 DEF Blocks!UpTo
<1> QED
  BY <1>10 DEF Blocks!UpTo

\* The gaps of a unicorn are those of a block.
LEMMA SameGaps ==
  ASSUME NEW F, NEW T, NEW c
  PROVE  Joined!GapsOf(F, T, c) = Blocks!GapsOf(F, T, c)
<1>1. \A f : Joined!SumFunction(f) = Blocks!SumFunction(f)
  BY DEF Joined!SumFunction, Blocks!SumFunction, Joined!SumFunctionOnSet, Blocks!SumFunctionOnSet,
         Joined!FoldFunctionOnSet, Blocks!FoldFunctionOnSet, Joined!MapThenFoldSet,
         Blocks!MapThenFoldSet
<1>2. \A bar : Joined!BarRange(bar) = Blocks!BarRange(bar)
  BY DEF Joined!BarRange, Blocks!BarRange
<1>3. \A i : Joined!Displaced(F, c, i) <=> Blocks!Displaced(F, c, i)
  BY <1>1, <1>2 DEF Joined!Displaced, Blocks!Displaced
<1>4. \A third : Joined!Contiguous(T, third) <=> Blocks!Contiguous(T, third)
  BY SameZones DEF Joined!Contiguous, Blocks!Contiguous
<1>5. \A d, third : Joined!Gap(F, c, d, third) = Blocks!Gap(F, c, d, third)
  BY SameZones DEF Joined!Gap, Blocks!Gap
<1>6. \A d, third : Joined!IsGap(F, T, c, d, third) <=> Blocks!IsGap(F, T, c, d, third)
  BY <1>3, <1>4, <1>5 DEF Joined!IsGap, Blocks!IsGap
<1>7. Joined!Directions = Blocks!Directions
  BY SameZones, SameDirections
<1> QED
  BY <1>5, <1>6, <1>7 DEF Joined!GapsOf, Blocks!GapsOf

----------------------------------------------------------------------------
\* A run that ends before the last bar of a frame is one of any longer frame.
LEMMA RunsAlike ==
  ASSUME NEW F, NEW T, NEW n, NEW G, NEW U, NEW m, TruncatedTo(F, T, n, G, U, m),
         NEW c, NEW d, NEW r
  PROVE  /\ r \in Blocks!RunsOf(F, T, c, d) /\ r[2] < m => r \in Blocks!RunsOf(G, U, c, d)
         /\ r \in Blocks!RunsOf(G, U, c, d) /\ r[2] < m => r \in Blocks!RunsOf(F, T, c, d)
         /\ r \in Blocks!RunsOf(G, U, c, d) => r[1] \in 1 .. m /\ r[2] \in 1 .. m /\ r[1] <= r[2]
         /\ r \in Blocks!RunsOf(F, T, c, d) => r[1] \in 1 .. n /\ r[2] \in 1 .. n /\ r[1] <= r[2]
<1>1. /\ DOMAIN F = 1 .. n /\ DOMAIN G = 1 .. m /\ n \in Nat /\ m \in Nat /\ m <= n
      /\ \A k : k \in 1 .. m <=> k \in 1 .. n /\ k <= m
      /\ \A k \in 1 .. m : /\ G[k] = F[k] /\ U[k] = T[k]
                           /\ Blocks!CloseTime(U, k) = Blocks!CloseTime(T, k)
  BY PrefixFacts
<1>2. ASSUME NEW i \in Int, i <= m
      PROVE  Blocks!Continues(F, T, c, d, i) <=> Blocks!Continues(G, U, c, d, i)
  <2>1. {i - 1, i} \subseteq 1 .. n <=> {i - 1, i} \subseteq 1 .. m
    BY <1>1, <1>2
  <2>2. ASSUME {i - 1, i} \subseteq 1 .. m
        PROVE  /\ G[i] = F[i] /\ G[i - 1] = F[i - 1] /\ U[i] = T[i]
               /\ Blocks!CloseTime(U, i - 1) = Blocks!CloseTime(T, i - 1)
    BY <1>1, <2>2
  <2> QED
    BY <1>1, <2>1, <2>2 DEF Blocks!Continues
<1>3. ASSUME r[1] \in 1 .. m, r[2] \in 1 .. m, r[1] <= r[2], r[2] < m
      PROVE  /\ Blocks!Delivers(d, F[r[1]]) <=> Blocks!Delivers(d, G[r[1]])
             /\ Blocks!Continues(F, T, c, d, r[1]) <=> Blocks!Continues(G, U, c, d, r[1])
             /\ Blocks!Continues(F, T, c, d, r[2] + 1) <=> Blocks!Continues(G, U, c, d, r[2] + 1)
             /\ \A i \in (r[1] + 1) .. r[2] :
                  Blocks!Continues(F, T, c, d, i) <=> Blocks!Continues(G, U, c, d, i)
  <2>1. r[1] \in Int /\ r[1] <= m /\ r[2] + 1 \in Int /\ r[2] + 1 <= m
    BY <1>1, <1>3
  <2>2. \A i \in (r[1] + 1) .. r[2] : i \in Int /\ i <= m
    BY <1>1, <1>3
  <2>3. F[r[1]] = G[r[1]]
    BY <1>1, <1>3
  <2> QED
    BY <1>2, <2>1, <2>2, <2>3
<1>4. /\ r \in Blocks!RunsOf(F, T, c, d) <=>
           /\ r \in (1 .. n) \X (1 .. n) /\ r[1] <= r[2] /\ Blocks!Delivers(d, F[r[1]])
           /\ \A i \in (r[1] + 1) .. r[2] : Blocks!Continues(F, T, c, d, i)
           /\ ~Blocks!Continues(F, T, c, d, r[1]) /\ ~Blocks!Continues(F, T, c, d, r[2] + 1)
      /\ r \in Blocks!RunsOf(G, U, c, d) <=>
           /\ r \in (1 .. m) \X (1 .. m) /\ r[1] <= r[2] /\ Blocks!Delivers(d, G[r[1]])
           /\ \A i \in (r[1] + 1) .. r[2] : Blocks!Continues(G, U, c, d, i)
           /\ ~Blocks!Continues(G, U, c, d, r[1]) /\ ~Blocks!Continues(G, U, c, d, r[2] + 1)
  BY <1>1 DEF Blocks!RunsOf
<1>5. ASSUME r \in (1 .. n) \X (1 .. n), r[1] <= r[2], r[2] < m
      PROVE  r \in (1 .. m) \X (1 .. m)
  <2>1. r[1] \in 1 .. n /\ r[2] \in 1 .. n /\ r = <<r[1], r[2]>>
    BY <1>5
  <2>2. r[1] \in 1 .. m /\ r[2] \in 1 .. m
    BY <1>1, <1>5, <2>1
  <2> QED
    BY <2>1, <2>2
<1>6. ASSUME r \in (1 .. m) \X (1 .. m)
      PROVE  r \in (1 .. n) \X (1 .. n) /\ r[1] \in 1 .. m /\ r[2] \in 1 .. m
  <2>1. r[1] \in 1 .. m /\ r[2] \in 1 .. m /\ r = <<r[1], r[2]>>
    BY <1>6
  <2>2. r[1] \in 1 .. n /\ r[2] \in 1 .. n
    BY <1>1, <2>1
  <2> QED
    BY <2>1, <2>2
<1>7. r \in (1 .. n) \X (1 .. n) => r[1] \in 1 .. n /\ r[2] \in 1 .. n
  OBVIOUS
<1>8. ASSUME r \in Blocks!RunsOf(F, T, c, d), r[2] < m PROVE r \in Blocks!RunsOf(G, U, c, d)
  <2>1. r \in (1 .. m) \X (1 .. m)
    BY <1>4, <1>5, <1>8
  <2> QED
    BY <1>3, <1>4, <1>6, <1>8, <2>1
<1>9. ASSUME r \in Blocks!RunsOf(G, U, c, d), r[2] < m PROVE r \in Blocks!RunsOf(F, T, c, d)
  BY <1>3, <1>4, <1>6, <1>9
<1> QED
  BY <1>4, <1>6, <1>7, <1>8, <1>9

\* What is asked of a block that ends at or before bar m, in both frames.
LEMMA CandidateAlike ==
  ASSUME NEW F, NEW T, NEW n, NEW G, NEW U, NEW m, TruncatedTo(F, T, n, G, U, m),
         NEW c, NEW d, NEW r, r[1] \in 1 .. m, r[2] \in 1 .. m
  PROVE  Blocks!Candidate(F, c, d, r) = Blocks!Candidate(G, c, d, r)
<1>1. \A k \in 1 .. m : G[k] = F[k]
  BY PrefixFacts
<1>2. ASSUME NEW first \in {r[1], r[2]}
      PROVE  /\ Blocks!ZoneTop(F, c, first .. r[2]) = Blocks!ZoneTop(G, c, first .. r[2])
             /\ Blocks!ZoneBottom(F, c, first .. r[2]) = Blocks!ZoneBottom(G, c, first .. r[2])
  <2>1. \A i \in first .. r[2] : i \in 1 .. m
    <3>1. m \in Nat /\ first \in 1 .. m
      BY PrefixFacts
    <3> QED
      BY <3>1
  <2> DEFINE o == Blocks!Bounded(c)
             S == first .. r[2]
  <2> HIDE DEF o, S
  <2>2. \A i \in S : F[i] = G[i]
    BY <1>1, <2>1 DEF S
  <2>3. /\ {Blocks!Upper(o, F[i]) : i \in S} = {Blocks!Upper(o, G[i]) : i \in S}
        /\ {Blocks!Lower(o, F[i]) : i \in S} = {Blocks!Lower(o, G[i]) : i \in S}
    BY <2>2
  <2> QED
    BY <2>3 DEF Blocks!ZoneTop, Blocks!ZoneBottom, o, S
<1> QED
  BY <1>2 DEF Blocks!Candidate

LEMMA ClosesAlike ==
  ASSUME NEW F, NEW T, NEW n, NEW G, NEW U, NEW m, TruncatedTo(F, T, n, G, U, m), NEW c, NEW b
  PROVE  \A k : k \in Blocks!ClosesThrough(G, c, b) <=> k \in Blocks!ClosesThrough(F, c, b) /\ k <= m
<1>1. /\ DOMAIN F = 1 .. n /\ DOMAIN G = 1 .. m
      /\ \A k : k \in 1 .. m <=> k \in 1 .. n /\ k <= m
      /\ \A k \in 1 .. m : G[k] = F[k]
  BY PrefixFacts
<1> QED
  BY <1>1 DEF Blocks!ClosesThrough

LEMMA RelatedAlike ==
  ASSUME NEW F, NEW T, NEW n, NEW G, NEW U, NEW m, TruncatedTo(F, T, n, G, U, m),
         NEW c, c.gaps.lookback \in Nat \ {0}, NEW b, NEW k \in 1 .. m
  PROVE  Blocks!RelatedGap(F, T, c, b, k) = Blocks!RelatedGap(G, U, c, b, k)
<1> DEFINE leg(H, V) == {z \in Blocks!GapsOf(H, V, c.gaps) :
                           z.direction = b.direction /\ b.last <= z.third /\ z.third <= k}
<1>1. {z \in Blocks!GapsOf(F, T, c.gaps) : z.third <= m} = Blocks!GapsOf(G, U, c.gaps)
  BY GapsAlike
<1>2. ASSUME NEW z \in Blocks!GapsOf(F, T, c.gaps), z.third <= k PROVE z.third <= m
  <2>1. FrameOf(F, T, n) /\ m \in Nat
    BY PrefixFacts
  <2>2. z.third \in 1 .. n
    BY <2>1, SameGaps, GapIs
  <2> QED
    BY <1>2, <2>1, <2>2
<1>3. leg(F, T) = leg(G, U)
  BY <1>1, <1>2
<1> QED
  BY <1>3 DEF Blocks!RelatedGap

\* A longer frame adds the blocks its later bars confirm.
LEMMA BlocksAlike ==
  ASSUME NEW F, NEW T, NEW n, NEW G, NEW U, NEW m, TruncatedTo(F, T, n, G, U, m),
         NEW c, c.gaps.lookback \in Nat \ {0}, c.lookback \in Nat \ {0}
  PROVE  {b \in Blocks!BlocksOf(F, T, c) : b.bar <= m} = Blocks!BlocksOf(G, U, c)
<1>1. /\ FrameOf(F, T, n) /\ FrameOf(G, U, m) /\ n \in Nat /\ m \in Nat /\ m <= n
      /\ \A k : k \in 1 .. m <=> k \in 1 .. n /\ k <= m
  BY PrefixFacts
\* The same candidate is confirmed alike.
<1>2. ASSUME NEW a, a.last \in 1 .. m, Blocks!ClosesThrough(F, c, a) # {},
             Blocks!Confirmed(F, T, c, a).bar <= m \/ Blocks!ClosesThrough(G, c, a) # {}
      PROVE  /\ Blocks!ClosesThrough(G, c, a) # {}
             /\ Blocks!Confirmed(G, U, c, a) = Blocks!Confirmed(F, T, c, a)
             /\ Blocks!Confirmed(F, T, c, a).bar \in a.last + 1 .. m
             /\ Blocks!Qualifies(F, c, Blocks!Confirmed(F, T, c, a))
                  <=> Blocks!Qualifies(G, c, Blocks!Confirmed(G, U, c, a))
  <2> DEFINE x == Blocks!Confirmed(F, T, c, a)
             y == Blocks!Confirmed(G, U, c, a)
  <2>1. a.last \in 1 .. n
    BY <1>1, <1>2
  <2>2. /\ x.bar \in Blocks!ClosesThrough(F, c, a) /\ x.bar \in a.last + 1 .. n
        /\ \A k \in Blocks!ClosesThrough(F, c, a) : x.bar <= k
    BY <1>1, <1>2, <2>1, ConfirmedIs
  <2>3. \A k : k \in Blocks!ClosesThrough(G, c, a) <=> k \in Blocks!ClosesThrough(F, c, a) /\ k <= m
    BY ClosesAlike
  <2> DEFINE H == Blocks!ClosesThrough(F, c, a)
             K == Blocks!ClosesThrough(G, c, a)
  <2>4. K # {} => /\ y.bar \in K /\ y.bar \in a.last + 1 .. m
                  /\ \A k \in K : y.bar <= k
    BY <1>1, <1>2, ConfirmedIs
  <2>5. /\ x.direction = a.direction /\ x.first = a.first /\ x.last = a.last /\ x.top = a.top
        /\ x.bottom = a.bottom /\ x.gap = Blocks!RelatedGap(F, T, c, a, x.bar)
        /\ y.direction = a.direction /\ y.first = a.first /\ y.last = a.last /\ y.top = a.top
        /\ y.bottom = a.bottom /\ y.gap = Blocks!RelatedGap(G, U, c, a, y.bar)
        /\ x = [direction |-> x.direction, first |-> x.first, last |-> x.last, top |-> x.top,
                bottom |-> x.bottom, bar |-> x.bar, gap |-> x.gap]
        /\ y = [direction |-> y.direction, first |-> y.first, last |-> y.last, top |-> y.top,
                bottom |-> y.bottom, bar |-> y.bar, gap |-> y.gap]
    BY DEF Blocks!Confirmed
  <2>6. x.bar <= m \/ K # {}
    BY <1>2
  <2> HIDE DEF x, y, H, K
  <2>7. /\ x.bar \in H /\ x.bar \in a.last + 1 .. n /\ \A k \in H : x.bar <= k
        /\ \A k : k \in K <=> k \in H /\ k <= m
    BY <2>2, <2>3 DEF x, H, K
  <2>8. a.last \in Nat /\ x.bar \in Nat
    BY <1>2, <2>7
  <2>9. K # {} /\ y.bar \in K /\ y.bar \in a.last + 1 .. m /\ \A k \in K : y.bar <= k
    BY <2>4, <2>6, <2>7
  <2>10. y.bar \in Nat /\ y.bar <= m /\ x.bar <= y.bar
    BY <1>1, <2>7, <2>8, <2>9
  <2>11. x.bar \in K
    BY <1>1, <2>7, <2>8, <2>10
  <2>12. x.bar = y.bar
    BY <2>8, <2>9, <2>10, <2>11
  <2>13. x.bar \in 1 .. m /\ x.bar \in a.last + 1 .. m
    BY <1>1, <2>8, <2>9, <2>12
  <2>14. Blocks!RelatedGap(F, T, c, a, x.bar) = Blocks!RelatedGap(G, U, c, a, x.bar)
    BY <2>13, RelatedAlike
  <2>15. x = y
    BY <2>5, <2>12, <2>14
  <2>16. Blocks!Qualifies(F, c, x) <=> Blocks!Qualifies(G, c, x)
    BY <2>13, DisplacedAlike DEF Blocks!Qualifies
  <2> QED
    BY <2>9, <2>13, <2>15, <2>16 DEF x, y, K
<1>3. ASSUME NEW b \in Blocks!BlocksOf(F, T, c), b.bar <= m
      PROVE  b \in Blocks!BlocksOf(G, U, c)
  <2>1. PICK d \in Directions : \E r \in Blocks!RunsOf(F, T, c, Opposite(d)) :
          LET a == Blocks!Candidate(F, c, d, r) IN
          /\ a.top > a.bottom /\ Blocks!ClosesThrough(F, c, a) # {}
          /\ b = Blocks!Confirmed(F, T, c, a) /\ Blocks!Qualifies(F, c, b)
    BY BlocksAre
  <2>2. PICK r \in Blocks!RunsOf(F, T, c, Opposite(d)) :
          LET a == Blocks!Candidate(F, c, d, r) IN
          /\ a.top > a.bottom /\ Blocks!ClosesThrough(F, c, a) # {}
          /\ b = Blocks!Confirmed(F, T, c, a) /\ Blocks!Qualifies(F, c, b)
    BY <2>1
  <2> DEFINE a == Blocks!Candidate(F, c, d, r)
  <2>3. /\ a.top > a.bottom /\ Blocks!ClosesThrough(F, c, a) # {}
        /\ b = Blocks!Confirmed(F, T, c, a) /\ Blocks!Qualifies(F, c, b)
    BY <2>2
  <2>4. a.last = r[2] /\ a.last \in 1 .. n
    BY <1>1, CandidateIs
  <2> HIDE DEF a
  <2>5. b.bar \in a.last + 1 .. n
    BY <1>1, <2>3, <2>4, ConfirmedIs
  <2>6. a.last \in 1 .. m /\ r[2] < m
    BY <1>1, <1>3, <2>4, <2>5
  <2>7. r \in Blocks!RunsOf(G, U, c, Opposite(d))
    BY <2>6, RunsAlike
  <2>8. a = Blocks!Candidate(G, c, d, r)
    <3>1. r[1] \in 1 .. m /\ r[2] \in 1 .. m
      BY <2>7, RunsAlike
    <3> QED
      BY <3>1, CandidateAlike DEF a
  <2>9. /\ Blocks!ClosesThrough(G, c, a) # {} /\ b = Blocks!Confirmed(G, U, c, a)
        /\ Blocks!Qualifies(G, c, b)
    BY <1>2, <1>3, <2>3, <2>6
  <2>10. \E e \in Directions : \E q \in Blocks!RunsOf(G, U, c, Opposite(e)) :
           LET f == Blocks!Candidate(G, c, e, q) IN
           /\ f.top > f.bottom /\ Blocks!ClosesThrough(G, c, f) # {}
           /\ b = Blocks!Confirmed(G, U, c, f) /\ Blocks!Qualifies(G, c, b)
    BY <2>3, <2>7, <2>8, <2>9
  <2> QED
    BY <2>10, BlocksAre
<1>4. ASSUME NEW b \in Blocks!BlocksOf(G, U, c)
      PROVE  b \in Blocks!BlocksOf(F, T, c) /\ b.bar <= m
  <2>1. PICK d \in Directions : \E r \in Blocks!RunsOf(G, U, c, Opposite(d)) :
          LET a == Blocks!Candidate(G, c, d, r) IN
          /\ a.top > a.bottom /\ Blocks!ClosesThrough(G, c, a) # {}
          /\ b = Blocks!Confirmed(G, U, c, a) /\ Blocks!Qualifies(G, c, b)
    BY BlocksAre
  <2>2. PICK r \in Blocks!RunsOf(G, U, c, Opposite(d)) :
          LET a == Blocks!Candidate(G, c, d, r) IN
          /\ a.top > a.bottom /\ Blocks!ClosesThrough(G, c, a) # {}
          /\ b = Blocks!Confirmed(G, U, c, a) /\ Blocks!Qualifies(G, c, b)
    BY <2>1
  <2> DEFINE a == Blocks!Candidate(G, c, d, r)
  <2>3. /\ a.top > a.bottom /\ Blocks!ClosesThrough(G, c, a) # {}
        /\ b = Blocks!Confirmed(G, U, c, a) /\ Blocks!Qualifies(G, c, b)
    BY <2>2
  <2>4. a.last = r[2] /\ a.last \in 1 .. m
    BY <1>1, CandidateIs
  <2>5. a = Blocks!Candidate(F, c, d, r)
    <3>1. r[1] \in 1 .. m /\ r[2] \in 1 .. m
      BY RunsAlike
    <3> QED
      BY <3>1, CandidateAlike
  <2> HIDE DEF a
  <2>6. b.bar \in a.last + 1 .. m
    BY <1>1, <2>3, <2>4, ConfirmedIs
  <2>7. r[2] < m
    BY <1>1, <2>4, <2>6
  <2>8. r \in Blocks!RunsOf(F, T, c, Opposite(d))
    BY <2>7, RunsAlike
  <2>9. Blocks!ClosesThrough(F, c, a) # {}
    BY <2>3, ClosesAlike
  <2>10. b = Blocks!Confirmed(F, T, c, a) /\ Blocks!Qualifies(F, c, b)
    BY <1>2, <2>3, <2>4, <2>9
  <2>11. b \in Blocks!BlocksOf(F, T, c)
    <3>1. \E e \in Directions : \E q \in Blocks!RunsOf(F, T, c, Opposite(e)) :
            LET f == Blocks!Candidate(F, c, e, q) IN
            /\ f.top > f.bottom /\ Blocks!ClosesThrough(F, c, f) # {}
            /\ b = Blocks!Confirmed(F, T, c, f) /\ Blocks!Qualifies(F, c, b)
      BY <2>3, <2>5, <2>8, <2>9, <2>10
    <3> QED
      BY <3>1, BlocksAre
  <2> QED
    BY <1>1, <2>4, <2>6, <2>11
<1> QED
  BY <1>3, <1>4

----------------------------------------------------------------------------
\* Of a set that grows by later bars the least stays.
LEMMA LeastAlike ==
  ASSUME NEW S, NEW K, S \subseteq Nat, NEW m \in Nat, \A k : k \in K <=> k \in S /\ k <= m
  PROVE  /\ S # {} => Min(S) \in S /\ \A y \in S : Min(S) <= y
         /\ K # {} => S # {} /\ Min(S) = Min(K) /\ Min(S) \in K
         /\ S # {} /\ Min(S) <= m => K # {}
<1>1. ASSUME S # {} PROVE Min(S) \in S /\ \A y \in S : Min(S) <= y
  <2>1. PICK x \in S : \A y \in S : x <= y
    BY <1>1, HasLeast
  <2> QED
    BY <2>1, LeastIs
<1>2. ASSUME K # {} PROVE S # {} /\ Min(S) = Min(K) /\ Min(S) \in K
  <2>1. K \subseteq Nat /\ S # {}
    BY <1>2
  <2>2. PICK x \in K : \A y \in K : x <= y
    BY <1>2, <2>1, HasLeast
  <2>3. Min(S) \in S /\ \A y \in S : Min(S) <= y
    BY <1>1, <2>1
  <2>4. Min(S) \in K
    <3>1. x \in S /\ x <= m /\ Min(S) <= x /\ x \in Nat /\ Min(S) \in Nat
      BY <2>1, <2>2, <2>3
    <3>2. Min(S) <= m
      BY <3>1
    <3> QED
      BY <2>3, <3>2
  <2>5. Min(K) = Min(S)
    <3>1. K \in SUBSET Int /\ \A y \in K : Min(S) <= y
      BY <2>1, <2>3
    <3> QED
      BY <2>4, <3>1, LeastIs
  <2> QED
    BY <2>1, <2>4, <2>5
<1> QED
  BY <1>1, <1>2

\* What BreakerDetector.detect returns for the first bars F of R and their breaks B.
FailuresOf(R, F, T, o, b) ==
  IF o.mode = "close" THEN Blocks!ClosesAgainst(F, T, b)
  ELSE {i \in Blocks!BarsFrom(T, Blocks!CloseTime(T, b.bar)) :
          LET out == Opposite(b.direction)
          IN  Beyond(out, Extreme(R[i], out), Blocks!FarEdge(b))}

MatchesOf(o, B, k, b, f) ==
  {s \in Range(ObservableBreaks(B, k)) :
     s.direction = Opposite(b.direction) /\ s.bar \in f .. (f + o.window)}

FlipOf(o, B, k, b, f) ==
  [source |-> b, direction |-> Opposite(b.direction), top |-> b.top, bottom |-> b.bottom,
   failure |-> f,
   bar |-> Max({b.bar, IF o.requireStructure
                     THEN Min({s.bar : s \in MatchesOf(o, B, k, b, f)}) ELSE f})]

FlipsOf(R, F, T, o, B, k) ==
  LET failed   == {b \in Blocks!BlocksOf(F, T, o.blocks) : FailuresOf(R, F, T, o, b) # {}}
      first(b) == Min(FailuresOf(R, F, T, o, b))
      promoted == {b \in failed : o.requireStructure => MatchesOf(o, B, k, b, first(b)) # {}}
  IN  {FlipOf(o, B, k, b, first(b)) : b \in promoted}

LEMMA FailuresAlike ==
  ASSUME NEW F, NEW T, NEW n, NEW G, NEW U, NEW m, TruncatedTo(F, T, n, G, U, m),
         NEW R, NEW o, NEW b, b.bar \in 1 .. m
  PROVE  /\ FailuresOf(R, F, T, o, b) \subseteq b.bar + 1 .. n
         /\ \A k : k \in FailuresOf(R, G, U, o, b) <=> k \in FailuresOf(R, F, T, o, b) /\ k <= m
<1> DEFINE W == Blocks!BarsFrom(T, Blocks!CloseTime(T, b.bar))
           V == Blocks!BarsFrom(U, Blocks!CloseTime(U, b.bar))
<1>1. /\ FrameOf(F, T, n) /\ FrameOf(G, U, m) /\ n \in Nat /\ m \in Nat /\ m <= n
      /\ \A k \in 1 .. m : G[k] = F[k]
  BY PrefixFacts
<1>2. b.bar \in 1 .. n
  BY <1>1
<1>3. W = b.bar + 1 .. n /\ V = b.bar + 1 .. m
  BY <1>1, <1>2, FromIs
<1> HIDE DEF W, V
<1>4. \A k : k \in V <=> k \in W /\ k <= m
  BY <1>1, <1>3
<1>5. \A k \in V : G[k] = F[k]
  BY <1>1, <1>3
<1>6. CASE o.mode = "close"
  <2>1. /\ FailuresOf(R, F, T, o, b)
             = {k \in W : Blocks!Beyond(Blocks!Opposite(b.direction), F[k].close, Blocks!FarEdge(b))}
        /\ FailuresOf(R, G, U, o, b)
             = {k \in V : Blocks!Beyond(Blocks!Opposite(b.direction), G[k].close, Blocks!FarEdge(b))}
    BY <1>6 DEF FailuresOf, Blocks!ClosesAgainst, W, V
  <2> QED
    BY <1>3, <1>4, <1>5, <2>1
<1>7. CASE o.mode # "close"
  <2> DEFINE P(k) == Beyond(Opposite(b.direction), Extreme(R[k], Opposite(b.direction)),
                            Blocks!FarEdge(b))
  <2>1. /\ FailuresOf(R, F, T, o, b) = {k \in W : P(k)}
        /\ FailuresOf(R, G, U, o, b) = {k \in V : P(k)}
    BY <1>7 DEF FailuresOf, W, V
  <2> HIDE DEF P
  <2> QED
    BY <1>3, <1>4, <2>1
<1> QED
  BY <1>6, <1>7

\* The breaks C of n bars extend the breaks B of the first m.
GrowsTo(R, e, B, m, C, n) ==
  Recorded(R, e, B, m) /\ Recorded(R, e, C, n) /\ Extends(C, B, m) /\ m <= n

LEMMA MatchesAlike ==
  ASSUME NEW R, NEW e, NEW B, NEW m, NEW C, NEW n, GrowsTo(R, e, B, m, C, n),
         NEW o, o.window \in Nat, NEW b, NEW f \in Nat
  PROVE  /\ \A s \in MatchesOf(o, C, n, b, f) : s.bar \in f .. n
         /\ \A s : s \in MatchesOf(o, B, m, b, f) <=> s \in MatchesOf(o, C, n, b, f) /\ s.bar <= m
<1>1. /\ B \in Seq(BreakRecords) /\ C \in Seq(BreakRecords) /\ m \in Nat /\ n \in Nat /\ m <= n
      /\ \A i \in DOMAIN B : B[i].bar <= m /\ B[i].bar \in Nat
      /\ \A i \in DOMAIN C : C[i].bar <= n /\ C[i].bar \in Nat
  BY DEF GrowsTo, Recorded, BeyondLevel
<1>2. /\ \A i \in DOMAIN B : i \in DOMAIN C /\ C[i] = B[i]
      /\ \A i \in DOMAIN C : C[i].bar <= m => i \in DOMAIN B
  <2>1. /\ DOMAIN B = 1 .. Len(B) /\ DOMAIN C = 1 .. Len(C) /\ Len(B) \in Nat /\ Len(C) \in Nat
        /\ Len(B) <= Len(C)
    BY <1>1 DEF GrowsTo, Extends
  <2> QED
    BY <1>1, <2>1 DEF GrowsTo, Extends
<1>3. /\ \A s : s \in Range(ObservableBreaks(B, m)) <=> \E i \in DOMAIN B : B[i].bar <= m /\ s = B[i]
      /\ \A s : s \in Range(ObservableBreaks(C, n)) <=> \E i \in DOMAIN C : C[i].bar <= n /\ s = C[i]
  BY ObservableAre
<1>4. \A s : s \in Range(ObservableBreaks(B, m)) <=> s \in Range(ObservableBreaks(C, n)) /\ s.bar <= m
  BY <1>1, <1>2, <1>3
<1>5. \A s \in Range(ObservableBreaks(C, n)) : s.bar \in Nat /\ s.bar <= n
  BY <1>1, <1>3
<1>6. \A s \in MatchesOf(o, C, n, b, f) : s.bar \in f .. n
  <2>1. \A s \in MatchesOf(o, C, n, b, f) :
          s \in Range(ObservableBreaks(C, n)) /\ s.bar \in f .. (f + o.window)
    BY DEF MatchesOf
  <2> QED
    BY <1>1, <1>5, <2>1
<1> QED
  BY <1>4, <1>6 DEF MatchesOf

\* A breaker of the first m bars is one of any longer frame, and the breaker a
\* longer frame adds is confirmed later: b is its source and f fails it first.
LEMMA FlipAlike ==
  ASSUME NEW F, NEW T, NEW n, NEW G, NEW U, NEW m, TruncatedTo(F, T, n, G, U, m),
         NEW R, NEW e, NEW B, NEW C, GrowsTo(R, e, B, m, C, n),
         NEW o, o.window \in Nat, NEW b, b.bar \in 1 .. m,
         FailuresOf(R, F, T, o, b) # {}
  PROVE  LET f == Min(FailuresOf(R, F, T, o, b))
             x == FlipOf(o, C, n, b, f)
             y == FlipOf(o, B, m, b, f)
             X == o.requireStructure => MatchesOf(o, C, n, b, f) # {}
             Y == o.requireStructure => MatchesOf(o, B, m, b, f) # {}
         IN  /\ X => x.bar \in b.bar .. n
             /\ X /\ x.bar <= m => FailuresOf(R, G, U, o, b) # {} /\ Y
             /\ FailuresOf(R, G, U, o, b) # {} =>
                  /\ Min(FailuresOf(R, G, U, o, b)) = f
                  /\ Y => X /\ x = y /\ x.bar <= m
<1> DEFINE S == FailuresOf(R, F, T, o, b)
           K == FailuresOf(R, G, U, o, b)
           f == Min(S)
           x == FlipOf(o, C, n, b, f)
           y == FlipOf(o, B, m, b, f)
           MC == MatchesOf(o, C, n, b, f)
           MB == MatchesOf(o, B, m, b, f)
           SC == {s.bar : s \in MC}
           SB == {s.bar : s \in MB}
           X == o.requireStructure => MC # {}
           Y == o.requireStructure => MB # {}
           atC == IF o.requireStructure THEN Min(SC) ELSE f
           atB == IF o.requireStructure THEN Min(SB) ELSE f
<1>1. n \in Nat /\ m \in Nat /\ m <= n
  BY PrefixFacts
<1>2. S \subseteq b.bar + 1 .. n /\ \A k : k \in K <=> k \in S /\ k <= m
  BY FailuresAlike
<1>3. /\ x = [source |-> b, direction |-> Opposite(b.direction), top |-> b.top,
              bottom |-> b.bottom, failure |-> f, bar |-> Max({b.bar, atC})]
      /\ y = [source |-> b, direction |-> Opposite(b.direction), top |-> b.top,
              bottom |-> b.bottom, failure |-> f, bar |-> Max({b.bar, atB})]
  BY DEF FlipOf
<1>4. S # {}
  OBVIOUS
<1> HIDE DEF S, K, x, y
<1>5. b.bar \in Nat /\ S \subseteq Nat
  BY <1>1, <1>2
<1>6. /\ f \in S
      /\ K # {} => Min(K) = f /\ f \in K
      /\ f <= m => K # {}
  BY <1>1, <1>2, <1>4, <1>5, LeastAlike
<1> HIDE DEF f
<1>7. f \in Nat /\ f \in b.bar + 1 .. n /\ (K # {} => f <= m)
  BY <1>2, <1>5, <1>6
<1>8. /\ \A s \in MC : s.bar \in f .. n
      /\ \A s : s \in MB <=> s \in MC /\ s.bar <= m
  BY <1>7, MatchesAlike
<1> HIDE DEF MC, MB
<1>9. SC \subseteq Nat /\ \A k : k \in SB <=> k \in SC /\ k <= m
  BY <1>1, <1>7, <1>8
<1>10. (MC # {} <=> SC # {}) /\ (MB # {} <=> SB # {})
  OBVIOUS
<1>11. \A k \in SC : k \in f .. n
  BY <1>8
<1> HIDE DEF SC, SB
<1>12. /\ SC # {} => Min(SC) \in SC
       /\ SB # {} => SC # {} /\ Min(SC) = Min(SB) /\ Min(SC) \in SB
       /\ SC # {} /\ Min(SC) <= m => SB # {}
  BY <1>1, <1>9, LeastAlike
<1>13. X => atC \in f .. n
  BY <1>1, <1>7, <1>10, <1>11, <1>12
<1>14. Y => X /\ atC = atB /\ (atB <= m \/ ~o.requireStructure)
  BY <1>9, <1>10, <1>12
<1>15. X /\ atC <= m => Y
  BY <1>10, <1>12
<1>16. ~o.requireStructure => atC = f
  OBVIOUS
<1> HIDE DEF atC, atB, X, Y
<1>17. X => x.bar = atC
  <2> SUFFICES ASSUME X PROVE x.bar = atC
    OBVIOUS
  <2>1. atC \in Nat /\ b.bar <= atC
    BY <1>1, <1>5, <1>7, <1>13
  <2>2. Max({b.bar, atC}) = (IF b.bar >= atC THEN b.bar ELSE atC)
    <3>1. b.bar \in Int /\ atC \in Int
      BY <1>5, <2>1
    <3> QED
      BY <3>1, TwoInts
  <2> QED
    BY <1>3, <1>5, <2>1, <2>2
<1>18. X => x.bar \in b.bar .. n
  BY <1>1, <1>5, <1>7, <1>13, <1>17
<1>19. X /\ x.bar <= m => K # {} /\ Y
  <2> SUFFICES ASSUME X, x.bar <= m PROVE K # {} /\ Y
    OBVIOUS
  <2>1. atC \in f .. n /\ atC <= m
    BY <1>13, <1>17
  <2>2. f <= m
    BY <1>1, <1>7, <2>1
  <2> QED
    BY <1>6, <1>15, <2>1, <2>2
<1>20. K # {} /\ Y => X /\ x = y /\ x.bar <= m
  <2> SUFFICES ASSUME K # {}, Y PROVE X /\ x = y /\ x.bar <= m
    OBVIOUS
  <2>1. X /\ atC = atB
    BY <1>14
  <2>2. atC <= m
    BY <1>7, <1>14, <1>16, <2>1
  <2> QED
    BY <1>3, <1>17, <2>1, <2>2
<1> QED
  BY <1>6, <1>18, <1>19, <1>20 DEF f, x, y, X, Y, MC, MB, S, K

\* A breaker is confirmed after its source.
LEMMA FlipAfter ==
  ASSUME NEW F, NEW T, NEW n, FrameOf(F, T, n), NEW R, NEW e, NEW C, Recorded(R, e, C, n),
         NEW o, o.window \in Nat, NEW b, b.bar \in 1 .. n, FailuresOf(R, F, T, o, b) # {},
         o.requireStructure => MatchesOf(o, C, n, b, Min(FailuresOf(R, F, T, o, b))) # {}
  PROVE  FlipOf(o, C, n, b, Min(FailuresOf(R, F, T, o, b))).bar \in b.bar .. n
<1>1. TruncatedTo(F, T, n, F, T, n)
  BY DEF TruncatedTo, FrameOf
<1>2. GrowsTo(R, e, C, n, C, n)
  <2>1. Len(C) \in Nat /\ n \in Nat
    BY DEF Recorded
  <2> QED
    BY <2>1 DEF GrowsTo, Extends
<1> QED
  BY <1>1, <1>2, FlipAlike

\* The breakers of the first m bars are those a longer frame dates by then.
LEMMA FlipsAlike ==
  ASSUME NEW F, NEW T, NEW n, NEW G, NEW U, NEW m, TruncatedTo(F, T, n, G, U, m),
         NEW R, NEW e, NEW B, NEW C, GrowsTo(R, e, B, m, C, n),
         NEW o, o.window \in Nat, o.blocks.gaps.lookback \in Nat \ {0},
         o.blocks.lookback \in Nat \ {0}
  PROVE  /\ {x \in FlipsOf(R, F, T, o, C, n) : x.bar <= m} = FlipsOf(R, G, U, o, B, m)
         /\ \A x \in FlipsOf(R, F, T, o, C, n) : x.bar \in 1 .. n
<1> DEFINE S(b) == FailuresOf(R, F, T, o, b)
           K(b) == FailuresOf(R, G, U, o, b)
           X(b) == o.requireStructure => MatchesOf(o, C, n, b, Min(S(b))) # {}
           Y(b) == o.requireStructure => MatchesOf(o, B, m, b, Min(K(b))) # {}
<1>1. /\ FrameOf(F, T, n) /\ FrameOf(G, U, m) /\ n \in Nat /\ m \in Nat /\ m <= n
  BY PrefixFacts
<1>2. {b \in Blocks!BlocksOf(F, T, o.blocks) : b.bar <= m} = Blocks!BlocksOf(G, U, o.blocks)
  BY BlocksAlike
<1>3. /\ \A b \in Blocks!BlocksOf(F, T, o.blocks) : b.bar \in 1 .. n
      /\ \A b \in Blocks!BlocksOf(G, U, o.blocks) : b.bar \in 1 .. m
  BY <1>1, BlockIs
<1>4. /\ \A x : x \in FlipsOf(R, F, T, o, C, n)
                  <=> \E b \in Blocks!BlocksOf(F, T, o.blocks) :
                        S(b) # {} /\ X(b) /\ x = FlipOf(o, C, n, b, Min(S(b)))
      /\ \A x : x \in FlipsOf(R, G, U, o, B, m)
                  <=> \E b \in Blocks!BlocksOf(G, U, o.blocks) :
                        K(b) # {} /\ Y(b) /\ x = FlipOf(o, B, m, b, Min(K(b)))
  BY DEF FlipsOf
<1>5. ASSUME NEW b, b.bar \in 1 .. m, S(b) # {}
      PROVE  /\ X(b) => FlipOf(o, C, n, b, Min(S(b))).bar \in b.bar .. n
             /\ X(b) /\ FlipOf(o, C, n, b, Min(S(b))).bar <= m =>
                  /\ K(b) # {} /\ Y(b)
                  /\ FlipOf(o, C, n, b, Min(S(b))) = FlipOf(o, B, m, b, Min(K(b)))
             /\ K(b) # {} /\ Y(b) =>
                  /\ X(b) /\ FlipOf(o, C, n, b, Min(S(b))) = FlipOf(o, B, m, b, Min(K(b)))
                  /\ FlipOf(o, C, n, b, Min(S(b))).bar <= m
  BY <1>5, FlipAlike
<1>6. ASSUME NEW b, b.bar \in 1 .. m, K(b) # {} PROVE S(b) # {}
  BY <1>6, FailuresAlike
<1>7. ASSUME NEW b, b.bar \in 1 .. n, S(b) # {}, X(b)
      PROVE  FlipOf(o, C, n, b, Min(S(b))).bar \in b.bar .. n
  <2>1. Recorded(R, e, C, n)
    BY DEF GrowsTo
  <2> QED
    BY <1>1, <1>7, <2>1, FlipAfter
<1> HIDE DEF S, K, X, Y
<1>8. ASSUME NEW x \in FlipsOf(R, F, T, o, C, n)
      PROVE  x.bar \in 1 .. n /\ (x.bar <= m => x \in FlipsOf(R, G, U, o, B, m))
  <2>1. PICK b \in Blocks!BlocksOf(F, T, o.blocks) :
          S(b) # {} /\ X(b) /\ x = FlipOf(o, C, n, b, Min(S(b)))
    BY <1>4
  <2>2. b.bar \in 1 .. n
    BY <1>3
  <2>3. x.bar \in b.bar .. n
    BY <1>7, <2>1, <2>2
  <2>4. x.bar \in 1 .. n
    BY <1>1, <2>2, <2>3
  <2>5. ASSUME x.bar <= m PROVE x \in FlipsOf(R, G, U, o, B, m)
    <3>1. b.bar \in 1 .. m /\ b.bar <= m
      BY <1>1, <2>2, <2>3, <2>5
    <3>2. b \in Blocks!BlocksOf(G, U, o.blocks)
      BY <1>2, <3>1
    <3>3. K(b) # {} /\ Y(b) /\ x = FlipOf(o, B, m, b, Min(K(b)))
      BY <1>5, <2>1, <2>5, <3>1
    <3> QED
      BY <1>4, <3>2, <3>3
  <2> QED
    BY <2>4, <2>5
<1>9. ASSUME NEW x \in FlipsOf(R, G, U, o, B, m)
      PROVE  x \in FlipsOf(R, F, T, o, C, n) /\ x.bar <= m
  <2>1. PICK b \in Blocks!BlocksOf(G, U, o.blocks) :
          K(b) # {} /\ Y(b) /\ x = FlipOf(o, B, m, b, Min(K(b)))
    BY <1>4
  <2>2. b.bar \in 1 .. m /\ b \in Blocks!BlocksOf(F, T, o.blocks)
    BY <1>2, <1>3
  <2>3. S(b) # {}
    BY <1>6, <2>1, <2>2
  <2>4. X(b) /\ x = FlipOf(o, C, n, b, Min(S(b))) /\ x.bar <= m
    BY <1>5, <2>1, <2>2, <2>3
  <2> QED
    BY <1>4, <2>2, <2>3, <2>4
<1> QED
  BY <1>8, <1>9

----------------------------------------------------------------------------
LEMMA UnicornsAre ==
  ASSUME NEW T, NEW u, NEW X, NEW Z, NEW x
  PROVE  x \in Joined!UnicornsOf(T, u, X, Z)
           <=> \E a \in X : \E z \in Z : Joined!Joins(T, u, a, z) /\ x = Joined!Unicorn(a, z)
<1> DEFINE S == {p \in X \X Z : Joined!Joins(T, u, p[1], p[2])}
<1>1. Joined!UnicornsOf(T, u, X, Z) = {Joined!Unicorn(p[1], p[2]) : p \in S}
  BY DEF Joined!UnicornsOf
<1>2. ASSUME NEW p \in S, x = Joined!Unicorn(p[1], p[2])
      PROVE  \E a \in X : \E z \in Z : Joined!Joins(T, u, a, z) /\ x = Joined!Unicorn(a, z)
  <2>1. p[1] \in X /\ p[2] \in Z
    OBVIOUS
  <2> QED
    BY <1>2, <2>1
<1>3. ASSUME NEW a \in X, NEW z \in Z, Joined!Joins(T, u, a, z), x = Joined!Unicorn(a, z)
      PROVE  \E p \in S : x = Joined!Unicorn(p[1], p[2])
  <2>1. <<a, z>> \in S
    BY <1>3
  <2> QED
    BY <1>3, <2>1
<1> HIDE DEF S
<1> QED
  BY <1>1, <1>2, <1>3

\* The later of its two sources confirms a unicorn, and how far they are apart does
\* not depend on what follows.
LEMMA JoinsAlike ==
  ASSUME NEW F, NEW T, NEW n, NEW G, NEW U, NEW m, TruncatedTo(F, T, n, G, U, m),
         NEW u, NEW a, NEW z, a.bar \in 1 .. n, z.third \in 1 .. n
  PROVE  /\ Joined!Unicorn(a, z).bar <= m <=> a.bar <= m /\ z.third <= m
         /\ a.bar <= m /\ z.third <= m =>
              (Joined!Joins(T, u, a, z) <=> Joined!Joins(U, u, a, z))
<1> DEFINE i == a.bar
           k == z.third
<1>1. /\ n \in Nat /\ m \in Nat /\ m <= n /\ \A j : j \in 1 .. m <=> j \in 1 .. n /\ j <= m
      /\ \A j \in 1 .. m : U[j] = T[j]
  BY PrefixFacts
<1>2. Joined!Unicorn(a, z).bar = Joined!Max({i, k})
  BY DEF Joined!Unicorn
<1>3. /\ Joined!BarsBetween(T, i, k)
           = (T[Joined!Max({i, k})] - T[Joined!Min({i, k})]) \div Duration
      /\ Joined!BarsBetween(U, i, k)
           = (U[Joined!Max({i, k})] - U[Joined!Min({i, k})]) \div Duration
  BY DEF Joined!BarsBetween
<1> HIDE DEF i, k
<1>4. i \in 1 .. n /\ k \in 1 .. n /\ i \in Int /\ k \in Int
  BY DEF i, k
<1>5. /\ Joined!Max({i, k}) = (IF i >= k THEN i ELSE k)
      /\ Joined!Min({i, k}) = (IF i <= k THEN i ELSE k)
  BY <1>4, TwoInts, SameZones
<1>6. Joined!Max({i, k}) <= m <=> i <= m /\ k <= m
  BY <1>1, <1>4, <1>5
<1>7. i <= m /\ k <= m => Joined!BarsBetween(T, i, k) = Joined!BarsBetween(U, i, k)
  <2> SUFFICES ASSUME i <= m, k <= m
               PROVE  Joined!BarsBetween(T, i, k) = Joined!BarsBetween(U, i, k)
    OBVIOUS
  <2>1. Joined!Max({i, k}) \in 1 .. m /\ Joined!Min({i, k}) \in 1 .. m
    BY <1>1, <1>4, <1>5
  <2>2. /\ T[Joined!Max({i, k})] = U[Joined!Max({i, k})]
        /\ T[Joined!Min({i, k})] = U[Joined!Min({i, k})]
    BY <1>1, <2>1
  <2> QED
    BY <1>3, <2>2
<1> QED
  BY <1>2, <1>6, <1>7 DEF Joined!Joins, i, k

LEMMA UnicornsAlike ==
  ASSUME NEW F, NEW T, NEW n, NEW G, NEW U, NEW m, TruncatedTo(F, T, n, G, U, m),
         NEW u, NEW g, g.lookback \in Nat \ {0}, NEW X, \A x \in X : x.bar \in 1 .. n,
         NEW Y, \A x : x \in Y <=> x \in X /\ x.bar <= m
  PROVE  \A x : x \in Joined!UnicornsOf(U, u, Y, Joined!GapsOf(G, U, g))
               <=> x \in Joined!UnicornsOf(T, u, X, Joined!GapsOf(F, T, g)) /\ x.bar <= m
<1> DEFINE P == Joined!GapsOf(F, T, g)
           Q == Joined!GapsOf(G, U, g)
<1>1. FrameOf(F, T, n) /\ m \in Nat
  BY PrefixFacts
<1>2. \A z \in P : z.third \in 1 .. n
  BY <1>1, GapIs
<1>3. \A z : z \in Q <=> z \in P /\ z.third <= m
  <2>1. {z \in Blocks!GapsOf(F, T, g) : z.third <= m} = Blocks!GapsOf(G, U, g)
    BY GapsAlike
  <2> QED
    BY <2>1, SameGaps
<1> HIDE DEF P, Q
<1>4. /\ \A x : x \in Joined!UnicornsOf(T, u, X, P)
                  <=> \E a \in X : \E z \in P : Joined!Joins(T, u, a, z) /\ x = Joined!Unicorn(a, z)
      /\ \A x : x \in Joined!UnicornsOf(U, u, Y, Q)
                  <=> \E a \in Y : \E z \in Q : Joined!Joins(U, u, a, z) /\ x = Joined!Unicorn(a, z)
  BY UnicornsAre
<1>5. ASSUME NEW a \in X, NEW z \in P
      PROVE  /\ Joined!Unicorn(a, z).bar <= m <=> a.bar <= m /\ z.third <= m
             /\ a.bar <= m /\ z.third <= m =>
                  (Joined!Joins(T, u, a, z) <=> Joined!Joins(U, u, a, z))
  <2>1. a.bar \in 1 .. n /\ z.third \in 1 .. n
    BY <1>2
  <2> QED
    BY <2>1, JoinsAlike
<1>6. ASSUME NEW x \in Joined!UnicornsOf(T, u, X, P), x.bar <= m
      PROVE  x \in Joined!UnicornsOf(U, u, Y, Q)
  <2>1. PICK a \in X : \E z \in P : Joined!Joins(T, u, a, z) /\ x = Joined!Unicorn(a, z)
    BY <1>4
  <2>2. PICK z \in P : Joined!Joins(T, u, a, z) /\ x = Joined!Unicorn(a, z)
    BY <2>1
  <2>3. a \in Y /\ z \in Q /\ Joined!Joins(U, u, a, z)
    BY <1>3, <1>5, <1>6, <2>2
  <2> QED
    BY <1>4, <2>2, <2>3
<1>7. ASSUME NEW x \in Joined!UnicornsOf(U, u, Y, Q)
      PROVE  x \in Joined!UnicornsOf(T, u, X, P) /\ x.bar <= m
  <2>1. PICK a \in Y : \E z \in Q : Joined!Joins(U, u, a, z) /\ x = Joined!Unicorn(a, z)
    BY <1>4
  <2>2. PICK z \in Q : Joined!Joins(U, u, a, z) /\ x = Joined!Unicorn(a, z)
    BY <2>1
  <2>3. a \in X /\ a.bar <= m /\ z \in P /\ z.third <= m
    BY <1>3
  <2>4. Joined!Joins(T, u, a, z) /\ x.bar <= m
    BY <1>5, <2>2, <2>3
  <2> QED
    BY <1>4, <2>2, <2>3, <2>4
<1> QED
  BY <1>6, <1>7 DEF P, Q

----------------------------------------------------------------------------
\* The bars and breaks of the frame before and after a step, and the lookbacks the
\* detectors read.
LEMMA WalkGrows ==
  ASSUME BInv, BInv', BreakersNext
  PROVE  /\ index' = index + 1 /\ frame' = frame /\ opens' = opens /\ options' = options
         /\ TruncatedTo(SubSeq(frame, 1, index'), SubSeq(opens, 1, index'), index',
                        SeenBars(index), SeenTimes(index), index)
         /\ GrowsTo(frame, config, breaks, index, breaks', index')
<1>1. /\ IInv /\ RecordedSoFar /\ Next /\ opens' = opens /\ options' = options
      /\ RecordedSoFar'
  BY DEF BInv, BreakersNext
<1>2. /\ frame' = frame /\ index' = index + 1 /\ index' <= Len(frame)
      /\ Extends(breaks', breaks, index)
  BY <1>1, RecordStep
<1>3. config' = config
  BY <1>1, StepForms DEF IInv, Advance
<1>4. index \in 0 .. Len(frame) /\ Len(frame) \in Nat
  BY <1>1 DEF IInv, TypeOK
<1> DEFINE n == index'
<1>5. n \in 0 .. Len(frame) /\ index \in 0 .. n
  BY <1>2, <1>4
<1> HIDE DEF n
<1>6. /\ FrameOf(SeenBars(index), SeenTimes(index), index)
      /\ FrameOf(SeenBars(n), SeenTimes(n), n)
      /\ \A i \in 1 .. index : SeenBars(index)[i] = frame[i] /\ SeenTimes(index)[i] = opens[i]
      /\ \A i \in 1 .. n : SeenBars(n)[i] = frame[i] /\ SeenTimes(n)[i] = opens[i]
  BY <1>4, <1>5, SeenFrame
<1>7. \A i \in 1 .. index : i \in 1 .. n
  BY <1>4, <1>5
<1>8. TruncatedTo(SeenBars(n), SeenTimes(n), n, SeenBars(index), SeenTimes(index), index)
  BY <1>5, <1>6, <1>7 DEF TruncatedTo, FrameOf
<1>9. TruncatedTo(SubSeq(frame, 1, n), SubSeq(opens, 1, n), n,
                  SeenBars(index), SeenTimes(index), index)
  BY <1>8 DEF SeenBars, SeenTimes
<1>10. GrowsTo(frame, config, breaks, index, breaks', index')
  <2>1. Recorded(frame, config, breaks, index) /\ Recorded(frame, config, breaks', index')
    BY <1>1, <1>2, <1>3 DEF RecordedSoFar
  <2>2. index <= index'
    BY <1>2, <1>4
  <2> QED
    BY <1>2, <2>1, <2>2 DEF GrowsTo
<1> QED
  BY <1>1, <1>2, <1>9, <1>10 DEF n

LEMMA Lookbacks ==
  ASSUME BInv
  PROVE  /\ options.window \in Nat /\ options.blocks.lookback \in Nat \ {0}
         /\ options.blocks.gaps.lookback \in Nat \ {0}
         /\ \A u \in UnicornConfigs : u.gaps.lookback \in Nat \ {0} /\ u.minOverlap \in Nat
<1>1. options \in BreakerConfigType
  BY BreakerAssumption DEF BInv, Charted
<1>2. options.blocks \in Blocks!BlockConfigType /\ options.window \in Nat
  BY <1>1 DEF BreakerConfigType
<1>3. options.blocks.lookback \in Nat \ {0} /\ options.blocks.gaps \in Blocks!GapConfigType
  BY <1>2 DEF Blocks!BlockConfigType
<1>4. options.blocks.gaps.lookback \in Nat \ {0}
  BY <1>3 DEF Blocks!GapConfigType
<1>5. ASSUME NEW u \in UnicornConfigs PROVE u.gaps.lookback \in Nat \ {0} /\ u.minOverlap \in Nat
  <2>1. u \in Joined!UnicornConfigType
    BY UnicornAssumption
  <2>2. u.gaps \in Joined!GapConfigType /\ u.minOverlap \in Nat
    BY <2>1 DEF Joined!UnicornConfigType
  <2> QED
    BY <2>2 DEF Joined!GapConfigType
<1> QED
  BY <1>2, <1>3, <1>4, <1>5

\* A bar adds the blocks, breakers and unicorns it confirms, and takes back none.
THEOREM PublishedOnTimeHolds == BreakersSpec => PublishedOnTime
<1> DEFINE Kept ==
      /\ {b \in BlocksAt(index') : b.bar <= index} = BlocksAt(index)
      /\ {x \in BreakersAt(index)' : x.bar <= index} = BreakersAt(index)
      /\ \A u \in UnicornConfigs :
           {x \in UnicornsAt(index, u)' : x.bar <= index} = UnicornsAt(index, u)
<1>1. BInv /\ BInv' /\ [BreakersNext]_allVars => [Kept]_allVars
  <2> SUFFICES ASSUME BInv, BInv', BreakersNext PROVE Kept
    OBVIOUS
  <2> DEFINE n == index'
             F == SubSeq(frame, 1, n)
             T == SubSeq(opens, 1, n)
             G == SeenBars(index)
             U == SeenTimes(index)
             C == breaks'
             X == FlipsOf(frame, F, T, options, C, n)
  <2>1. /\ frame' = frame /\ opens' = opens /\ options' = options
        /\ TruncatedTo(F, T, n, G, U, index) /\ GrowsTo(frame, config, breaks, index, C, n)
    BY WalkGrows
  <2>2. /\ options.window \in Nat /\ options.blocks.lookback \in Nat \ {0}
        /\ options.blocks.gaps.lookback \in Nat \ {0}
        /\ \A u \in UnicornConfigs : u.gaps.lookback \in Nat \ {0}
    BY Lookbacks
  <2>3. /\ BlocksAt(index') = Blocks!BlocksOf(F, T, options.blocks)
        /\ BlocksAt(index) = Blocks!BlocksOf(G, U, options.blocks)
    BY DEF BlocksAt, SeenBars, SeenTimes
  <2>4. BreakersAt(index) = FlipsOf(frame, G, U, options, breaks, index)
    BY DEF BreakersAt, FlipsOf, Failures, FailuresOf, Matches, MatchesOf, Breaker, FlipOf, BlocksAt
  <2>5. BreakersAt(index)' = X
    BY <2>1 DEF BreakersAt, FlipsOf, Failures, FailuresOf, Matches, MatchesOf, Breaker, FlipOf,
                BlocksAt, SeenBars, SeenTimes
  <2>6. \A u \in UnicornConfigs :
          /\ UnicornsAt(index, u)
               = Joined!UnicornsOf(U, u, BreakersAt(index), Joined!GapsOf(G, U, u.gaps))
          /\ UnicornsAt(index, u)'
               = Joined!UnicornsOf(T, u, BreakersAt(index)', Joined!GapsOf(F, T, u.gaps))
    BY <2>1 DEF UnicornsAt, GapsAt, SeenBars, SeenTimes
  <2> HIDE DEF n, F, T, G, U, C, X
  <2>7. {b \in Blocks!BlocksOf(F, T, options.blocks) : b.bar <= index}
          = Blocks!BlocksOf(G, U, options.blocks)
    BY <2>1, <2>2, BlocksAlike
  <2>8. /\ {x \in X : x.bar <= index} = FlipsOf(frame, G, U, options, breaks, index)
        /\ \A x \in X : x.bar \in 1 .. n
    BY <2>1, <2>2, FlipsAlike DEF X
  <2>9. {x \in BreakersAt(index)' : x.bar <= index} = BreakersAt(index)
    BY <2>4, <2>5, <2>8
  <2>10. ASSUME NEW u \in UnicornConfigs
         PROVE  {x \in UnicornsAt(index, u)' : x.bar <= index} = UnicornsAt(index, u)
    <3> DEFINE Y == BreakersAt(index)
               g == u.gaps
    <3>0. g.lookback \in Nat \ {0}
      BY <2>2
    <3>2. UnicornsAt(index, u) = Joined!UnicornsOf(U, u, Y, Joined!GapsOf(G, U, g))
      BY <2>6
    <3>3. UnicornsAt(index, u)' = Joined!UnicornsOf(T, u, X, Joined!GapsOf(F, T, g))
      BY <2>5, <2>6
    <3> HIDE DEF g
    <3>1. \A x : x \in Joined!UnicornsOf(U, u, Y, Joined!GapsOf(G, U, g))
                  <=> /\ x \in Joined!UnicornsOf(T, u, X, Joined!GapsOf(F, T, g))
                      /\ x.bar <= index
      <4>1. g.lookback \in Nat \ {0}
        BY <3>0
      <4>2. TruncatedTo(F, T, n, G, U, index) /\ \A x \in X : x.bar \in 1 .. n
        BY <2>1, <2>8
      <4>3. \A x : x \in Y <=> x \in X /\ x.bar <= index
        BY <2>5, <2>9
      <4> HIDE DEF Y
      <4> QED
        BY <4>1, <4>2, <4>3, UnicornsAlike
    <3> QED
      BY <3>1, <3>2, <3>3
  <2> QED
    BY <2>3, <2>7, <2>9, <2>10
<1>2. [][Kept]_allVars => PublishedOnTime
  BY PTL DEF PublishedOnTime
<1> HIDE DEF Kept
<1> QED
  BY <1>1, <1>2, BreakersInv, PTL DEF BreakersSpec

----------------------------------------------------------------------------
\* How price has returned to a zone by bar m does not depend on what follows.
LEMMA FillsKept ==
  ASSUME NEW F, NEW T, NEW n, NEW G, NEW U, NEW m, TruncatedTo(F, T, n, G, U, m),
         NEW c, NEW z, z.bar \in 1 .. m
  PROVE  {u \in Blocks!TrackZoneFill(F, T, c, z, Blocks!CloseTime(T, z.bar)) : u.bar <= m}
           = Blocks!TrackZoneFill(G, U, c, z, Blocks!CloseTime(U, z.bar))
<1>1. Blocks!CloseTime(T, z.bar) = Blocks!CloseTime(U, z.bar)
  BY PrefixFacts
<1>2. Blocks!UpTo(Blocks!TrackZoneFill(F, T, c, z, Blocks!CloseTime(T, z.bar)), m)
        = Blocks!TrackZoneFill(G, U, c, z, Blocks!CloseTime(U, z.bar))
  BY <1>1, FillsAlike
<1> QED
  BY <1>2 DEF Blocks!UpTo

\* A status is the last update seen.
LEMMA StatusOfSeen ==
  ASSUME NEW S, NEW K, NEW m, {u \in S : u.bar <= m} = K
  PROVE  Blocks!FillStatus(S, m) = Blocks!FillStatus(K, m)
<1> DEFINE Last(seen) == IF seen = {} THEN "active"
                         ELSE (CHOOSE u \in seen : \A v \in seen : v.bar <= u.bar).after
<1>1. \A Z : Blocks!FillStatus(Z, m) = Last({u \in Z : u.bar <= m})
  BY DEF Blocks!FillStatus
<1> HIDE DEF Last
<1>2. {u \in S : u.bar <= m} = {u \in K : u.bar <= m}
  OBVIOUS
<1> QED
  BY <1>1, <1>2

LEMMA BlockStatusAlike ==
  ASSUME NEW F, NEW T, NEW n, NEW G, NEW U, NEW m, TruncatedTo(F, T, n, G, U, m),
         NEW c, NEW b, b.bar \in 1 .. m
  PROVE  Blocks!StatusAt(F, T, c, b, m) = Blocks!StatusAt(G, U, c, b, m)
<1> DEFINE o == [mode |-> "close"]
<1>1. /\ FailuresOf(F, F, T, o, b) = Blocks!ClosesAgainst(F, T, b)
      /\ FailuresOf(F, G, U, o, b) = Blocks!ClosesAgainst(G, U, b)
  BY DEF FailuresOf
<1> HIDE DEF o
<1>2. \A k : k \in Blocks!ClosesAgainst(G, U, b) <=> k \in Blocks!ClosesAgainst(F, T, b) /\ k <= m
  BY <1>1, FailuresAlike
<1>3. (\E i \in Blocks!ClosesAgainst(F, T, b) : i <= m)
        <=> (\E i \in Blocks!ClosesAgainst(G, U, b) : i <= m)
  BY <1>2
<1>4. Blocks!FillStatus(Blocks!BlockFills(F, T, c, b), m)
        = Blocks!FillStatus(Blocks!BlockFills(G, U, c, b), m)
  BY FillsKept, StatusOfSeen DEF Blocks!BlockFills
<1> QED
  BY <1>3, <1>4 DEF Blocks!StatusAt

\* What was answered about a block, a breaker or a unicorn is answered again.
THEOREM StatusKeptHolds == BreakersSpec => StatusKept
<1> DEFINE Kept ==
      /\ \A b \in BlocksAt(index) :
           /\ BlockStatusAt(index', b, index) = BlockStatusAt(index, b, index)
           /\ {u \in BlockFillsAt(index', b) : u.bar <= index} = BlockFillsAt(index, b)
      /\ \A x \in BreakersAt(index) :
           {u \in BreakerFillsAt(index', x) : u.bar <= index} = BreakerFillsAt(index, x)
      /\ \A u \in UnicornConfigs : \A x \in UnicornsAt(index, u) :
           UnicornStatusAt(index', u, x, index) = UnicornStatusAt(index, u, x, index)
<1>1. BInv /\ BInv' /\ [BreakersNext]_allVars => [Kept]_allVars
  <2> SUFFICES ASSUME BInv, BInv', BreakersNext PROVE Kept
    OBVIOUS
  <2> DEFINE n == index'
             F == SeenBars(n)
             T == SeenTimes(n)
             G == SeenBars(index)
             U == SeenTimes(index)
             After(c, z) == Blocks!TrackZoneFill(F, T, c, z, Blocks!CloseTime(T, z.bar))
             Before(c, z) == Blocks!TrackZoneFill(G, U, c, z, Blocks!CloseTime(U, z.bar))
  <2>1. TruncatedTo(F, T, n, G, U, index)
    BY WalkGrows DEF SeenBars, SeenTimes
  <2>2. index \in 0 .. Len(frame) /\ FrameOf(G, U, index)
    BY SeenFrame DEF BInv, IInv, TypeOK
  <2>3. \A b \in BlocksAt(index) : b.bar \in 1 .. index
    BY <2>2, BlockIs DEF BlocksAt
  <2>4. \A x \in BreakersAt(index) : x.bar \in 1 .. index
    <3> TAKE x \in BreakersAt(index)
    <3>1. /\ x.source.bar \in 1 .. index /\ x.failure \in x.source.bar + 1 .. index
          /\ x.bar \in x.failure .. index
      BY <2>2, BreakerBar
    <3> QED
      BY <3>1
  <2>5. ASSUME NEW u \in UnicornConfigs, NEW x \in UnicornsAt(index, u)
        PROVE  x.bar \in 1 .. index /\ x.breaker \in BreakersAt(index)
    <3>1. u.minOverlap \in Nat
      BY Lookbacks
    <3> QED
      BY <2>2, <3>1, UnicornIs
  <2>6. /\ \A b : BlockStatusAt(n, b, index) = Blocks!StatusAt(F, T, options.blocks, b, index)
        /\ \A b : BlockStatusAt(index, b, index) = Blocks!StatusAt(G, U, options.blocks, b, index)
    BY DEF BlockStatusAt
  <2>7. /\ \A b : BlockFillsAt(n, b) = After(options.blocks, b)
        /\ \A b : BlockFillsAt(index, b) = Before(options.blocks, b)
    BY DEF BlockFillsAt, Blocks!BlockFills
  <2>8. /\ \A x : BreakerFillsAt(n, x) = After(options, x)
        /\ \A x : BreakerFillsAt(index, x) = Before(options, x)
    BY DEF BreakerFillsAt
  <2>9. /\ \A u, x : UnicornFillsAt(n, u, x) = After(u, x)
        /\ \A u, x : UnicornFillsAt(index, u, x) = Before(u, x)
    BY SameTracker, SameZones DEF UnicornFillsAt
  <2> HIDE DEF n, F, T, G, U
  <2>10. ASSUME NEW b \in BlocksAt(index)
         PROVE  /\ BlockStatusAt(n, b, index) = BlockStatusAt(index, b, index)
                /\ {u \in BlockFillsAt(n, b) : u.bar <= index} = BlockFillsAt(index, b)
    <3>1. b.bar \in 1 .. index
      BY <2>3
    <3>2. BlockStatusAt(n, b, index) = BlockStatusAt(index, b, index)
      BY <2>1, <2>6, <3>1, BlockStatusAlike
    <3>3. {u \in BlockFillsAt(n, b) : u.bar <= index} = BlockFillsAt(index, b)
      <4>1. {u \in After(options.blocks, b) : u.bar <= index} = Before(options.blocks, b)
        BY <2>1, <3>1, FillsKept
      <4> QED
        BY <2>7, <4>1
    <3> QED
      BY <3>2, <3>3
  <2>11. ASSUME NEW x \in BreakersAt(index)
         PROVE  {u \in BreakerFillsAt(n, x) : u.bar <= index} = BreakerFillsAt(index, x)
    <3>1. x.bar \in 1 .. index
      BY <2>4
    <3>2. ASSUME NEW c
          PROVE  {u \in After(c, x) : u.bar <= index} = Before(c, x)
      BY <2>1, <3>1, FillsKept
    <3> QED
      BY <2>8, <3>2
  <2>12. ASSUME NEW u \in UnicornConfigs, NEW x \in UnicornsAt(index, u)
         PROVE  UnicornStatusAt(n, u, x, index) = UnicornStatusAt(index, u, x, index)
    <3>1. x.bar \in 1 .. index /\ x.breaker \in BreakersAt(index)
      BY <2>5
    <3>2. Joined!FillStatus(UnicornFillsAt(n, u, x), index)
            = Joined!FillStatus(UnicornFillsAt(index, u, x), index)
      <4>1. Blocks!FillStatus(UnicornFillsAt(n, u, x), index)
              = Blocks!FillStatus(UnicornFillsAt(index, u, x), index)
        <5>1. {f \in After(u, x) : f.bar <= index} = Before(u, x)
          BY <2>1, <3>1, FillsKept
        <5> QED
          BY <2>9, <5>1, StatusOfSeen
      <4> QED
        BY <4>1, SameTracker
    <3> DEFINE P == BreakerFillsAt(n, x.breaker)
               Q == BreakerFillsAt(index, x.breaker)
    <3>3. {f \in P : f.bar <= index} = Q
      BY <2>11, <3>1
    <3>4. /\ DeathsAt(n, x) = {f.bar : f \in {f \in P : f.after = "mitigated"}}
          /\ DeathsAt(index, x) = {f.bar : f \in {f \in Q : f.after = "mitigated"}}
      BY DEF DeathsAt
    <3> HIDE DEF P, Q
    <3>5. (\E d \in DeathsAt(n, x) : d <= index) <=> (\E d \in DeathsAt(index, x) : d <= index)
      BY <3>3, <3>4
    <3> QED
      BY <3>2, <3>5 DEF UnicornStatusAt
  <2> QED
    BY <2>10, <2>11, <2>12 DEF n
<1>2. [][Kept]_allVars => StatusKept
  BY PTL DEF StatusKept
<1> HIDE DEF Kept
<1> QED
  BY <1>1, <1>2, BreakersInv, PTL DEF BreakersSpec

----------------------------------------------------------------------------
(***************************************************************************)
(* The market state: what its sections say of one another.                 *)
(***************************************************************************)

\* The lemmas on the state of delivery, which are about any frame: what the walk
\* of FairValueGaps is has no part in them.
Turned == INSTANCE InversionsProofs
            WITH OpenTimes <- Nat, Configs <- {Engine.gaps}, BprConfigs <- {},
                 RdrbConfigs <- {}, CisdConfigs <- {}, zones <- {}, deepest <- <<>>, status <- <<>>, fills <- {}

\* The detectors of the market state track zones as those of the blocks do.
LEMMA SameFills ==
  /\ Inverted!Whole = Blocks!Whole
  /\ \A T, t : Inverted!CloseTime(T, t) = Blocks!CloseTime(T, t)
  /\ \A T, t : Inverted!BarsFrom(T, t) = Blocks!BarsFrom(T, t)
  /\ \A z : Inverted!FarEdge(z) = Blocks!FarEdge(z)
  /\ \A d, x, y : Inverted!Beyond(d, x, y) = Beyond(d, x, y)
  /\ \A d : Inverted!Opposite(d) = Opposite(d)
  /\ \A S : Inverted!Min(S) = Min(S)
  /\ \A S, k : Inverted!FillStatus(S, k) = Blocks!FillStatus(S, k)
  /\ \A F, T, c, z, t : Inverted!TrackZoneFill(F, T, c, z, t) = Blocks!TrackZoneFill(F, T, c, z, t)
<1>1. /\ \A S, k : Inverted!FillStatus(S, k) = Blocks!FillStatus(S, k)
      /\ \A S : Inverted!Min(S) = Min(S)
  BY DEF Inverted!FillStatus, Blocks!FillStatus, Inverted!Min, Min
<1>2. /\ \A z, p : Inverted!Depth(z, p) = Blocks!Depth(z, p)
      /\ \A z, bar : Inverted!Reach(z, bar) = Blocks!Reach(z, bar)
      /\ \A T, t : Inverted!BarsFrom(T, t) = Blocks!BarsFrom(T, t)
  BY DEF Inverted!Depth, Blocks!Depth, Inverted!Distance, Blocks!Distance, Inverted!EntryEdge,
         Blocks!EntryEdge, Inverted!Opposite, Blocks!Opposite, Inverted!Reach, Blocks!Reach,
         Inverted!Extreme, Blocks!Extreme, Inverted!BarsFrom, Blocks!BarsFrom
<1>3. /\ \A z, p, f : Inverted!Fills(z, p, f) <=> Blocks!Fills(z, p, f)
      /\ \A z, p, f : Inverted!Enters(z, p, f) <=> Blocks!Enters(z, p, f)
  BY <1>2 DEF Inverted!Fills, Blocks!Fills, Inverted!Enters, Blocks!Enters, Inverted!Whole,
              Blocks!Whole
<1>4. ASSUME NEW F, NEW T, NEW c, NEW z, NEW t
      PROVE  Inverted!TrackZoneFill(F, T, c, z, t) = Blocks!TrackZoneFill(F, T, c, z, t)
  BY <1>2, <1>3 DEF Inverted!TrackZoneFill, Blocks!TrackZoneFill
<1>5. /\ Inverted!Whole = Blocks!Whole
      /\ \A T, t : Inverted!CloseTime(T, t) = Blocks!CloseTime(T, t)
      /\ \A z : Inverted!FarEdge(z) = Blocks!FarEdge(z)
      /\ \A d, x, y : Inverted!Beyond(d, x, y) = Beyond(d, x, y)
      /\ \A d : Inverted!Opposite(d) = Opposite(d)
  BY DEF Inverted!Whole, Blocks!Whole, Inverted!CloseTime, Blocks!CloseTime, Inverted!FarEdge,
         Blocks!FarEdge, Inverted!Beyond, Beyond, Inverted!Opposite, Opposite
<1> QED
  BY <1>1, <1>2, <1>4, <1>5

\* The item confirmed last, where no other has its bar.
LEMMA LatestIs ==
  ASSUME NEW S, NEW x \in S, \A y \in S : y.bar \in Int /\ y.bar <= x.bar,
         \A y \in S : y.bar = x.bar => y = x
  PROVE  Latest(S) = {x}
<1> DEFINE P(c) == \A y \in S : y.bar <= c.bar
           c == CHOOSE c \in S : P(c)
<1>1. P(x)
  OBVIOUS
<1>2. c \in S /\ P(c)
  BY <1>1
<1>3. Latest(S) = {c}
  BY DEF Latest
<1> HIDE DEF c
<1>4. c.bar = x.bar
  BY <1>2
<1> QED
  BY <1>2, <1>3, <1>4

LEMMA LatestOfNone == Latest({}) = {}
BY DEF Latest

----------------------------------------------------------------------------
\* The trend is that of the latest break.
LEMMA TrendIsLatest ==
  ASSUME BInv, NEW n \in Nat, NEW k \in Nat, k <= n
  PROVE  LET B == ObservableBreaks(breaks, n)
             S == Range(ObservableBreaks(B, k))
             s == StateAt(B, k)
         IN  {b.direction : b \in Latest(S)} = {IF s = "undefined" THEN "neutral" ELSE s} \ {"neutral"}
<1> DEFINE B == ObservableBreaks(breaks, n)
           O == ObservableBreaks(B, k)
           K == {m \in DOMAIN breaks : breaks[m].bar <= k}
           S == Range(O)
           s == StateAt(B, k)
<1>1. /\ DOMAIN breaks = 1 .. Len(breaks) /\ Len(breaks) \in Nat
      /\ \A m \in DOMAIN breaks : breaks[m].bar \in Nat
      /\ \A l, m \in DOMAIN breaks : l < m => breaks[l].bar < breaks[m].bar
  BY BreakFields DEF BInv, IInv, TypeOK, RecordedSoFar, Recorded
<1>2. \A m \in DOMAIN breaks : /\ breaks[m].to = breaks[m].direction
                               /\ breaks[m].direction \in Directions
  BY BreakFields DEF BInv, IInv, BreaksTurn, TypeOK
<1>3. DOMAIN O = K /\ \A m \in K : O[m] = breaks[m]
  <2>1. DOMAIN B = {m \in DOMAIN breaks : breaks[m].bar <= n} /\ \A m \in DOMAIN B : B[m] = breaks[m]
    BY DEF ObservableBreaks, Restrict
  <2>2. \A m \in K : m \in DOMAIN B
    BY <1>1, <2>1
  <2>3. DOMAIN O = {m \in DOMAIN B : B[m].bar <= k} /\ \A m \in DOMAIN O : O[m] = B[m]
    BY DEF ObservableBreaks, Restrict
  <2> HIDE DEF B, O
  <2> QED
    BY <2>1, <2>2, <2>3
<1>4. s = IF DOMAIN O = {} THEN "undefined" ELSE O[Max(DOMAIN O)].to
  BY DEF StateAt
<1>5. S = {breaks[m] : m \in K}
  <2>1. S = {O[m] : m \in DOMAIN O}
    BY DEF Range
  <2> HIDE DEF O, S
  <2> QED
    BY <1>3, <2>1
<1> HIDE DEF B, O, S, s
<1>6. CASE K = {}
  <2>1. S = {} /\ s = "undefined"
    BY <1>3, <1>4, <1>5, <1>6
  <2> QED
    BY <2>1, LatestOfNone DEF S, s, O, B
<1>7. CASE K # {}
  <2>1. K \in SUBSET Nat /\ \A m \in K : m <= Len(breaks)
    BY <1>1
  <2> DEFINE m == Max(K)
  <2>2. m \in K /\ \A l \in K : l <= m
    BY <1>1, <1>7, <2>1, MinMax
  <2> HIDE DEF m
  <2>3. \A l \in K : /\ breaks[l].bar \in Int /\ breaks[l].bar <= breaks[m].bar
                     /\ breaks[l].bar = breaks[m].bar => l = m
    <3> TAKE l \in K
    <3>1. l = m \/ l < m
      BY <2>1, <2>2
    <3> QED
      BY <1>1, <2>2, <3>1
  <2>4. Latest(S) = {breaks[m]}
    <3>1. breaks[m] \in S
      BY <1>5, <2>2
    <3>2. \A y \in S : y.bar \in Int /\ y.bar <= breaks[m].bar
      BY <1>5, <2>3
    <3>3. \A y \in S : y.bar = breaks[m].bar => y = breaks[m]
      BY <1>5, <2>3
    <3> QED
      BY <3>1, <3>2, <3>3, LatestIs
  <2>5. s = breaks[m].direction /\ breaks[m].direction \in Directions
    BY <1>2, <1>3, <1>4, <1>7, <2>2 DEF m
  <2>6. {b.direction : b \in Latest(S)} = {s} /\ s # "undefined" /\ s # "neutral"
    BY <2>4, <2>5 DEF Directions
  <2> QED
    BY <2>6 DEF S, s, O, B
<1> QED
  BY <1>6, <1>7

----------------------------------------------------------------------------
\* The detector of changes of delivery is the one of the other proofs.
LEMMA SameDelivery ==
  /\ \A F, T, v : Delivered!TransitionsOf(F, T, v) = Turned!TransitionsOf(F, T, v)
  /\ \A S, k : Delivered!DeliveryAt(S, k) = Turned!DeliveryAt(S, k)
<1>1. \A S, k : Delivered!DeliveryAt(S, k) = Turned!DeliveryAt(S, k)
  BY DEF Delivered!DeliveryAt, Turned!DeliveryAt, Delivered!PublishedBefore, Turned!PublishedBefore
<1>2. /\ Delivered!Directions = Turned!Directions
      /\ \A d : Delivered!Opposite(d) = Turned!Opposite(d)
      /\ \A d, x, y : Delivered!Beyond(d, x, y) = Turned!Beyond(d, x, y)
      /\ \A d, x, y : Delivered!Distance(d, x, y) = Turned!Distance(d, x, y)
      /\ \A T, i : Delivered!CloseTime(T, i) = Turned!CloseTime(T, i)
      /\ \A S : Delivered!Max(S) = Turned!Max(S) /\ Delivered!Min(S) = Turned!Min(S)
  BY DEF Delivered!Directions, Turned!Directions, Delivered!Opposite, Turned!Opposite,
         Delivered!Beyond, Turned!Beyond, Delivered!Distance, Turned!Distance,
         Delivered!CloseTime, Turned!CloseTime, Delivered!Max, Turned!Max, Delivered!Min,
         Turned!Min
<1>3. \A F, T, v, d, i : Delivered!SameLeg(F, T, v, d, i) <=> Turned!SameLeg(F, T, v, d, i)
  BY <1>2 DEF Delivered!SameLeg, Turned!SameLeg
<1>4. \A F, T, v : Delivered!LegsOf(F, T, v) = Turned!LegsOf(F, T, v)
  BY <1>2, <1>3 DEF Delivered!LegsOf, Turned!LegsOf
<1>5. \A F, v, l : Delivered!LegLevel(F, v, l) = Turned!LegLevel(F, v, l)
  BY <1>2 DEF Delivered!LegLevel, Turned!LegLevel
<1>6. \A F, v, l : Delivered!Clearings(F, v, l) = Turned!Clearings(F, v, l)
  BY <1>2, <1>5 DEF Delivered!Clearings, Turned!Clearings
<1>7. \A F, T, v : Delivered!TurnsOf(F, T, v) = Turned!TurnsOf(F, T, v)
  BY <1>2, <1>4, <1>6 DEF Delivered!TurnsOf, Turned!TurnsOf
<1>8. \A S, x : Delivered!Transition(S, x) = Turned!Transition(S, x)
  <2>1. \A x, y : Delivered!Earlier(x, y) <=> Turned!Earlier(x, y)
    BY DEF Delivered!Earlier, Turned!Earlier
  <2>2. ASSUME NEW S, NEW x PROVE Delivered!StateBefore(S, x) = Turned!StateBefore(S, x)
    <3> DEFINE done == {y \in S : Turned!Earlier(y, x)}
               last == CHOOSE y \in done : \A z \in done : z = y \/ Turned!Earlier(z, y)
               done2 == {y \in S : Delivered!Earlier(y, x)}
               last2 == CHOOSE y \in done2 : \A z \in done2 : z = y \/ Delivered!Earlier(z, y)
    <3>1. /\ Turned!StateBefore(S, x)
               = IF done = {} THEN "undefined" ELSE Turned!Opposite(last.leg.direction)
          /\ Delivered!StateBefore(S, x)
               = IF done2 = {} THEN "undefined" ELSE Delivered!Opposite(last2.leg.direction)
      BY DEF Turned!StateBefore, Delivered!StateBefore
    <3>2. done2 = done
      BY <2>1
    <3>3. last2 = last
      <4>1. \A y : (\A z \in done2 : z = y \/ Delivered!Earlier(z, y))
                   <=> (\A z \in done : z = y \/ Turned!Earlier(z, y))
        BY <2>1, <3>2
      <4> QED
        BY <3>2, <4>1
    <3> HIDE DEF done, last, done2, last2
    <3>4. Delivered!Opposite(last2.leg.direction) = Turned!Opposite(last.leg.direction)
      BY <1>2, <3>3
    <3> QED
      BY <3>1, <3>2, <3>4
  <2> QED
    BY <1>2, <2>2 DEF Delivered!Transition, Turned!Transition
<1>9. \A F, T, v : Delivered!TransitionsOf(F, T, v) = Turned!TransitionsOf(F, T, v)
  BY <1>7, <1>8 DEF Delivered!TransitionsOf, Turned!TransitionsOf
<1> QED
  BY <1>1, <1>9

\* What the other proofs assume holds here.
LEMMA TurnedAssumed ==
  /\ \A bar \in Bars : Turned!WellFormed(bar)
  /\ Duration \in Nat \ {0}
  /\ Nat \subseteq Nat /\ MaxBars \in Nat
  /\ {Engine.gaps} \subseteq Turned!ConfigType /\ (\A c \in {Engine.gaps} : c.partial < c.full)
  /\ {} \subseteq Turned!BprConfigType /\ {} \subseteq Turned!RdrbConfigType
  /\ {} \subseteq Turned!CisdConfigType
<1>1. \A bar \in Bars : Turned!WellFormed(bar)
  BY BarsAssumption DEF Turned!WellFormed, WellFormed
<1>2. Engine.gaps \in Turned!ConfigType
  <2>1. Turned!ConfigType = Inverted!ConfigType
    BY DEF Turned!ConfigType, Inverted!ConfigType, Turned!Whole, Inverted!Whole
  <2> QED
    BY <2>1, EngineAssumption
<1> QED
  BY <1>1, <1>2, BreakerAssumption, MaxBarsAssumption, FillAssumption

LEMMA DeliveredTurns ==
  ASSUME NEW n \in Nat, NEW F \in [1 .. n -> Bars], NEW T, NEW v,
         v.tolerance \in Nat, v.maxBars \in Nat
  PROVE  /\ Turned!TurnSet(Turned!TurnsOf(F, T, v), n)
         /\ Delivered!TransitionsOf(F, T, v) = Turned!Changes(Turned!TurnsOf(F, T, v))
<1>1. Turned!TurnSet(Turned!TurnsOf(F, T, v), n)
  BY TurnedAssumed, Turned!TurnsAreSet
<1>2. Turned!TransitionsOf(F, T, v) = Turned!Changes(Turned!TurnsOf(F, T, v))
  BY TurnedAssumed, Turned!TransitionsAre
<1>3. Delivered!TransitionsOf(F, T, v) = Turned!TransitionsOf(F, T, v)
  BY SameDelivery
<1> QED
  BY <1>1, <1>2, <1>3

LEMMA DeliveredOnce ==
  ASSUME NEW R, NEW n, Turned!TurnSet(R, n), NEW t \in Turned!Changes(R),
         NEW u \in Turned!Changes(R), t.bar = u.bar
  PROVE  t = u
BY TurnedAssumed, Turned!ChangesApart

LEMMA DeliveredBy ==
  ASSUME NEW R, NEW n, Turned!TurnSet(R, n), NEW t \in Turned!Changes(R)
  PROVE  \E x \in R : t.bar = x.bar /\ t.direction = Turned!Opposite(x.leg.direction)
<1>1. \E x \in R : /\ t = Turned!Transition(R, x) /\ t.bar = x.bar
                   /\ t.direction = Turned!Opposite(x.leg.direction)
                   /\ t.from = Turned!StateBefore(R, x)
                   /\ \A y \in R : Turned!Earlier(y, x) => y.bar < x.bar
  BY TurnedAssumed, Turned!ChangeIs
<1> QED
  BY <1>1

\* No bar turns delivery twice.
LEMMA TransitionsApart ==
  ASSUME NEW F, NEW T, NEW n, FrameOf(F, T, n), NEW v, v.tolerance \in Nat, v.maxBars \in Nat
  PROVE  LET S == Delivered!TransitionsOf(F, T, v) IN
         /\ \A t \in S : t.bar \in 1 .. n /\ t.direction \in Directions
         /\ \A t, u \in S : t.bar = u.bar => t = u
<1> DEFINE R == Turned!TurnsOf(F, T, v)
<1>1. n \in Nat /\ F \in [1 .. n -> Bars]
  BY DEF FrameOf
<1>2. Turned!TurnSet(R, n) /\ Delivered!TransitionsOf(F, T, v) = Turned!Changes(R)
  BY <1>1, DeliveredTurns
<1> HIDE DEF R
<1>3. \A t, u \in Turned!Changes(R) : t.bar = u.bar => t = u
  BY <1>2, DeliveredOnce
<1>4. ASSUME NEW t \in Turned!Changes(R)
      PROVE  t.bar \in 1 .. n /\ t.direction \in Directions
  <2>1. PICK x \in R : t.bar = x.bar /\ t.direction = Turned!Opposite(x.leg.direction)
    BY <1>2, DeliveredBy
  <2>2. x.bar \in 1 .. n
    BY <1>2 DEF Turned!TurnSet
  <2>3. Turned!Opposite(x.leg.direction) \in Directions
    BY DEF Turned!Opposite, Directions
  <2> QED
    BY <2>1, <2>2, <2>3
<1> QED
  BY <1>2, <1>3, <1>4

\* The state of delivery is that of the latest turn.
LEMMA DeliveryIsLatest ==
  ASSUME NEW S, NEW n \in Nat, \A t \in S : t.bar \in 1 .. n /\ t.direction \in Directions,
         \A t, u \in S : t.bar = u.bar => t = u, NEW k \in Nat
  PROVE  {t.direction : t \in Latest(Known(S, k))} = {Delivered!DeliveryAt(S, k)} \ {"undefined"}
<1> DEFINE E == {t \in S : t.bar <= k}
<1>1. Known(S, k) = E
  BY DEF Known
<1>2. CASE E = {}
  <2>1. Delivered!DeliveryAt(S, k) = "undefined"
    BY <1>2 DEF Delivered!DeliveryAt
  <2> QED
    BY <1>1, <1>2, <2>1, LatestOfNone
<1>3. CASE E # {}
  <2> DEFINE bars == {t.bar : t \in E}
             P(t) == \A u \in E : ~Delivered!PublishedBefore(t, u)
             c == CHOOSE t \in E : P(t)
  <2>1. Delivered!DeliveryAt(S, k) = c.direction
    BY <1>3 DEF Delivered!DeliveryAt
  <2>2. bars \in SUBSET Nat /\ bars # {} /\ \A b \in bars : b <= n
    BY <1>3
  <2>3. PICK b \in bars : \A a \in bars : a <= b
    BY <2>2, HasGreatest
  <2>4. PICK t \in E : t.bar = b
    BY <2>3
  <2>5. \A u \in E : u.bar \in Int /\ u.bar <= t.bar
    BY <2>2, <2>3, <2>4
  <2>6. \A u \in E : u.bar = t.bar => u = t
    OBVIOUS
  <2> HIDE DEF E
  <2>7. P(t)
    <3> SUFFICES ASSUME NEW u \in E, Delivered!PublishedBefore(t, u) PROVE FALSE
      OBVIOUS
    <3>1. t.bar = u.bar /\ t.direction # u.direction
      BY <2>4, <2>5 DEF Delivered!PublishedBefore
    <3> QED
      BY <2>6, <3>1
  <2>8. c \in E /\ P(c)
    BY <2>4, <2>7
  <2> HIDE DEF c
  <2>9. c = t
    <3>1. ~Delivered!PublishedBefore(c, t)
      BY <2>4, <2>8
    <3>2. c.bar = t.bar
      BY <2>4, <2>5, <2>8, <3>1 DEF Delivered!PublishedBefore
    <3> QED
      BY <2>6, <2>8, <3>2
  <2>10. Latest(E) = {t}
    BY <2>4, <2>5, <2>6, LatestIs
  <2>11. t.direction \in Directions
    BY <2>4 DEF E
  <2> QED
    BY <1>1, <2>1, <2>9, <2>10, <2>11 DEF Directions
<1> QED
  BY <1>2, <1>3

----------------------------------------------------------------------------
\* A gap that price closed through is mitigated from the bar on that inverts it.
LEMMA InvertedSpent ==
  ASSUME NEW F, NEW T, NEW n, FrameOf(F, T, n), NEW c, HasThresholds(c), c.minGap \in Nat,
         c.trigger = "close_through_far_edge",
         NEW i \in Inverted!InversionsOf(F, T, c), NEW k \in Nat, i.bar <= k
  PROVE  Inverted!FillStatus(
           Inverted!TrackZoneFill(F, T, c, i.source, Inverted!CloseTime(T, i.source.third)), k)
             = "mitigated"
<1>1. PICK z \in Inverted!GapsOf(F, T, c) :
        Inverted!Hits(F, T, c, z) # {} /\ i = Inverted!Inversion(F, T, c, z)
  BY DEF Inverted!InversionsOf
<1> DEFINE H == Inverted!Hits(F, T, c, z)
<1>2. i.source = z /\ i.bar = Min(H)
  BY <1>1, SameFills DEF Inverted!Inversion
<1>3. n \in Nat /\ F \in [1 .. n -> Bars]
  BY DEF FrameOf
<1>4. IsZone(z) /\ z.third \in 1 .. n
  <2>1. PICK x \in Directions \X (1 .. n) :
          z = Inverted!Gap(F, c, x[1], x[2]) /\ Inverted!IsGap(F, T, c, x[1], x[2])
    BY <1>1, <1>3 DEF Inverted!GapsOf, Inverted!Directions, Directions
  <2>2. /\ x[1] \in Directions /\ x[2] \in 1 .. n /\ x[2] - 2 \in 1 .. n
        /\ z.top > z.bottom
    BY <1>3, <2>1 DEF Inverted!IsGap
  <2>3. ASSUME NEW y \in 1 .. n
        PROVE  Inverted!Upper(c, F[y]) \in Int /\ Inverted!Lower(c, F[y]) \in Int
    BY BarOf DEF Inverted!Upper, Inverted!Lower
  <2>4. /\ z.direction = x[1] /\ z.third = x[2] /\ z.top \in Int /\ z.bottom \in Int
    BY <2>1, <2>2, <2>3 DEF Inverted!Gap, Directions
  <2> QED
    BY <2>2, <2>4 DEF IsZone
<1>5. Blocks!BarsFrom(T, Blocks!CloseTime(T, z.third)) = z.third + 1 .. n
  BY <1>4, FromIs
<1>6. /\ H \subseteq z.third + 1 .. n
      /\ \A h \in H : Beyond(Opposite(z.direction), F[h].close, Blocks!FarEdge(z))
  BY <1>5, SameFills DEF Inverted!Hits, Inverted!Window, Inverted!TriggerHit
<1>7. H \in SUBSET Nat /\ H # {} /\ \A h \in H : h <= n
  BY <1>1, <1>3, <1>4, <1>6
<1> DEFINE h == i.bar
<1>8. h \in H
  <2> HIDE DEF H
  <2> QED
    BY <1>2, <1>3, <1>7, MinMax
<1>9. /\ h \in z.third + 1 .. n /\ h \in 1 .. n /\ h <= k
      /\ Beyond(Opposite(z.direction), F[h].close, Blocks!FarEdge(z))
  <2>1. h \in z.third + 1 .. n
    BY <1>6, <1>8
  <2>2. h \in 1 .. n
    BY <1>3, <1>4, <2>1
  <2> QED
    BY <1>6, <1>8, <2>1, <2>2
<1> HIDE DEF H, h
<1>10. Blocks!Reach(z, F[h]) \in Int /\ ~Blocks!Deeper(z, Blocks!FarEdge(z), Blocks!Reach(z, F[h]))
  BY <1>4, <1>9, ReachIs
<1>11. Blocks!Depth(z, Blocks!Reach(z, F[h])) = z.top - z.bottom
  BY <1>4, <1>10, DepthIs
<1>12. Blocks!Fills(z, Blocks!Reach(z, F[h]), c.full)
  BY <1>4, <1>10, <1>11, FillsIs DEF HasThresholds
<1>13. Blocks!FillStatus(Blocks!TrackZoneFill(F, T, c, z, Blocks!CloseTime(T, z.third)), k)
         = "mitigated"
  BY <1>4, <1>9, <1>12, FilledStatus
<1> QED
  BY <1>2, <1>13, SameFills

\* The block a breaker comes from is mitigated from the breaker's bar on.
LEMMA SourceSpent ==
  ASSUME BInv, NEW x \in BreakersAt(index), NEW k \in Nat, x.bar <= k
  PROVE  Inverted!FillStatus(BlockFillsAt(index, x.source), k) = "mitigated"
<1> DEFINE b == x.source
           f == x.failure
           F == SeenBars(index)
           T == SeenTimes(index)
<1>1. index \in 0 .. Len(frame)
  BY DEF BInv, IInv, TypeOK
<1>2. /\ b \in BlocksAt(index) /\ f \in Failures(index, b)
      /\ b.bar \in 1 .. index /\ f \in b.bar + 1 .. index /\ x.bar \in f .. index
  BY <1>1, BreakerIs, BreakerBar
<1>3. FrameOf(F, T, index)
  BY <1>1, SeenFrame
<1>4. IsZone(b) /\ Blocks!Fills(b, Blocks!Reach(b, F[f]), options.blocks.full)
  BY <1>1, <1>2, FailuresAre
<1>5. HasThresholds(options.blocks) /\ f <= k
  BY <1>2, OptionFields
<1> HIDE DEF b, f, F, T
<1>6. Blocks!FillStatus(Blocks!BlockFills(F, T, options.blocks, b), k) = "mitigated"
  BY <1>2, <1>3, <1>4, <1>5, FilledStatus DEF Blocks!BlockFills
<1> QED
  BY <1>6, SameFills DEF BlockFillsAt, b, F, T

\* A breaker that is mitigated at bar k died by a fill up to then.
LEMMA BreakerDeath ==
  ASSUME BInv, NEW x \in BreakersAt(index), NEW k \in Nat,
         Inverted!FillStatus(BreakerFillsAt(index, x), k) = "mitigated"
  PROVE  \E u \in BreakerFillsAt(index, x) : u.bar <= k /\ u.after = "mitigated"
<1> DEFINE U == BreakerFillsAt(index, x)
           seen == {u \in U : u.bar <= k}
           P(u) == \A v \in seen : v.bar <= u.bar
           c == CHOOSE u \in seen : P(u)
<1>1. index \in 0 .. Len(frame)
  BY DEF BInv, IInv, TypeOK
<1>2. FrameOf(SeenBars(index), SeenTimes(index), index)
  BY <1>1, SeenFrame
<1>3. x.bar \in 1 .. index
  <2>1. /\ x.bar \in x.failure .. index /\ x.failure \in x.source.bar + 1 .. index
        /\ x.source.bar \in 1 .. index
    BY <1>1, BreakerBar
  <2> QED
    BY <1>1, <2>1
<1>4. \A u \in U : u.bar \in x.bar + 1 .. index
  BY <1>2, <1>3, FillsAre DEF BreakerFillsAt
<1> HIDE DEF U
<1>5. seen # {} /\ c.after = "mitigated"
  BY SameFills DEF Blocks!FillStatus, U
<1>6. \E u \in seen : P(u)
  <2> DEFINE bars == {u.bar : u \in seen}
  <2>1. bars \in SUBSET Nat /\ bars # {} /\ \A b \in bars : b <= k
    <3>1. \A u \in seen : u.bar \in Nat /\ u.bar <= k
      BY <1>3, <1>4
    <3> QED
      BY <1>5, <3>1
  <2>2. PICK b \in bars : \A a \in bars : a <= b
    BY <2>1, HasGreatest
  <2>3. PICK u \in seen : u.bar = b
    BY <2>2
  <2>4. P(u)
    BY <2>2, <2>3
  <2> QED
    BY <2>4
<1>7. c \in seen
  BY <1>6
<1> HIDE DEF c
<1> QED
  BY <1>5, <1>7 DEF U

----------------------------------------------------------------------------
\* What a section holds is what is active of the part of the view it reads.
LEMMA StructureFields ==
  ASSUME NEW v, NEW k
  PROVE  /\ StructureSection(v, k).direction
              = (IF StateAt(v.breaks, k) = "undefined" THEN "neutral" ELSE StateAt(v.breaks, k))
         /\ StructureSection(v, k).latest = Latest(Range(ObservableBreaks(v.breaks, k)))
BY DEF StructureSection

LEMMA ImbalanceFields ==
  ASSUME NEW v, NEW k, NEW p
  PROVE  /\ ImbalanceSection(v, k, p).gaps
              = [d \in Directions |-> Items({x \in Active(v.gaps, k) : x.item.direction = d})]
         /\ ImbalanceSection(v, k, p).inverted = Items(Active(v.inverted, k))
BY DEF ImbalanceSection

LEMMA BlockField ==
  ASSUME NEW v, NEW k
  PROVE  InstitutionalSection(v, k).blocks
           = [d \in Directions |-> Items({x \in Active(v.blocks, k) : x.item.direction = d})]
BY DEF InstitutionalSection

LEMMA BreakerField ==
  ASSUME NEW v, NEW k
  PROVE  InstitutionalSection(v, k).breakers
           = [d \in Directions |-> {x \in Items(Active(v.breakers, k)) : x.direction = d}]
BY DEF InstitutionalSection

LEMMA CompositeFields ==
  ASSUME NEW v, NEW k
  PROVE  /\ CompositeSection(v, k).delivery = Delivered!DeliveryAt(v.transitions, k)
         /\ CompositeSection(v, k).latestTurn = Latest(Known(v.transitions, k))
         /\ CompositeSection(v, k).unicorns = Items(Active(v.unicorns, k))
BY DEF CompositeSection

\* An item is in force when it is known, none of its ends has come, and it is not
\* mitigated.
LEMMA InForce ==
  ASSUME NEW S, NEW k, NEW a
  PROVE  a \in Items(Active(S, k))
           <=> \E x \in S : /\ a = x.item /\ x.bar <= k /\ \A e \in x.ends : e > k
                            /\ Inverted!FillStatus(x.fills, k) # "mitigated"
BY DEF Items, Active, Known

LEMMA ViewFields ==
  ASSUME NEW n
  PROVE  LET F == SeenBars(n)
             T == SeenTimes(n)
             c == Engine.gaps
             at(k) == Inverted!CloseTime(T, k)
             v == View(n)
         IN  /\ v.breaks = ObservableBreaks(breaks, n)
             /\ v.transitions = Delivered!TransitionsOf(F, T, Engine.delivery)
             /\ v.gaps = {Tracked(z, z.third, Inverted!TrackZoneFill(F, T, c, z, at(z.third)), {}) :
                            z \in Inverted!GapsOf(F, T, c)}
             /\ v.inverted = {Tracked(i, i.bar,
                                      Inverted!TrackZoneFill(F, T, c, i.zone, at(i.bar)), {}) :
                                i \in Inverted!InversionsOf(F, T, c)}
             /\ v.blocks = {Tracked(b, b.bar, BlockFillsAt(n, b), Blocks!ClosesAgainst(F, T, b)) :
                              b \in BlocksAt(n)}
             /\ v.breakers = {Tracked(x, x.bar, BreakerFillsAt(n, x), {}) : x \in BreakersAt(n)}
             /\ v.unicorns = {Tracked(x, x.bar, UnicornFillsAt(n, Engine.unicorn, x),
                                      DeathsAt(n, x)) : x \in UnicornsAt(n, Engine.unicorn)}
BY DEF View

\* The sections of the state at the close of a bar describe one market
\* (ICTEngineView.state_at): trend, delivery, gaps, blocks, breakers and unicorns
\* agree, whatever the detectors' configurations.
THEOREM SectionsAgreeHolds == BreakersSpec => []SectionsAgree
<1>1. ASSUME BInv, NEW k \in 1 .. index, NEW v, v = View(index)
      PROVE  LET structure     == StructureSection(v, k)
                 imbalance     == ImbalanceSection(v, k, frame[k].close)
                 institutional == InstitutionalSection(v, k)
                 composites    == CompositeSection(v, k)
                 breakers == UNION {institutional.breakers[d] : d \in Directions}
                 blocks   == UNION {institutional.blocks[d] : d \in Directions}
                 gaps     == UNION {imbalance.gaps[d] : d \in Directions}
             IN  /\ {b.direction : b \in structure.latest} = {structure.direction} \ {"neutral"}
                 /\ {t.direction : t \in composites.latestTurn}
                      = {composites.delivery} \ {"undefined"}
                 /\ Engine.gaps.trigger = "close_through_far_edge" =>
                      \A i \in imbalance.inverted : i.source \notin gaps
                 /\ \A x \in breakers : x.source \notin blocks
                 /\ \A x \in composites.unicorns : x.breaker \in breakers
  <2> DEFINE F == SeenBars(index)
             T == SeenTimes(index)
             structure     == StructureSection(v, k)
             imbalance     == ImbalanceSection(v, k, frame[k].close)
             institutional == InstitutionalSection(v, k)
             composites    == CompositeSection(v, k)
             breakers == UNION {institutional.breakers[d] : d \in Directions}
             blocks   == UNION {institutional.blocks[d] : d \in Directions}
             gaps     == UNION {imbalance.gaps[d] : d \in Directions}
  <2>1. index \in 0 .. Len(frame) /\ index \in Nat /\ k \in Nat /\ k <= index
    BY <1>1 DEF BInv, IInv, TypeOK
  <2>2. FrameOf(F, T, index)
    BY <1>1, <2>1, SeenFrame
  <2>3. /\ HasThresholds(Engine.gaps) /\ Engine.gaps.minGap \in Nat
        /\ Engine.delivery.tolerance \in Nat /\ Engine.delivery.maxBars \in Nat
        /\ Engine.unicorn \in UnicornConfigs
    BY EngineAssumption, SameFills
    DEF Inverted!ConfigType, Delivered!CisdConfigType, HasThresholds
  <2>4. Engine.unicorn.minOverlap \in Nat
    BY <2>3, UnicornAssumption DEF Joined!UnicornConfigType
  <2>5. {b.direction : b \in structure.latest} = {structure.direction} \ {"neutral"}
    <3>1. v.breaks = ObservableBreaks(breaks, index)
      BY <1>1, ViewFields
    <3>2. /\ structure.latest = Latest(Range(ObservableBreaks(v.breaks, k)))
          /\ structure.direction
               = IF StateAt(v.breaks, k) = "undefined" THEN "neutral" ELSE StateAt(v.breaks, k)
      BY StructureFields
    <3> HIDE DEF structure
    <3> QED
      BY <1>1, <2>1, <3>1, <3>2, TrendIsLatest
  <2>6. {t.direction : t \in composites.latestTurn} = {composites.delivery} \ {"undefined"}
    <3> DEFINE S == Delivered!TransitionsOf(F, T, Engine.delivery)
    <3>1. v.transitions = S
      BY <1>1, ViewFields
    <3>2. /\ \A t \in S : t.bar \in 1 .. index /\ t.direction \in Directions
          /\ \A t, u \in S : t.bar = u.bar => t = u
      BY <2>2, <2>3, TransitionsApart
    <3> HIDE DEF S
    <3>3. /\ composites.latestTurn = Latest(Known(S, k))
          /\ composites.delivery = Delivered!DeliveryAt(S, k)
      BY <3>1, CompositeFields
    <3> HIDE DEF composites
    <3> QED
      BY <2>1, <3>2, <3>3, DeliveryIsLatest
  <2>7. \A a : a \in gaps => \E x \in v.gaps : /\ a = x.item /\ x.bar <= k
                                               /\ Inverted!FillStatus(x.fills, k) # "mitigated"
    <3>1. imbalance.gaps
            = [d \in Directions |-> Items({x \in Active(v.gaps, k) : x.item.direction = d})]
      BY ImbalanceFields
    <3>2. gaps \subseteq Items(Active(v.gaps, k))
      BY <3>1 DEF Items
    <3> HIDE DEF gaps
    <3> QED
      BY <3>2, InForce
  <2>8. \A a : a \in blocks => \E x \in v.blocks : /\ a = x.item /\ x.bar <= k
                                                   /\ Inverted!FillStatus(x.fills, k) # "mitigated"
    <3>1. institutional.blocks
            = [d \in Directions |-> Items({x \in Active(v.blocks, k) : x.item.direction = d})]
      BY BlockField
    <3>2. blocks \subseteq Items(Active(v.blocks, k))
      BY <3>1 DEF Items
    <3> HIDE DEF blocks
    <3> QED
      BY <3>2, InForce
  <2>9. \A a : a \in breakers
          <=> /\ a.direction \in Directions
              /\ \E x \in v.breakers : /\ a = x.item /\ x.bar <= k /\ \A e \in x.ends : e > k
                                       /\ Inverted!FillStatus(x.fills, k) # "mitigated"
    <3>1. institutional.breakers
            = [d \in Directions |-> {x \in Items(Active(v.breakers, k)) : x.direction = d}]
      BY BreakerField
    <3>2. \A a : a \in breakers <=> a \in Items(Active(v.breakers, k)) /\ a.direction \in Directions
      BY <3>1
    <3> HIDE DEF breakers
    <3> QED
      BY <3>2, InForce
  <2>10. ASSUME Engine.gaps.trigger = "close_through_far_edge", NEW i \in imbalance.inverted
         PROVE  i.source \notin gaps
    <3>1. v.inverted = {Tracked(j, j.bar, Inverted!TrackZoneFill(F, T, Engine.gaps, j.zone,
                                                Inverted!CloseTime(T, j.bar)), {}) :
                          j \in Inverted!InversionsOf(F, T, Engine.gaps)}
      BY <1>1, ViewFields
    <3>2. v.gaps = {Tracked(z, z.third, Inverted!TrackZoneFill(F, T, Engine.gaps, z,
                                          Inverted!CloseTime(T, z.third)), {}) :
                      z \in Inverted!GapsOf(F, T, Engine.gaps)}
      BY <1>1, ViewFields
    <3> HIDE DEF gaps, F, T
    <3>3. i \in Items(Active(v.inverted, k))
      <4>1. imbalance.inverted = Items(Active(v.inverted, k))
        BY ImbalanceFields
      <4> HIDE DEF imbalance
      <4> QED
        BY <2>10, <4>1
    <3>4. PICK x \in v.inverted : i = x.item /\ x.bar <= k
      BY <3>3, InForce
    <3>5. i \in Inverted!InversionsOf(F, T, Engine.gaps) /\ i.bar <= k
      BY <3>1, <3>4 DEF Tracked
    <3>6. Inverted!FillStatus(Inverted!TrackZoneFill(F, T, Engine.gaps, i.source,
                                Inverted!CloseTime(T, i.source.third)), k) = "mitigated"
      BY <2>1, <2>2, <2>3, <2>10, <3>5, InvertedSpent
    <3> SUFFICES ASSUME i.source \in gaps PROVE FALSE
      OBVIOUS
    <3>7. PICK y \in v.gaps : /\ i.source = y.item
                              /\ Inverted!FillStatus(y.fills, k) # "mitigated"
      BY <2>7
    <3>8. y.fills = Inverted!TrackZoneFill(F, T, Engine.gaps, i.source,
                      Inverted!CloseTime(T, i.source.third))
      BY <3>2, <3>7 DEF Tracked
    <3> QED
      BY <3>6, <3>7, <3>8
  <2>11. v.breakers = {Tracked(x, x.bar, BreakerFillsAt(index, x), {}) : x \in BreakersAt(index)}
    BY <1>1, ViewFields
  <2>12. ASSUME NEW x \in breakers PROVE x.source \notin blocks
    <3>1. v.blocks = {Tracked(b, b.bar, BlockFillsAt(index, b), Blocks!ClosesAgainst(F, T, b)) :
                        b \in BlocksAt(index)}
      BY <1>1, ViewFields
    <3> HIDE DEF breakers, blocks, F, T
    <3>2. PICK y \in v.breakers : x = y.item /\ y.bar <= k
      BY <2>9
    <3>3. x \in BreakersAt(index) /\ x.bar <= k
      BY <2>11, <3>2 DEF Tracked
    <3>4. Inverted!FillStatus(BlockFillsAt(index, x.source), k) = "mitigated"
      BY <1>1, <2>1, <3>3, SourceSpent
    <3> SUFFICES ASSUME x.source \in blocks PROVE FALSE
      OBVIOUS
    <3>5. PICK z \in v.blocks : /\ x.source = z.item
                                /\ Inverted!FillStatus(z.fills, k) # "mitigated"
      BY <2>8
    <3>6. z.fills = BlockFillsAt(index, x.source)
      BY <3>1, <3>5 DEF Tracked
    <3> QED
      BY <3>4, <3>5, <3>6
  <2>13. ASSUME NEW x \in composites.unicorns PROVE x.breaker \in breakers
    <3>1. v.unicorns = {Tracked(y, y.bar, UnicornFillsAt(index, Engine.unicorn, y),
                                DeathsAt(index, y)) : y \in UnicornsAt(index, Engine.unicorn)}
      BY <1>1, ViewFields
    <3> HIDE DEF breakers
    <3>2. x \in Items(Active(v.unicorns, k))
      <4>1. composites.unicorns = Items(Active(v.unicorns, k))
        BY CompositeFields
      <4> HIDE DEF composites
      <4> QED
        BY <2>13, <4>1
    <3>3. PICK y \in v.unicorns : x = y.item /\ y.bar <= k /\ \A e \in y.ends : e > k
      BY <3>2, InForce
    <3>4. /\ x \in UnicornsAt(index, Engine.unicorn) /\ x.bar <= k
          /\ \A e \in DeathsAt(index, x) : e > k
      BY <3>1, <3>3 DEF Tracked
    <3> DEFINE b == x.breaker
    <3>5. b \in BreakersAt(index) /\ b.bar <= x.bar /\ x.bar \in 1 .. index
      BY <1>1, <2>1, <2>4, <3>4, UnicornIs
    <3>6. IsZone(b) /\ b.bar \in b.failure .. index /\ b.failure \in b.source.bar + 1 .. index
          /\ b.source.bar \in 1 .. index
      BY <1>1, <2>1, <3>5, BreakerBar
    <3>7. b.bar <= k
      BY <2>1, <3>4, <3>5, <3>6
    <3>8. Inverted!FillStatus(BreakerFillsAt(index, b), k) # "mitigated"
      <4> SUFFICES ASSUME Inverted!FillStatus(BreakerFillsAt(index, b), k) = "mitigated"
                   PROVE  FALSE
        OBVIOUS
      <4>1. PICK u \in BreakerFillsAt(index, b) : u.bar <= k /\ u.after = "mitigated"
        BY <1>1, <2>1, <3>5, BreakerDeath
      <4>2. u.bar \in DeathsAt(index, x)
        BY <4>1 DEF DeathsAt
      <4>3. b.bar \in 1 .. index
        BY <2>1, <3>6
      <4>4. u.bar \in b.bar + 1 .. index
        BY <2>2, <4>3, FillsAre DEF BreakerFillsAt
      <4> QED
        BY <2>1, <3>4, <4>1, <4>2, <4>3, <4>4
    <3> HIDE DEF b
    <3>9. \E z \in v.breakers : /\ b = z.item /\ z.bar <= k /\ \A e \in z.ends : e > k
                                /\ Inverted!FillStatus(z.fills, k) # "mitigated"
      <4>1. Tracked(b, b.bar, BreakerFillsAt(index, b), {}) \in v.breakers
        BY <2>11, <3>5
      <4> QED
        BY <3>7, <3>8, <4>1 DEF Tracked
    <3>10. b.direction \in Directions
      BY <3>6 DEF IsZone
    <3> QED
      BY <2>9, <3>9, <3>10 DEF b
  <2> HIDE DEF structure, imbalance, composites, breakers, blocks, gaps
  <2>14. /\ {b.direction : b \in structure.latest} = {structure.direction} \ {"neutral"}
         /\ {t.direction : t \in composites.latestTurn} = {composites.delivery} \ {"undefined"}
         /\ Engine.gaps.trigger = "close_through_far_edge" =>
              \A i \in imbalance.inverted : i.source \notin gaps
         /\ \A x \in breakers : x.source \notin blocks
         /\ \A x \in composites.unicorns : x.breaker \in breakers
    BY <2>5, <2>6, <2>10, <2>12, <2>13
  <2> QED
    BY <2>14 DEF structure, imbalance, institutional, composites, breakers, blocks, gaps
<1>2. BInv => SectionsAgree
  BY <1>1 DEF SectionsAgree
<1> QED
  BY <1>2, BreakersInv, PTL

----------------------------------------------------------------------------
(***************************************************************************)
(* Replaying a market state: what the view of the complete frame says at    *)
(* the close of a bar is what the view of the bars closed by then says.     *)
(***************************************************************************)

\* What the tracked items S of a frame say of the bars up to k is what those of its
\* first k bars, P, say of them.
TellsOf(x, y, k) ==
  /\ y.item = x.item /\ y.bar = x.bar
  /\ Inverted!FillStatus(y.fills, k) = Inverted!FillStatus(x.fills, k)
  /\ (\A e \in y.ends : e > k) <=> (\A e \in x.ends : e > k)

Alike(S, P, k) ==
  /\ \A x \in S : x.bar <= k => \E y \in P : TellsOf(x, y, k)
  /\ \A y \in P : y.bar <= k => \E x \in S : TellsOf(x, y, k)

\* What is in force then has the same items, with the bars that confirmed them.
Named(S) == {[item |-> x.item, bar |-> x.bar] : x \in S}

LEMMA ActiveAlike ==
  ASSUME NEW S, NEW P, NEW k, Alike(S, P, k)
  PROVE  Named(Active(S, k)) = Named(Active(P, k))
<1>1. \A a : a \in Named(Active(S, k)) => a \in Named(Active(P, k))
  <2> TAKE a
  <2> HAVE a \in Named(Active(S, k))
  <2>1. PICK x \in Active(S, k) : a = [item |-> x.item, bar |-> x.bar]
    BY DEF Named
  <2>2. x \in S /\ x.bar <= k
    BY DEF Active, Known
  <2>3. PICK y \in P : TellsOf(x, y, k)
    BY <2>2 DEF Alike
  <2>4. y \in Active(P, k)
    BY <2>2, <2>3 DEF Active, Known, TellsOf
  <2> QED
    BY <2>1, <2>3, <2>4 DEF Named, TellsOf
<1>2. \A a : a \in Named(Active(P, k)) => a \in Named(Active(S, k))
  <2> TAKE a
  <2> HAVE a \in Named(Active(P, k))
  <2>1. PICK y \in Active(P, k) : a = [item |-> y.item, bar |-> y.bar]
    BY DEF Named
  <2>2. y \in P /\ y.bar <= k
    BY DEF Active, Known
  <2>3. PICK x \in S : TellsOf(x, y, k)
    BY <2>2 DEF Alike
  <2>4. x \in Active(S, k)
    BY <2>2, <2>3 DEF Active, Known, TellsOf
  <2> QED
    BY <2>1, <2>3, <2>4 DEF Named, TellsOf
<1> QED
  BY <1>1, <1>2

LEMMA NamedIs ==
  ASSUME NEW S
  PROVE  /\ Items(S) = {a.item : a \in Named(S)}
         /\ LatestItem(S) = Items(Latest(Named(S)))
<1>1. \A i : i \in Items(S) <=> \E x \in S : i = x.item
  BY DEF Items
<1>2. \A i : i \in {a.item : a \in Named(S)} <=> \E x \in S : i = [item |-> x.item, bar |-> x.bar].item
  BY DEF Named
<1>3. \A i : i \in Items(S) <=> i \in {a.item : a \in Named(S)}
  BY <1>1, <1>2
<1>4. LatestItem(S) = Items(Latest(Named(S)))
  BY DEF Named, LatestItem
<1> QED
  BY <1>3, <1>4

\* Those of one direction.
Toward(S, d) == {x \in S : x.item.direction = d}

LEMMA NamedToward ==
  ASSUME NEW S, NEW d
  PROVE  Named(Toward(S, d)) = {a \in Named(S) : a.item.direction = d}
BY DEF Named, Toward

LEMMA ItemsAlike ==
  ASSUME NEW S, NEW P, NEW k, Alike(S, P, k)
  PROVE  Items(Active(S, k)) = Items(Active(P, k))
BY ActiveAlike, NamedIs

LEMMA LatestAlike ==
  ASSUME NEW S, NEW P, NEW k, Alike(S, P, k)
  PROVE  LatestItem(Active(S, k)) = LatestItem(Active(P, k))
BY ActiveAlike, NamedIs

LEMMA TowardAlike ==
  ASSUME NEW S, NEW P, NEW k, Alike(S, P, k), NEW d
  PROVE  /\ Items(Toward(Active(S, k), d)) = Items(Toward(Active(P, k), d))
         /\ LatestItem(Toward(Active(S, k), d)) = LatestItem(Toward(Active(P, k), d))
<1>1. Named(Toward(Active(S, k), d)) = Named(Toward(Active(P, k), d))
  BY ActiveAlike, NamedToward
<1> QED
  BY <1>1, NamedIs

----------------------------------------------------------------------------
\* The first k bars of those walked so far.
LEMMA SeenPrefix ==
  ASSUME BInv, NEW k \in 0 .. index
  PROVE  TruncatedTo(SeenBars(index), SeenTimes(index), index, SeenBars(k), SeenTimes(k), k)
<1>1. index \in 0 .. Len(frame) /\ Len(frame) \in Nat
  BY DEF BInv, IInv, TypeOK
<1>2. k \in 0 .. Len(frame) /\ \A i \in 1 .. k : i \in 1 .. index
  BY <1>1
<1>3. /\ FrameOf(SeenBars(index), SeenTimes(index), index)
      /\ \A i \in 1 .. index : SeenBars(index)[i] = frame[i] /\ SeenTimes(index)[i] = opens[i]
  BY <1>1, SeenFrame
<1>4. /\ FrameOf(SeenBars(k), SeenTimes(k), k)
      /\ \A i \in 1 .. k : SeenBars(k)[i] = frame[i] /\ SeenTimes(k)[i] = opens[i]
  BY <1>2, SeenFrame
<1> QED
  BY <1>2, <1>3, <1>4 DEF TruncatedTo, FrameOf

\* The breaks up to bar k are the first of the record.
LEMMA ObservablePrefix ==
  ASSUME NEW F, NEW c, NEW B, NEW n, Recorded(F, c, B, n), NEW k \in 0 .. n
  PROVE  /\ \E p \in 0 .. Len(B) : DOMAIN ObservableBreaks(B, k) = 1 .. p
         /\ ObservableBreaks(B, k) \in Seq(BreakRecords)
         /\ \A m \in DOMAIN ObservableBreaks(B, k) :
              m \in DOMAIN B /\ B[m].bar <= k /\ ObservableBreaks(B, k)[m] = B[m]
         /\ \A m \in DOMAIN B : m \in DOMAIN ObservableBreaks(B, k) \/ B[m].bar > k
<1> DEFINE K == {m \in DOMAIN B : B[m].bar <= k}
           O == ObservableBreaks(B, k)
<1>1. /\ B \in Seq(BreakRecords) /\ Len(B) \in Nat /\ DOMAIN B = 1 .. Len(B)
      /\ \A m \in DOMAIN B : B[m] \in BreakRecords /\ B[m].bar \in Int
      /\ \A l, m \in DOMAIN B : l < m => B[l].bar < B[m].bar
      /\ k \in Int
  BY DEF Recorded, BeyondLevel
<1>2. O = [m \in K |-> B[m]]
  BY DEF ObservableBreaks, Restrict
<1>3. \E p \in 0 .. Len(B) : K = 1 .. p
  <2>1. CASE K = {}
    BY <1>1, <2>1
  <2>2. CASE K # {}
    <3>1. K \in SUBSET Nat /\ Len(B) \in Nat /\ \A m \in K : m <= Len(B)
      BY <1>1
    <3>2. PICK p \in K : \A m \in K : m <= p
      <4> HIDE DEF K
      <4> QED
        BY <2>2, <3>1, HasGreatest
    <3>3. p \in 1 .. Len(B) /\ B[p].bar <= k
      BY <1>1, <3>2
    <3>4. \A m \in 1 .. p : m \in K
      <4> TAKE m \in 1 .. p
      <4>1. m \in DOMAIN B /\ B[m].bar \in Int /\ B[p].bar \in Int
        BY <1>1, <3>3
      <4>2. m = p \/ B[m].bar < B[p].bar
        BY <1>1, <3>3, <4>1
      <4> QED
        BY <1>1, <3>3, <4>1, <4>2
    <3>5. \A m \in K : m \in 1 .. p
      BY <1>1, <3>2
    <3> QED
      BY <3>3, <3>4, <3>5
  <2> QED
    BY <2>1, <2>2
<1>4. PICK p \in 0 .. Len(B) : K = 1 .. p
  BY <1>3
<1>5. \A m \in K : m \in DOMAIN B /\ B[m] \in BreakRecords /\ B[m].bar <= k
  BY <1>1
<1>6. \A m \in DOMAIN B : m \in K \/ B[m].bar > k
  BY <1>1
<1> HIDE DEF K, O
<1>7. DOMAIN O = K /\ \A m \in K : O[m] = B[m]
  BY <1>2
<1>8. p \in Nat /\ O \in [1 .. p -> BreakRecords]
  BY <1>1, <1>2, <1>4, <1>5
<1>9. O \in Seq(BreakRecords)
  BY <1>8
<1> QED
  BY <1>4, <1>5, <1>6, <1>7, <1>9 DEF O

LEMMA RecordPrefix ==
  ASSUME NEW F, NEW c, NEW B, NEW n, Recorded(F, c, B, n), NEW k \in 0 .. n
  PROVE  GrowsTo(F, c, ObservableBreaks(B, k), k, B, n)
<1> DEFINE O == ObservableBreaks(B, k)
<1>1. PICK p \in 0 .. Len(B) : DOMAIN O = 1 .. p
  BY ObservablePrefix
<1>2. O \in Seq(BreakRecords)
  BY ObservablePrefix
<1>3. \A m \in DOMAIN O : m \in DOMAIN B /\ B[m].bar <= k /\ O[m] = B[m]
  BY ObservablePrefix
<1>4. \A m \in DOMAIN B : m \in DOMAIN O \/ B[m].bar > k
  BY ObservablePrefix
<1>5. /\ F \in Seq(Bars) /\ c \in Configs /\ n \in 0 .. Len(F) /\ Len(F) \in Nat
      /\ B \in Seq(BreakRecords) /\ Len(B) \in Nat
      /\ \A m \in DOMAIN B : BeyondLevel(F, c, B[m])
      /\ \A l, m \in DOMAIN B : l < m => B[l].bar < B[m].bar
  BY DEF Recorded
<1> HIDE DEF O
<1>6. Recorded(F, c, O, k)
  <2>1. k \in 0 .. Len(F)
    BY <1>5
  <2>2. \A m \in DOMAIN O : BeyondLevel(F, c, O[m]) /\ O[m].bar <= k
    BY <1>3, <1>5
  <2>3. \A l, m \in DOMAIN O : l < m => O[l].bar < O[m].bar
    BY <1>3, <1>5
  <2> QED
    BY <1>2, <1>5, <2>1, <2>2, <2>3 DEF Recorded
<1>7. Len(O) = p
  BY <1>1, <1>2
<1>8. Extends(B, O, k)
  BY <1>1, <1>3, <1>4, <1>7 DEF Extends
<1>9. k <= n
  BY <1>5
<1> QED
  BY <1>6, <1>8, <1>9 DEF GrowsTo, O

\* Asking again up to an earlier bar asks the record.
LEMMA ObservableAgain ==
  ASSUME NEW B, NEW n \in Int, NEW k \in Int, k <= n, \A m \in DOMAIN B : B[m].bar \in Int
  PROVE  ObservableBreaks(ObservableBreaks(B, n), k) = ObservableBreaks(B, k)
<1> DEFINE O == ObservableBreaks(B, n)
           K == {m \in DOMAIN B : B[m].bar <= k}
<1>1. DOMAIN O = {m \in DOMAIN B : B[m].bar <= n} /\ \A m \in DOMAIN O : O[m] = B[m]
  BY DEF ObservableBreaks, Restrict
<1>2. ObservableBreaks(B, k) = [m \in K |-> B[m]]
  BY DEF ObservableBreaks, Restrict
<1>3. ObservableBreaks(O, k) = [m \in {m \in DOMAIN O : O[m].bar <= k} |-> O[m]]
  BY DEF ObservableBreaks, Restrict
<1> HIDE DEF O
<1>4. {m \in DOMAIN O : O[m].bar <= k} = K
  BY <1>1
<1>5. \A m \in K : O[m] = B[m]
  BY <1>1
<1> HIDE DEF K
<1>6. ObservableBreaks(O, k) = [m \in K |-> O[m]]
  BY <1>3, <1>4
<1> QED
  BY <1>2, <1>5, <1>6 DEF O

\* The view over the first n bars holds the record up to bar n, of which a query at
\* bar k reads the part up to bar k.
LEMMA BreaksSeen ==
  ASSUME BInv, NEW n \in Nat, NEW k \in Nat, k <= n
  PROVE  ObservableBreaks(View(n).breaks, k) = ObservableBreaks(breaks, k)
<1>1. \A m \in DOMAIN breaks : breaks[m].bar \in Int
  BY BreakFields DEF BInv, IInv
<1>2. View(n).breaks = ObservableBreaks(breaks, n)
  BY ViewFields
<1> QED
  BY <1>1, <1>2, ObservableAgain

\* _structure_at reads the breaks up to the decision and nothing else.
LEMMA StructureReplayed ==
  ASSUME BInv, NEW k \in 1 .. index
  PROVE  StructureSection(View(index), k) = StructureSection(View(k), k)
<1>1. index \in Nat /\ k \in Nat /\ k <= index
  BY DEF BInv, IInv, TypeOK
<1>2. ObservableBreaks(View(index).breaks, k) = ObservableBreaks(View(k).breaks, k)
  BY <1>1, BreaksSeen
<1> QED
  BY <1>2 DEF StructureSection, StateAt

----------------------------------------------------------------------------
\* The detectors of the market state find what those of the other proofs find.
LEMMA SameInverted ==
  ASSUME NEW F, NEW T, NEW c
  PROVE  Inverted!GapsOf(F, T, c) = Blocks!GapsOf(F, T, c)
<1>1. \A f : Inverted!SumFunction(f) = Blocks!SumFunction(f)
  BY DEF Inverted!SumFunction, Blocks!SumFunction, Inverted!SumFunctionOnSet,
         Blocks!SumFunctionOnSet, Inverted!FoldFunctionOnSet, Blocks!FoldFunctionOnSet,
         Inverted!MapThenFoldSet, Blocks!MapThenFoldSet
<1>2. \A bar : Inverted!BarRange(bar) = Blocks!BarRange(bar)
  BY DEF Inverted!BarRange, Blocks!BarRange
<1>3. \A i : Inverted!Displaced(F, c, i) <=> Blocks!Displaced(F, c, i)
  BY <1>1, <1>2 DEF Inverted!Displaced, Blocks!Displaced
<1>4. \A third : Inverted!Contiguous(T, third) <=> Blocks!Contiguous(T, third)
  BY SameFills DEF Inverted!Contiguous, Blocks!Contiguous
<1>5. \A d, third : Inverted!Gap(F, c, d, third) = Blocks!Gap(F, c, d, third)
  BY DEF Inverted!Gap, Blocks!Gap, Inverted!Upper, Blocks!Upper, Inverted!Lower, Blocks!Lower
<1>6. \A d, third : Inverted!IsGap(F, T, c, d, third) <=> Blocks!IsGap(F, T, c, d, third)
  BY <1>3, <1>4, <1>5 DEF Inverted!IsGap, Blocks!IsGap
<1>7. Inverted!Directions = Blocks!Directions
  BY DEF Inverted!Directions, Blocks!Directions
<1> QED
  BY <1>5, <1>6, <1>7 DEF Inverted!GapsOf, Blocks!GapsOf

LEMMA SameTurned ==
  ASSUME NEW F, NEW T, NEW c
  PROVE  Turned!GapsOf(F, T, c) = Blocks!GapsOf(F, T, c)
<1>1. \A f : Turned!SumFunction(f) = Blocks!SumFunction(f)
  BY DEF Turned!SumFunction, Blocks!SumFunction, Turned!SumFunctionOnSet,
         Blocks!SumFunctionOnSet, Turned!FoldFunctionOnSet, Blocks!FoldFunctionOnSet,
         Turned!MapThenFoldSet, Blocks!MapThenFoldSet
<1>2. \A bar : Turned!BarRange(bar) = Blocks!BarRange(bar)
  BY DEF Turned!BarRange, Blocks!BarRange
<1>3. \A i : Turned!Displaced(F, c, i) <=> Blocks!Displaced(F, c, i)
  BY <1>1, <1>2 DEF Turned!Displaced, Blocks!Displaced
<1>4. \A third : Turned!Contiguous(T, third) <=> Blocks!Contiguous(T, third)
  BY DEF Turned!Contiguous, Blocks!Contiguous, Turned!CloseTime, Blocks!CloseTime
<1>5. \A d, third : Turned!Gap(F, c, d, third) = Blocks!Gap(F, c, d, third)
  BY DEF Turned!Gap, Blocks!Gap, Turned!Upper, Blocks!Upper, Turned!Lower, Blocks!Lower
<1>6. \A d, third : Turned!IsGap(F, T, c, d, third) <=> Blocks!IsGap(F, T, c, d, third)
  BY <1>3, <1>4, <1>5 DEF Turned!IsGap, Blocks!IsGap
<1>7. Turned!Directions = Blocks!Directions
  BY DEF Turned!Directions, Blocks!Directions
<1> QED
  BY <1>5, <1>6, <1>7 DEF Turned!GapsOf, Blocks!GapsOf

LEMMA SameInversions ==
  ASSUME NEW F, NEW T, NEW c
  PROVE  Inverted!InversionsOf(F, T, c) = Turned!InversionsOf(F, T, c)
<1>1. Inverted!GapsOf(F, T, c) = Turned!GapsOf(F, T, c)
  BY SameInverted, SameTurned
<1>2. \A z : Inverted!Window(T, c, z) = Turned!Window(T, c, z)
  <2>1. /\ \A t : Inverted!BarsFrom(T, t) = Turned!BarsFrom(T, t)
        /\ \A i : Inverted!CloseTime(T, i) = Turned!CloseTime(T, i)
    BY DEF Inverted!BarsFrom, Turned!BarsFrom, Inverted!CloseTime, Turned!CloseTime
  <2> QED
    BY <2>1 DEF Inverted!Window, Turned!Window, Inverted!Cardinality, Turned!Cardinality
<1>3. \A z, bar : Inverted!TriggerHit(c, z, bar) <=> Turned!TriggerHit(c, z, bar)
  BY DEF Inverted!TriggerHit, Turned!TriggerHit, Inverted!Opposite, Turned!Opposite,
         Inverted!Beyond, Turned!Beyond, Inverted!FarEdge, Turned!FarEdge, Inverted!EntryEdge,
         Turned!EntryEdge, Inverted!Extreme, Turned!Extreme
<1>4. \A z : Inverted!Hits(F, T, c, z) = Turned!Hits(F, T, c, z)
  BY <1>2, <1>3 DEF Inverted!Hits, Turned!Hits
<1>5. \A z : Inverted!Inversion(F, T, c, z) = Turned!Inversion(F, T, c, z)
  <2>1. /\ \A d : Inverted!Opposite(d) = Turned!Opposite(d)
        /\ \A S : Inverted!Min(S) = Turned!Min(S)
    BY DEF Inverted!Opposite, Turned!Opposite, Inverted!Min, Turned!Min
  <2> QED
    BY <1>4, <2>1 DEF Inverted!Inversion, Turned!Inversion
<1> QED
  BY <1>1, <1>4, <1>5 DEF Inverted!InversionsOf, Turned!InversionsOf

LEMMA SameBalanced ==
  ASSUME NEW T, NEW p, NEW Z
  PROVE  Balanced!BalancedOf(T, p, Z) = Turned!BalancedOf(T, p, Z)
<1>1. /\ \A S : Balanced!Max(S) = Turned!Max(S) /\ Balanced!Min(S) = Turned!Min(S)
      /\ \A d : Balanced!Opposite(d) = Turned!Opposite(d)
  BY DEF Balanced!Max, Turned!Max, Balanced!Min, Turned!Min, Balanced!Opposite, Turned!Opposite
<1>2. \A x, y : Balanced!Overlap(x, y) = Turned!Overlap(x, y)
  BY <1>1 DEF Balanced!Overlap, Turned!Overlap
<1>3. \A i, k : Balanced!BarsBetween(T, i, k) = Turned!BarsBetween(T, i, k)
  BY <1>1 DEF Balanced!BarsBetween, Turned!BarsBetween
<1>4. \A a, b : Balanced!Balances(T, p, a, b) <=> Turned!Balances(T, p, a, b)
  BY <1>1, <1>2, <1>3 DEF Balanced!Balances, Turned!Balances, Balanced!Overlaps, Turned!Overlaps
<1>5. \A a, b : Balanced!Balanced(p, a, b) = Turned!Balanced(p, a, b)
  BY <1>2 DEF Balanced!Balanced, Turned!Balanced
<1> QED
  BY <1>4, <1>5 DEF Balanced!BalancedOf, Turned!BalancedOf

LEMMA SameRedelivered ==
  ASSUME NEW F, NEW T, NEW q
  PROVE  Redelivered!RedeliveredOf(F, T, q) = Turned!RedeliveredOf(F, T, q)
<1>1. /\ \A S : Redelivered!Max(S) = Turned!Max(S) /\ Redelivered!Min(S) = Turned!Min(S)
      /\ Redelivered!Directions = Turned!Directions
  BY DEF Redelivered!Max, Turned!Max, Redelivered!Min, Turned!Min, Redelivered!Directions,
         Turned!Directions
<1>2. \A d, i : Redelivered!Wick(F, d, i) = Turned!Wick(F, d, i)
  BY DEF Redelivered!Wick, Turned!Wick, Redelivered!Extreme, Turned!Extreme,
         Redelivered!Opposite, Turned!Opposite
<1>3. \A d, i : Redelivered!Redelivers(F, T, q, d, i) <=> Turned!Redelivers(F, T, q, d, i)
  BY <1>2 DEF Redelivered!Redelivers, Turned!Redelivers, Redelivered!CloseTime, Turned!CloseTime,
              Redelivered!Beyond, Turned!Beyond, Redelivered!Distance, Turned!Distance
<1>4. \A d, i : Redelivered!Redelivered(F, d, i) = Turned!Redelivered(F, d, i)
  BY <1>1, <1>2 DEF Redelivered!Redelivered, Turned!Redelivered
<1> QED
  BY <1>1, <1>3, <1>4 DEF Redelivered!RedeliveredOf, Turned!RedeliveredOf

LEMMA SameRangesFilled ==
  /\ \A F, T, p, x : Balanced!BalancedFills(F, T, p, x)
                       = Inverted!TrackZoneFill(F, T, p, x, Inverted!CloseTime(T, x.bar))
  /\ \A F, T, q, x : Redelivered!RedeliveredFills(F, T, q, x)
                       = Inverted!TrackZoneFill(F, T, q, x, Inverted!CloseTime(T, x.bar))
<1>1. /\ \A z, p : Inverted!Depth(z, p) = Balanced!Depth(z, p)
      /\ \A z, bar : Inverted!Reach(z, bar) = Balanced!Reach(z, bar)
      /\ \A T, t : Inverted!BarsFrom(T, t) = Balanced!BarsFrom(T, t)
  BY DEF Inverted!Depth, Balanced!Depth, Inverted!Distance, Balanced!Distance,
         Inverted!EntryEdge, Balanced!EntryEdge, Inverted!Opposite, Balanced!Opposite,
         Inverted!Reach, Balanced!Reach, Inverted!Extreme, Balanced!Extreme, Inverted!BarsFrom,
         Balanced!BarsFrom
<1>2. /\ \A z, p, f : Inverted!Fills(z, p, f) <=> Balanced!Fills(z, p, f)
      /\ \A z, p, f : Inverted!Enters(z, p, f) <=> Balanced!Enters(z, p, f)
  BY <1>1 DEF Inverted!Fills, Balanced!Fills, Inverted!Enters, Balanced!Enters, Inverted!Whole,
              Balanced!Whole
<1>3. ASSUME NEW F, NEW T, NEW c, NEW z, NEW t
      PROVE  Balanced!TrackZoneFill(F, T, c, z, t) = Inverted!TrackZoneFill(F, T, c, z, t)
  BY <1>1, <1>2 DEF Inverted!TrackZoneFill, Balanced!TrackZoneFill
<1>4. /\ \A z, p : Inverted!Depth(z, p) = Redelivered!Depth(z, p)
      /\ \A z, bar : Inverted!Reach(z, bar) = Redelivered!Reach(z, bar)
      /\ \A T, t : Inverted!BarsFrom(T, t) = Redelivered!BarsFrom(T, t)
  BY DEF Inverted!Depth, Redelivered!Depth, Inverted!Distance, Redelivered!Distance,
         Inverted!EntryEdge, Redelivered!EntryEdge, Inverted!Opposite, Redelivered!Opposite,
         Inverted!Reach, Redelivered!Reach, Inverted!Extreme, Redelivered!Extreme,
         Inverted!BarsFrom, Redelivered!BarsFrom
<1>5. /\ \A z, p, f : Inverted!Fills(z, p, f) <=> Redelivered!Fills(z, p, f)
      /\ \A z, p, f : Inverted!Enters(z, p, f) <=> Redelivered!Enters(z, p, f)
  BY <1>4 DEF Inverted!Fills, Redelivered!Fills, Inverted!Enters, Redelivered!Enters,
              Inverted!Whole, Redelivered!Whole
<1>6. ASSUME NEW F, NEW T, NEW c, NEW z, NEW t
      PROVE  Redelivered!TrackZoneFill(F, T, c, z, t) = Inverted!TrackZoneFill(F, T, c, z, t)
  BY <1>4, <1>5 DEF Inverted!TrackZoneFill, Redelivered!TrackZoneFill
<1> QED
  BY <1>3, <1>6
  DEF Balanced!BalancedFills, Redelivered!RedeliveredFills, Balanced!CloseTime,
      Redelivered!CloseTime, Inverted!CloseTime

----------------------------------------------------------------------------
\* Zones that one tracker follows: the item z is confirmed by bar[z], acts as
\* zone[z], and ends otherwise at ends[z], of which the prefix sees ended[z].
Tracks(S, F, T, c, Z, bar, zone, ends) ==
  S = {Tracked(z, bar[z], Inverted!TrackZoneFill(F, T, c, zone[z],
                            Inverted!CloseTime(T, bar[z])), ends[z]) : z \in Z}

LEMMA ZonesTold ==
  ASSUME NEW F, NEW T, NEW n, NEW G, NEW U, NEW m, TruncatedTo(F, T, n, G, U, m), NEW c,
         NEW Z, NEW Y, NEW bar, NEW zone, NEW ends, NEW ended,
         \A z : z \in Y <=> z \in Z /\ bar[z] <= m,
         \A z \in Y : bar[z] \in 1 .. m,
         \A z \in Y : (\A e \in ends[z] : e > m) <=> (\A e \in ended[z] : e > m),
         NEW S, Tracks(S, F, T, c, Z, bar, zone, ends),
         NEW P, Tracks(P, G, U, c, Y, bar, zone, ended)
  PROVE  Alike(S, P, m)
<1> DEFINE full(z) == Tracked(z, bar[z], Inverted!TrackZoneFill(F, T, c, zone[z],
                                           Inverted!CloseTime(T, bar[z])), ends[z])
           part(z) == Tracked(z, bar[z], Inverted!TrackZoneFill(G, U, c, zone[z],
                                           Inverted!CloseTime(U, bar[z])), ended[z])
<1>1. ASSUME NEW z \in Y PROVE TellsOf(full(z), part(z), m)
  <2>1. Inverted!CloseTime(U, bar[z]) = Inverted!CloseTime(T, bar[z])
    BY PrefixFacts, SameFills
  <2> DEFINE t == Inverted!CloseTime(T, bar[z])
             x == Blocks!TrackZoneFill(F, T, c, zone[z], t)
             y == Blocks!TrackZoneFill(G, U, c, zone[z], t)
  <2>2. {f \in x : f.bar <= m} = y
    BY FillsAlike DEF Blocks!UpTo
  <2>3. /\ full(z) = [item |-> z, bar |-> bar[z], fills |-> x, ends |-> ends[z]]
        /\ part(z) = [item |-> z, bar |-> bar[z], fills |-> y, ends |-> ended[z]]
    BY <2>1, SameFills DEF Tracked
  <2> HIDE DEF x, y, t, full, part
  <2>4. Inverted!FillStatus(x, m) = Inverted!FillStatus(y, m)
    BY <2>2, StatusOfSeen, SameFills
  <2> QED
    BY <2>3, <2>4 DEF TellsOf
<1>2. S = {full(z) : z \in Z} /\ P = {part(z) : z \in Y}
  BY DEF Tracks
<1>3. \A z : full(z).bar = bar[z]
  BY DEF Tracked
<1> HIDE DEF full, part
<1>4. \A x \in S : x.bar <= m => \E y \in P : TellsOf(x, y, m)
  <2> TAKE x \in S
  <2> HAVE x.bar <= m
  <2>1. PICK z \in Z : x = full(z)
    BY <1>2
  <2>2. z \in Y
    BY <1>3, <2>1
  <2> QED
    BY <1>1, <1>2, <2>1, <2>2
<1>5. \A y \in P : y.bar <= m => \E x \in S : TellsOf(x, y, m)
  BY <1>1, <1>2
<1> QED
  BY <1>4, <1>5 DEF Alike

\* Where nothing else ends them.
NoEnds(Z) == [z \in Z |-> {}]

LEMMA GapsTold ==
  ASSUME NEW F, NEW T, NEW n, NEW G, NEW U, NEW m, TruncatedTo(F, T, n, G, U, m),
         NEW c, c.lookback \in Nat \ {0}
  PROVE  Alike({Tracked(z, z.third, Inverted!TrackZoneFill(F, T, c, z,
                                      Inverted!CloseTime(T, z.third)), {}) :
                  z \in Inverted!GapsOf(F, T, c)},
               {Tracked(z, z.third, Inverted!TrackZoneFill(G, U, c, z,
                                      Inverted!CloseTime(U, z.third)), {}) :
                  z \in Inverted!GapsOf(G, U, c)}, m)
<1> DEFINE Z == Inverted!GapsOf(F, T, c)
           Y == Inverted!GapsOf(G, U, c)
           bar == [z \in Z |-> z.third]
           zone == [z \in Z |-> z]
           S == {Tracked(z, z.third, Inverted!TrackZoneFill(F, T, c, z,
                                       Inverted!CloseTime(T, z.third)), {}) : z \in Z}
           P == {Tracked(z, z.third, Inverted!TrackZoneFill(G, U, c, z,
                                       Inverted!CloseTime(U, z.third)), {}) : z \in Y}
<1>1. Z = Blocks!GapsOf(F, T, c) /\ Y = Blocks!GapsOf(G, U, c)
  BY SameInverted
<1>2. Y = {z \in Z : z.third <= m}
  BY <1>1, GapsAlike
<1>3. \A z \in Y : z.third \in 1 .. m
  BY <1>1, PrefixFacts, GapIs, SameGaps
<1> HIDE DEF Z, Y
<1> DEFINE none == NoEnds(Z)
<1>4. Tracks(S, F, T, c, Z, bar, zone, none) /\ Tracks(P, G, U, c, Y, bar, zone, none)
  BY <1>2 DEF NoEnds, Tracks
<1>5. \A z : z \in Y <=> z \in Z /\ bar[z] <= m
  BY <1>2
<1>6. \A z \in Y : bar[z] \in 1 .. m
  BY <1>2, <1>3
<1> HIDE DEF bar, zone, S, P, none
<1>7. Alike(S, P, m)
  BY <1>4, <1>5, <1>6, ZonesTold
<1> QED
  BY <1>7 DEF S, P, Z, Y

\* Zones that act as themselves from the bar that confirms them.
ByBar(F, T, c, Z) ==
  {Tracked(z, z.bar, Inverted!TrackZoneFill(F, T, c, z, Inverted!CloseTime(T, z.bar)), {}) :
     z \in Z}

LEMMA ByBarTold ==
  ASSUME NEW F, NEW T, NEW n, NEW G, NEW U, NEW m, TruncatedTo(F, T, n, G, U, m), NEW c,
         NEW Z, NEW Y, Y = {z \in Z : z.bar <= m}, \A z \in Y : z.bar \in 1 .. m
  PROVE  Alike(ByBar(F, T, c, Z), ByBar(G, U, c, Y), m)
<1> DEFINE bar == [z \in Z |-> z.bar]
           zone == [z \in Z |-> z]
           none == NoEnds(Z)
           S == ByBar(F, T, c, Z)
           P == ByBar(G, U, c, Y)
<1>1. Tracks(S, F, T, c, Z, bar, zone, none) /\ Tracks(P, G, U, c, Y, bar, zone, none)
  BY DEF NoEnds, Tracks, ByBar
<1>2. \A z : z \in Y <=> z \in Z /\ bar[z] <= m
  OBVIOUS
<1>3. \A z \in Y : bar[z] \in 1 .. m
  OBVIOUS
<1> HIDE DEF bar, zone, S, P, none
<1>4. Alike(S, P, m)
  BY <1>1, <1>2, <1>3, ZonesTold
<1> QED
  BY <1>4 DEF S, P

\* The other proofs speak of the same frames.
LEMMA TurnedTruncated ==
  ASSUME NEW F, NEW T, NEW n, NEW G, NEW U, NEW m, TruncatedTo(F, T, n, G, U, m)
  PROVE  Turned!TruncatedTo(F, T, n, G, U, m)
BY DEF TruncatedTo, Turned!TruncatedTo, FrameOf, Turned!Increasing, Blocks!Increasing

LEMMA InvertedTold ==
  ASSUME NEW F, NEW T, NEW n, NEW G, NEW U, NEW m, TruncatedTo(F, T, n, G, U, m),
         NEW c, c = Engine.gaps
  PROVE  Alike({Tracked(i, i.bar, Inverted!TrackZoneFill(F, T, c, i.zone,
                                    Inverted!CloseTime(T, i.bar)), {}) :
                  i \in Inverted!InversionsOf(F, T, c)},
               {Tracked(i, i.bar, Inverted!TrackZoneFill(G, U, c, i.zone,
                                    Inverted!CloseTime(U, i.bar)), {}) :
                  i \in Inverted!InversionsOf(G, U, c)}, m)
<1> DEFINE Z == Inverted!InversionsOf(F, T, c)
           Y == Inverted!InversionsOf(G, U, c)
           bar == [z \in Z |-> z.bar]
           zone == [z \in Z |-> z.zone]
           none == NoEnds(Z)
           S == {Tracked(z, z.bar, Inverted!TrackZoneFill(F, T, c, z.zone,
                                     Inverted!CloseTime(T, z.bar)), {}) : z \in Z}
           P == {Tracked(z, z.bar, Inverted!TrackZoneFill(G, U, c, z.zone,
                                     Inverted!CloseTime(U, z.bar)), {}) : z \in Y}
<1>1. c \in {Engine.gaps} /\ c.lookback \in Nat \ {0}
  BY EngineAssumption DEF Inverted!ConfigType
<1>2. Turned!TruncatedTo(F, T, n, G, U, m)
  BY TurnedTruncated
<1>3. Turned!UpTo(Turned!InversionsOf(F, T, c), m) = Turned!InversionsOf(G, U, c)
  BY <1>1, <1>2, TurnedAssumed, Turned!InversionsAlike
<1>4. Y = {z \in Z : z.bar <= m}
  BY <1>3, SameInversions DEF Turned!UpTo
<1>5. \A z \in Y : z.bar \in 1 .. m
  <2> TAKE z \in Y
  <2>1. m \in Nat /\ G \in [1 .. m -> Bars] /\ U \in [1 .. m -> Nat] /\ Turned!Increasing(U)
    BY <1>2, PrefixFacts DEF TruncatedTo, FrameOf, Turned!Increasing, Blocks!Increasing
  <2>2. z \in Turned!InversionsOf(G, U, c)
    BY SameInversions
  <2> QED
    BY <1>1, <2>1, <2>2, TurnedAssumed, Turned!InversionAfter
<1> HIDE DEF Z, Y
<1>6. Tracks(S, F, T, c, Z, bar, zone, none) /\ Tracks(P, G, U, c, Y, bar, zone, none)
  BY <1>4 DEF NoEnds, Tracks
<1>7. \A z : z \in Y <=> z \in Z /\ bar[z] <= m
  BY <1>4
<1>8. \A z \in Y : bar[z] \in 1 .. m
  BY <1>4, <1>5
<1> HIDE DEF bar, zone, S, P, none
<1>9. Alike(S, P, m)
  BY <1>6, <1>7, <1>8, ZonesTold
<1> QED
  BY <1>9 DEF S, P, Z, Y

LEMMA BalancedTold ==
  ASSUME NEW F, NEW T, NEW n, NEW G, NEW U, NEW m, TruncatedTo(F, T, n, G, U, m),
         NEW c, c = Engine.gaps, NEW p
  PROVE  Alike({Tracked(x, x.bar, Balanced!BalancedFills(F, T, p, x), {}) :
                  x \in Balanced!BalancedOf(T, p, Inverted!GapsOf(F, T, c))},
               {Tracked(x, x.bar, Balanced!BalancedFills(G, U, p, x), {}) :
                  x \in Balanced!BalancedOf(U, p, Inverted!GapsOf(G, U, c))}, m)
<1> DEFINE A == Inverted!GapsOf(F, T, c)
           B == Inverted!GapsOf(G, U, c)
           Z == Balanced!BalancedOf(T, p, A)
           Y == Balanced!BalancedOf(U, p, B)
<1>1. c \in {Engine.gaps} /\ c.lookback \in Nat \ {0}
  BY EngineAssumption DEF Inverted!ConfigType
<1>2. Turned!TruncatedTo(F, T, n, G, U, m)
  BY TurnedTruncated
<1>3. A = Turned!GapsOf(F, T, c) /\ B = Turned!GapsOf(G, U, c)
  BY SameInverted, SameTurned
<1>4. B = {z \in A : z.third <= m}
  BY <1>1, <1>2, <1>3, TurnedAssumed, Turned!GapsAlike
<1>5. \A z \in A : z.third \in 3 .. n
  BY <1>1, <1>2, <1>3, TurnedAssumed, Turned!GapIs DEF TruncatedTo, FrameOf
<1> HIDE DEF A, B
<1>6. /\ Turned!UpTo(Turned!BalancedOf(T, p, A), m) = Turned!BalancedOf(U, p, {z \in A : z.third <= m})
      /\ \A x \in Turned!BalancedOf(U, p, {z \in A : z.third <= m}) : x.bar \in 1 .. m
  BY <1>2, <1>5, TurnedAssumed, Turned!BalancedAlike
<1>7. Y = {x \in Z : x.bar <= m} /\ \A x \in Y : x.bar \in 1 .. m
  BY <1>4, <1>6, SameBalanced DEF Turned!UpTo
<1> HIDE DEF Z, Y
<1>8. Alike(ByBar(F, T, p, Z), ByBar(G, U, p, Y), m)
  BY <1>7, ByBarTold
<1> QED
  BY <1>8, SameRangesFilled DEF ByBar, Z, Y, A, B

LEMMA RedeliveredTold ==
  ASSUME NEW F, NEW T, NEW n, NEW G, NEW U, NEW m, TruncatedTo(F, T, n, G, U, m),
         NEW q, q.directional \subseteq 1 .. 4
  PROVE  Alike({Tracked(x, x.bar, Redelivered!RedeliveredFills(F, T, q, x), {}) :
                  x \in Redelivered!RedeliveredOf(F, T, q)},
               {Tracked(x, x.bar, Redelivered!RedeliveredFills(G, U, q, x), {}) :
                  x \in Redelivered!RedeliveredOf(G, U, q)}, m)
<1> DEFINE Z == Redelivered!RedeliveredOf(F, T, q)
           Y == Redelivered!RedeliveredOf(G, U, q)
<1>1. Turned!TruncatedTo(F, T, n, G, U, m)
  BY TurnedTruncated
<1>2. /\ Turned!UpTo(Turned!RedeliveredOf(F, T, q), m) = Turned!RedeliveredOf(G, U, q)
      /\ \A x \in Turned!RedeliveredOf(G, U, q) : x.bar \in 1 .. m
  BY <1>1, TurnedAssumed, Turned!RedeliveredAlike
<1>3. Y = {x \in Z : x.bar <= m} /\ \A x \in Y : x.bar \in 1 .. m
  BY <1>2, SameRedelivered DEF Turned!UpTo
<1> HIDE DEF Z, Y
<1>4. Alike(ByBar(F, T, q, Z), ByBar(G, U, q, Y), m)
  BY <1>3, ByBarTold
<1> QED
  BY <1>4, SameRangesFilled DEF ByBar, Z, Y

----------------------------------------------------------------------------
\* What the order block, breaker and unicorn detectors find in the first k bars is
\* what they find in all bars and confirm by then.
LEMMA BlocksSeen ==
  ASSUME BInv, NEW k \in 1 .. index
  PROVE  /\ BlocksAt(k) = {b \in BlocksAt(index) : b.bar <= k}
         /\ \A b \in BlocksAt(k) : b.bar \in 1 .. k
<1> DEFINE F == SeenBars(index)
           T == SeenTimes(index)
           G == SeenBars(k)
           U == SeenTimes(k)
<1>1. TruncatedTo(F, T, index, G, U, k)
  BY SeenPrefix DEF BInv, IInv, TypeOK
<1>2. /\ BlocksAt(index) = Blocks!BlocksOf(F, T, options.blocks)
      /\ BlocksAt(k) = Blocks!BlocksOf(G, U, options.blocks)
  BY DEF BlocksAt
<1>3. options.blocks.gaps.lookback \in Nat \ {0} /\ options.blocks.lookback \in Nat \ {0}
  BY Lookbacks
<1> HIDE DEF F, T, G, U
<1>4. {b \in Blocks!BlocksOf(F, T, options.blocks) : b.bar <= k}
        = Blocks!BlocksOf(G, U, options.blocks)
  BY <1>1, <1>3, BlocksAlike
<1>5. FrameOf(G, U, k)
  BY <1>1, PrefixFacts
<1>6. \A b \in Blocks!BlocksOf(G, U, options.blocks) : b.bar \in 1 .. k
  BY <1>5, BlockIs
<1> QED
  BY <1>2, <1>4, <1>6

LEMMA MatchesObservable ==
  ASSUME NEW B, NEW k, NEW o, NEW b, NEW f
  PROVE  MatchesOf(o, ObservableBreaks(B, k), k, b, f) = MatchesOf(o, B, k, b, f)
<1>1. \A s : s \in Range(ObservableBreaks(ObservableBreaks(B, k), k))
               <=> s \in Range(ObservableBreaks(B, k))
  <2> DEFINE O == ObservableBreaks(B, k)
  <2>1. DOMAIN O = {m \in DOMAIN B : B[m].bar <= k} /\ \A m \in DOMAIN O : O[m] = B[m]
    BY DEF ObservableBreaks, Restrict
  <2>2. \A s : s \in Range(O) <=> \E m \in DOMAIN B : B[m].bar <= k /\ s = B[m]
    BY ObservableAre
  <2>3. \A s : s \in Range(ObservableBreaks(O, k)) <=> \E m \in DOMAIN O : O[m].bar <= k /\ s = O[m]
    BY ObservableAre
  <2> HIDE DEF O
  <2>4. \A s : s \in Range(ObservableBreaks(O, k)) <=> s \in Range(O)
    BY <2>1, <2>2, <2>3
  <2> QED
    BY <2>4 DEF O
<1> QED
  BY <1>1 DEF MatchesOf

LEMMA BreakersSeen ==
  ASSUME BInv, NEW k \in 1 .. index
  PROVE  /\ BreakersAt(k) = {x \in BreakersAt(index) : x.bar <= k}
         /\ \A x \in BreakersAt(index) : x.bar \in 1 .. index
         /\ \A x \in BreakersAt(k) : x.bar \in 1 .. k
<1> DEFINE F == SeenBars(index)
           T == SeenTimes(index)
           G == SeenBars(k)
           U == SeenTimes(k)
           B == ObservableBreaks(breaks, k)
<1>1. TruncatedTo(F, T, index, G, U, k)
  BY SeenPrefix DEF BInv, IInv, TypeOK
<1>2. GrowsTo(frame, config, B, k, breaks, index)
  <2>1. k \in 0 .. index
    BY DEF BInv, IInv, TypeOK
  <2> QED
    BY <2>1, RecordPrefix DEF BInv, RecordedSoFar
<1>3. /\ options.window \in Nat /\ options.blocks.gaps.lookback \in Nat \ {0}
      /\ options.blocks.lookback \in Nat \ {0}
  BY Lookbacks
<1>4. /\ BreakersAt(index) = FlipsOf(frame, F, T, options, breaks, index)
      /\ BreakersAt(k) = FlipsOf(frame, G, U, options, breaks, k)
  BY DEF BreakersAt, FlipsOf, Failures, FailuresOf, Matches, MatchesOf, Breaker, FlipOf, BlocksAt
<1>5. FlipsOf(frame, G, U, options, B, k) = FlipsOf(frame, G, U, options, breaks, k)
  <2>1. \A b, f : MatchesOf(options, B, k, b, f) = MatchesOf(options, breaks, k, b, f)
    BY MatchesObservable
  <2> HIDE DEF B, G, U
  <2>2. \A b, f : FlipOf(options, B, k, b, f) = FlipOf(options, breaks, k, b, f)
    BY <2>1 DEF FlipOf
  <2> QED
    BY <2>1, <2>2 DEF FlipsOf
<1> HIDE DEF F, T, G, U, B
<1>6. /\ {x \in FlipsOf(frame, F, T, options, breaks, index) : x.bar <= k}
           = FlipsOf(frame, G, U, options, B, k)
      /\ \A x \in FlipsOf(frame, F, T, options, breaks, index) : x.bar \in 1 .. index
  BY <1>1, <1>2, <1>3, FlipsAlike
<1>7. \A x : x \in BreakersAt(k) => x.bar \in 1 .. k
  <2>1. \A i : i \in 1 .. index /\ i <= k => i \in 1 .. k
    BY <1>1, PrefixFacts
  <2> QED
    BY <1>4, <1>5, <1>6, <2>1
<1> QED
  BY <1>4, <1>5, <1>6, <1>7

LEMMA UnicornsSeen ==
  ASSUME BInv, NEW k \in 1 .. index, NEW u \in UnicornConfigs
  PROVE  /\ UnicornsAt(k, u) = {x \in UnicornsAt(index, u) : x.bar <= k}
         /\ \A x \in UnicornsAt(k, u) : x.bar \in 1 .. k /\ x.breaker \in BreakersAt(k)
<1> DEFINE F == SeenBars(index)
           T == SeenTimes(index)
           G == SeenBars(k)
           U == SeenTimes(k)
           X == BreakersAt(index)
           g == u.gaps
<1>1. TruncatedTo(F, T, index, G, U, k) /\ k \in 0 .. Len(frame)
  BY SeenPrefix DEF BInv, IInv, TypeOK
<1>2. g.lookback \in Nat \ {0} /\ u.minOverlap \in Nat
  BY Lookbacks
<1>3. BreakersAt(k) = {x \in X : x.bar <= k} /\ \A x \in X : x.bar \in 1 .. index
  BY BreakersSeen
<1>4. /\ UnicornsAt(index, u) = Joined!UnicornsOf(T, u, X, Joined!GapsOf(F, T, g))
      /\ UnicornsAt(k, u) = Joined!UnicornsOf(U, u, BreakersAt(k), Joined!GapsOf(G, U, g))
  BY DEF UnicornsAt, GapsAt
<1> HIDE DEF F, T, G, U, X, g
<1> DEFINE Y == BreakersAt(k)
<1>5. \A x : x \in Joined!UnicornsOf(U, u, Y, Joined!GapsOf(G, U, g))
              <=> x \in Joined!UnicornsOf(T, u, X, Joined!GapsOf(F, T, g)) /\ x.bar <= k
  <2>1. g.lookback \in Nat \ {0}
    BY <1>2
  <2>2. TruncatedTo(F, T, index, G, U, k) /\ \A x \in X : x.bar \in 1 .. index
    BY <1>1, <1>3
  <2>3. \A x : x \in Y <=> x \in X /\ x.bar <= k
    BY <1>3
  <2> HIDE DEF Y
  <2> QED
    BY <2>1, <2>2, <2>3, UnicornsAlike
<1>6. UnicornsAt(k, u) = {x \in UnicornsAt(index, u) : x.bar <= k}
  BY <1>4, <1>5
<1>7. \A x \in UnicornsAt(k, u) : x.bar \in 1 .. k /\ x.breaker \in BreakersAt(k)
  BY <1>1, <1>2, UnicornIs
<1> QED
  BY <1>6, <1>7

\* How price has returned to a breaker by bar k.
LEMMA BreakerFillsSeen ==
  ASSUME BInv, NEW k \in 1 .. index, NEW x \in BreakersAt(k)
  PROVE  /\ {f \in BreakerFillsAt(index, x) : f.bar <= k} = BreakerFillsAt(k, x)
         /\ \A f \in BreakerFillsAt(index, x) : f.bar \in 1 .. index
<1> DEFINE F == SeenBars(index)
           T == SeenTimes(index)
           G == SeenBars(k)
           U == SeenTimes(k)
<1>1. TruncatedTo(F, T, index, G, U, k)
  BY SeenPrefix DEF BInv, IInv, TypeOK
<1>2. x.bar \in 1 .. k /\ x.bar \in 1 .. index
  BY <1>1, BreakersSeen, PrefixFacts
<1>3. /\ BreakerFillsAt(index, x)
           = Blocks!TrackZoneFill(F, T, options, x, Blocks!CloseTime(T, x.bar))
      /\ BreakerFillsAt(k, x) = Blocks!TrackZoneFill(G, U, options, x, Blocks!CloseTime(U, x.bar))
  BY DEF BreakerFillsAt
<1> HIDE DEF F, T, G, U
<1>4. {f \in BreakerFillsAt(index, x) : f.bar <= k} = BreakerFillsAt(k, x)
  <2>1. ASSUME NEW c
        PROVE  {f \in Blocks!TrackZoneFill(F, T, c, x, Blocks!CloseTime(T, x.bar)) : f.bar <= k}
                 = Blocks!TrackZoneFill(G, U, c, x, Blocks!CloseTime(U, x.bar))
    BY <1>1, <1>2, FillsKept
  <2> QED
    BY <1>3, <2>1
<1>5. FrameOf(F, T, index) /\ index \in Nat
  BY <1>1, PrefixFacts
<1>6. \A f \in BreakerFillsAt(index, x) : f.bar \in x.bar + 1 .. index
  BY <1>2, <1>3, <1>5, FillsAre
<1> QED
  BY <1>2, <1>4, <1>5, <1>6

\* The blocks, the breakers and the unicorns of the view.
LEMMA BlocksTold ==
  ASSUME BInv, NEW k \in 1 .. index
  PROVE  Alike(View(index).blocks, View(k).blocks, k)
<1> DEFINE F == SeenBars(index)
           T == SeenTimes(index)
           G == SeenBars(k)
           U == SeenTimes(k)
           Z == BlocksAt(index)
           Y == BlocksAt(k)
           bar == [z \in Z |-> z.bar]
           zone == [z \in Z |-> z]
           ends == [z \in Z |-> Blocks!ClosesAgainst(F, T, z)]
           ended == [z \in Z |-> Blocks!ClosesAgainst(G, U, z)]
           S == View(index).blocks
           P == View(k).blocks
           o == [mode |-> "close"]
<1>1. TruncatedTo(F, T, index, G, U, k)
  BY SeenPrefix DEF BInv, IInv, TypeOK
<1>2. Y = {b \in Z : b.bar <= k} /\ \A b \in Y : b.bar \in 1 .. k
  BY BlocksSeen
<1>3. /\ S = {Tracked(b, b.bar, BlockFillsAt(index, b), Blocks!ClosesAgainst(F, T, b)) : b \in Z}
      /\ P = {Tracked(b, b.bar, BlockFillsAt(k, b), Blocks!ClosesAgainst(G, U, b)) : b \in Y}
  BY ViewFields
<1>4. /\ \A b : BlockFillsAt(index, b) = Inverted!TrackZoneFill(F, T, options.blocks, b,
                                                                Inverted!CloseTime(T, b.bar))
      /\ \A b : BlockFillsAt(k, b) = Inverted!TrackZoneFill(G, U, options.blocks, b,
                                                            Inverted!CloseTime(U, b.bar))
  BY SameFills DEF BlockFillsAt, Blocks!BlockFills
<1> HIDE DEF F, T, G, U, Z, Y, S, P
<1>5. /\ Tracks(S, F, T, options.blocks, Z, bar, zone, ends)
      /\ Tracks(P, G, U, options.blocks, Y, bar, zone, ended)
  BY <1>2, <1>3, <1>4 DEF Tracks
<1>6. \A z : z \in Y <=> z \in Z /\ bar[z] <= k
  BY <1>2
<1>7. \A z \in Y : bar[z] \in 1 .. k
  BY <1>2
<1>8. ASSUME NEW z \in Y
      PROVE  (\A e \in ends[z] : e > k) <=> (\A e \in ended[z] : e > k)
  <2>1. /\ FailuresOf(F, F, T, o, z) = Blocks!ClosesAgainst(F, T, z)
        /\ FailuresOf(F, G, U, o, z) = Blocks!ClosesAgainst(G, U, z)
    BY DEF FailuresOf
  <2>2. z.bar \in 1 .. k /\ z \in Z
    BY <1>2
  <2> HIDE DEF o
  <2>3. /\ Blocks!ClosesAgainst(F, T, z) \subseteq z.bar + 1 .. index
        /\ \A i : i \in Blocks!ClosesAgainst(G, U, z) <=> i \in Blocks!ClosesAgainst(F, T, z) /\ i <= k
    BY <1>1, <2>1, <2>2, FailuresAlike
  <2>4. \A i \in Blocks!ClosesAgainst(F, T, z) : i <= k \/ i > k
    BY <1>1, <2>2, <2>3, PrefixFacts
  <2>5. \A i : i > k /\ i <= k /\ i \in Blocks!ClosesAgainst(F, T, z) => FALSE
    BY <1>1, <2>2, <2>3, PrefixFacts
  <2> QED
    BY <2>2, <2>3, <2>4, <2>5
<1> HIDE DEF bar, zone, ends, ended
<1>9. Alike(S, P, k)
  BY <1>1, <1>5, <1>6, <1>7, <1>8, ZonesTold
<1> QED
  BY <1>9 DEF S, P

LEMMA BreakersTold ==
  ASSUME BInv, NEW k \in 1 .. index
  PROVE  Alike(View(index).breakers, View(k).breakers, k)
<1> DEFINE F == SeenBars(index)
           T == SeenTimes(index)
           G == SeenBars(k)
           U == SeenTimes(k)
           Z == BreakersAt(index)
           Y == BreakersAt(k)
<1>1. TruncatedTo(F, T, index, G, U, k)
  BY SeenPrefix DEF BInv, IInv, TypeOK
<1>2. Y = {x \in Z : x.bar <= k} /\ \A x \in Y : x.bar \in 1 .. k
  BY BreakersSeen
<1>3. /\ View(index).breakers = {Tracked(x, x.bar, BreakerFillsAt(index, x), {}) : x \in Z}
      /\ View(k).breakers = {Tracked(x, x.bar, BreakerFillsAt(k, x), {}) : x \in Y}
  BY ViewFields
<1>4. /\ \A x : BreakerFillsAt(index, x) = Inverted!TrackZoneFill(F, T, options, x,
                                                                  Inverted!CloseTime(T, x.bar))
      /\ \A x : BreakerFillsAt(k, x) = Inverted!TrackZoneFill(G, U, options, x,
                                                              Inverted!CloseTime(U, x.bar))
  BY SameFills DEF BreakerFillsAt
<1> HIDE DEF F, T, G, U, Z, Y
<1>5. /\ View(index).breakers = ByBar(F, T, options, Z)
      /\ View(k).breakers = ByBar(G, U, options, Y)
  BY <1>3, <1>4 DEF ByBar
<1>6. Alike(ByBar(F, T, options, Z), ByBar(G, U, options, Y), k)
  BY <1>1, <1>2, ByBarTold
<1> QED
  BY <1>5, <1>6

LEMMA UnicornsTold ==
  ASSUME BInv, NEW k \in 1 .. index
  PROVE  Alike(View(index).unicorns, View(k).unicorns, k)
<1> DEFINE F == SeenBars(index)
           T == SeenTimes(index)
           G == SeenBars(k)
           U == SeenTimes(k)
           u == Engine.unicorn
           Z == UnicornsAt(index, u)
           Y == UnicornsAt(k, u)
           bar == [z \in Z |-> z.bar]
           zone == [z \in Z |-> z]
           ends == [z \in Z |-> DeathsAt(index, z)]
           ended == [z \in Z |-> DeathsAt(k, z)]
           S == View(index).unicorns
           P == View(k).unicorns
<1>1. TruncatedTo(F, T, index, G, U, k)
  BY SeenPrefix DEF BInv, IInv, TypeOK
<1>2. u \in UnicornConfigs
  BY EngineAssumption
<1>3. /\ Y = {x \in Z : x.bar <= k}
      /\ \A x \in Y : x.bar \in 1 .. k /\ x.breaker \in BreakersAt(k)
  BY <1>2, UnicornsSeen
<1>4. /\ S = {Tracked(x, x.bar, UnicornFillsAt(index, u, x), DeathsAt(index, x)) : x \in Z}
      /\ P = {Tracked(x, x.bar, UnicornFillsAt(k, u, x), DeathsAt(k, x)) : x \in Y}
  BY ViewFields
<1>5. /\ \A x : UnicornFillsAt(index, u, x) = Inverted!TrackZoneFill(F, T, u, x,
                                                                     Inverted!CloseTime(T, x.bar))
      /\ \A x : UnicornFillsAt(k, u, x) = Inverted!TrackZoneFill(G, U, u, x,
                                                                 Inverted!CloseTime(U, x.bar))
  BY SameFills, SameTracker, SameZones DEF UnicornFillsAt
<1> HIDE DEF F, T, G, U, Z, Y, S, P, u
<1>6. Tracks(S, F, T, u, Z, bar, zone, ends) /\ Tracks(P, G, U, u, Y, bar, zone, ended)
  BY <1>3, <1>4, <1>5 DEF Tracks
<1>7. \A z : z \in Y <=> z \in Z /\ bar[z] <= k
  BY <1>3
<1>8. \A z \in Y : bar[z] \in 1 .. k
  BY <1>3
<1>9. ASSUME NEW z \in Y
      PROVE  (\A e \in ends[z] : e > k) <=> (\A e \in ended[z] : e > k)
  <2> DEFINE A == BreakerFillsAt(index, z.breaker)
             B == BreakerFillsAt(k, z.breaker)
  <2>1. z \in Z /\ z.breaker \in BreakersAt(k)
    BY <1>3
  <2>2. {f \in A : f.bar <= k} = B /\ \A f \in A : f.bar \in 1 .. index
    BY <2>1, BreakerFillsSeen
  <2>3. /\ DeathsAt(index, z) = {f.bar : f \in {f \in A : f.after = "mitigated"}}
        /\ DeathsAt(k, z) = {f.bar : f \in {f \in B : f.after = "mitigated"}}
    BY DEF DeathsAt
  <2>4. index \in Nat /\ k \in Nat
    BY <1>1, PrefixFacts
  <2> HIDE DEF A, B
  <2>5. (\A e \in DeathsAt(index, z) : e > k) <=> (\A e \in DeathsAt(k, z) : e > k)
    BY <2>2, <2>3, <2>4
  <2> QED
    BY <2>1, <2>5
<1> HIDE DEF bar, zone, ends, ended
<1>10. Alike(S, P, k)
  BY <1>1, <1>6, <1>7, <1>8, <1>9, ZonesTold
<1> QED
  BY <1>10 DEF S, P

\* The parts of the view the agreement of the sections does not read.
LEMMA ViewRest ==
  ASSUME NEW n
  PROVE  LET F == SeenBars(n)
             T == SeenTimes(n)
             v == View(n)
             p == Engine.balanced
             q == Engine.redelivered
         IN  /\ v.balanced = {Tracked(x, x.bar, Balanced!BalancedFills(F, T, p, x), {}) :
                                x \in Balanced!BalancedOf(T, p, Inverted!GapsOf(F, T, Engine.gaps))}
             /\ v.redelivered = {Tracked(x, x.bar, Redelivered!RedeliveredFills(F, T, q, x), {}) :
                                   x \in Redelivered!RedeliveredOf(F, T, q)}
             /\ v.ranges = RangesOf(F, Engine.range, ObservableBreaks(breaks, n))
             /\ v.levels = Resting!LevelsOf(F, T, Engine.liquidity)
             /\ v.sweeps = SweepsOf(F, T, Resting!LevelsOf(F, T, Engine.liquidity))
             /\ v.dailyOpens = Resting!DailyOpensOf(F, T, Engine.daily)
             /\ v.windows = Resting!ViewWindows(Definitions, T)
BY DEF View

\* The gaps and the ranges of the view.
LEMMA ImbalancesTold ==
  ASSUME BInv, NEW k \in 1 .. index
  PROVE  /\ Alike(View(index).gaps, View(k).gaps, k)
         /\ Alike(View(index).inverted, View(k).inverted, k)
         /\ Alike(View(index).balanced, View(k).balanced, k)
         /\ Alike(View(index).redelivered, View(k).redelivered, k)
<1> DEFINE F == SeenBars(index)
           T == SeenTimes(index)
           G == SeenBars(k)
           U == SeenTimes(k)
           c == Engine.gaps
           p == Engine.balanced
           q == Engine.redelivered
<1>1. TruncatedTo(F, T, index, G, U, k)
  BY SeenPrefix DEF BInv, IInv, TypeOK
<1>2. c.lookback \in Nat \ {0} /\ q.directional \subseteq 1 .. 4
  <2>1. c \in Inverted!ConfigType /\ q \in Redelivered!RdrbConfigType
    BY EngineAssumption
  <2>2. c.lookback \in Nat \ {0}
    BY <2>1 DEF Inverted!ConfigType
  <2>3. q.directional \subseteq 1 .. 4
    BY <2>1 DEF Redelivered!RdrbConfigType
  <2> QED
    BY <2>2, <2>3
<1>3. /\ View(index).gaps = {Tracked(z, z.third, Inverted!TrackZoneFill(F, T, c, z,
                                       Inverted!CloseTime(T, z.third)), {}) :
                               z \in Inverted!GapsOf(F, T, c)}
      /\ View(k).gaps = {Tracked(z, z.third, Inverted!TrackZoneFill(G, U, c, z,
                                   Inverted!CloseTime(U, z.third)), {}) :
                           z \in Inverted!GapsOf(G, U, c)}
  BY ViewFields
<1>4. /\ View(index).inverted
           = {Tracked(i, i.bar, Inverted!TrackZoneFill(F, T, c, i.zone,
                                  Inverted!CloseTime(T, i.bar)), {}) :
                i \in Inverted!InversionsOf(F, T, c)}
      /\ View(k).inverted
           = {Tracked(i, i.bar, Inverted!TrackZoneFill(G, U, c, i.zone,
                                  Inverted!CloseTime(U, i.bar)), {}) :
                i \in Inverted!InversionsOf(G, U, c)}
  BY ViewFields
<1>5. /\ View(index).balanced = {Tracked(x, x.bar, Balanced!BalancedFills(F, T, p, x), {}) :
                                   x \in Balanced!BalancedOf(T, p, Inverted!GapsOf(F, T, c))}
      /\ View(k).balanced = {Tracked(x, x.bar, Balanced!BalancedFills(G, U, p, x), {}) :
                               x \in Balanced!BalancedOf(U, p, Inverted!GapsOf(G, U, c))}
  BY ViewRest
<1>6. /\ View(index).redelivered
           = {Tracked(x, x.bar, Redelivered!RedeliveredFills(F, T, q, x), {}) :
                x \in Redelivered!RedeliveredOf(F, T, q)}
      /\ View(k).redelivered
           = {Tracked(x, x.bar, Redelivered!RedeliveredFills(G, U, q, x), {}) :
                x \in Redelivered!RedeliveredOf(G, U, q)}
  BY ViewRest
<1>7. c = Engine.gaps
  OBVIOUS
<1> HIDE DEF F, T, G, U, c, p, q
<1>8. Alike(View(index).gaps, View(k).gaps, k)
  BY <1>1, <1>2, <1>3, GapsTold
<1>9. Alike(View(index).inverted, View(k).inverted, k)
  BY <1>1, <1>4, <1>7, InvertedTold
<1>10. Alike(View(index).balanced, View(k).balanced, k)
  BY <1>1, <1>5, <1>7, BalancedTold
<1>11. Alike(View(index).redelivered, View(k).redelivered, k)
  BY <1>1, <1>2, <1>6, RedeliveredTold
<1> QED
  BY <1>8, <1>9, <1>10, <1>11

\* _imbalance_at reads what is in force of the gaps, the inversions and the balanced
\* ranges.
LEMMA ImbalanceReplayed ==
  ASSUME BInv, NEW k \in 1 .. index, NEW p
  PROVE  ImbalanceSection(View(index), k, p) = ImbalanceSection(View(k), k, p)
<1>1. ASSUME NEW v
      PROVE  ImbalanceSection(v, k, p)
               = [gaps |-> [d \in Directions |-> Items(Toward(Active(v.gaps, k), d))],
                  latest |-> [d \in Directions |-> LatestItem(Toward(Active(v.gaps, k), d))],
                  nearest |-> [d \in Directions |->
                                 Nearest(Items(Toward(Active(v.gaps, k), d)), p)],
                  inverted |-> Items(Active(v.inverted, k)),
                  latestInverted |-> LatestItem(Active(v.inverted, k)),
                  balanced |-> Items(Active(v.balanced, k)),
                  latestBalanced |-> LatestItem(Active(v.balanced, k))]
  BY DEF ImbalanceSection, Toward
<1> DEFINE v == View(index)
           w == View(k)
<1>2. Alike(v.gaps, w.gaps, k) /\ Alike(v.inverted, w.inverted, k) /\ Alike(v.balanced, w.balanced, k)
  BY ImbalancesTold
<1> HIDE DEF v, w
<1>3. \A d : /\ Items(Toward(Active(v.gaps, k), d)) = Items(Toward(Active(w.gaps, k), d))
             /\ LatestItem(Toward(Active(v.gaps, k), d)) = LatestItem(Toward(Active(w.gaps, k), d))
  BY <1>2, TowardAlike
<1>4. /\ Items(Active(v.inverted, k)) = Items(Active(w.inverted, k))
      /\ LatestItem(Active(v.inverted, k)) = LatestItem(Active(w.inverted, k))
      /\ Items(Active(v.balanced, k)) = Items(Active(w.balanced, k))
      /\ LatestItem(Active(v.balanced, k)) = LatestItem(Active(w.balanced, k))
  BY <1>2, ItemsAlike, LatestAlike
<1>5. ImbalanceSection(v, k, p) = ImbalanceSection(w, k, p)
  BY <1>1, <1>3, <1>4
<1> QED
  BY <1>5 DEF v, w

\* _institutional_at reads what is in force of the blocks and the breakers.
LEMMA InstitutionalReplayed ==
  ASSUME BInv, NEW k \in 1 .. index
  PROVE  InstitutionalSection(View(index), k) = InstitutionalSection(View(k), k)
<1>1. ASSUME NEW v
      PROVE  InstitutionalSection(v, k)
               = [blocks |-> [d \in Directions |-> Items(Toward(Active(v.blocks, k), d))],
                  latestBlock |->
                    [d \in Directions |-> LatestItem(Toward(Active(v.blocks, k), d))],
                  breakers |->
                    [d \in Directions |->
                       {x \in Items(Active(v.breakers, k)) : x.direction = d}],
                  latestBreaker |-> LatestItem(Active(v.breakers, k))]
  BY DEF InstitutionalSection, Toward
<1> DEFINE v == View(index)
           w == View(k)
<1>2. Alike(v.blocks, w.blocks, k) /\ Alike(v.breakers, w.breakers, k)
  BY BlocksTold, BreakersTold
<1> HIDE DEF v, w
<1>3. \A d : /\ Items(Toward(Active(v.blocks, k), d)) = Items(Toward(Active(w.blocks, k), d))
             /\ LatestItem(Toward(Active(v.blocks, k), d))
                  = LatestItem(Toward(Active(w.blocks, k), d))
  BY <1>2, TowardAlike
<1>4. /\ Items(Active(v.breakers, k)) = Items(Active(w.breakers, k))
      /\ LatestItem(Active(v.breakers, k)) = LatestItem(Active(w.breakers, k))
  BY <1>2, ItemsAlike, LatestAlike
<1>5. InstitutionalSection(v, k) = InstitutionalSection(w, k)
  BY <1>1, <1>3, <1>4
<1> QED
  BY <1>5 DEF v, w

\* The turns up to a bar do not depend on what follows.
LEMMA TransitionsAlike ==
  ASSUME NEW F, NEW T, NEW n, NEW G, NEW U, NEW m, TruncatedTo(F, T, n, G, U, m), NEW v,
         v.tolerance \in Nat, v.maxBars \in Nat
  PROVE  {t \in Delivered!TransitionsOf(F, T, v) : t.bar <= m} = Delivered!TransitionsOf(G, U, v)
<1> DEFINE S == Turned!TurnsOf(F, T, v)
           R == Turned!TurnsOf(G, U, v)
<1>1. FrameOf(F, T, n) /\ FrameOf(G, U, m)
  BY PrefixFacts DEF TruncatedTo
<1>2. n \in Nat /\ F \in [1 .. n -> Bars] /\ m \in Nat /\ G \in [1 .. m -> Bars]
  BY <1>1 DEF FrameOf
<1>3. Turned!TurnSet(S, n) /\ Delivered!TransitionsOf(F, T, v) = Turned!Changes(S)
  BY <1>2, DeliveredTurns
<1>4. Delivered!TransitionsOf(G, U, v) = Turned!Changes(R)
  BY <1>2, DeliveredTurns
<1>5. Turned!TruncatedTo(F, T, n, G, U, m)
  BY TurnedTruncated
<1>6. R = {x \in S : x.bar <= m}
  BY <1>5, TurnedAssumed, Turned!TurnsAlike
<1> HIDE DEF S, R
<1>7. Turned!UpTo(Turned!Changes(S), m) = Turned!Changes(R)
  BY <1>2, <1>3, <1>6, TurnedAssumed, Turned!ChangesUpTo
<1> QED
  BY <1>3, <1>4, <1>7 DEF Turned!UpTo

\* The state of delivery is read from the turns known by then.
LEMMA DeliveryOfKnown ==
  ASSUME NEW S, NEW k
  PROVE  Delivered!DeliveryAt(Known(S, k), k) = Delivered!DeliveryAt(S, k)
<1> DEFINE Left(seen) ==
             IF seen = {} THEN "undefined"
             ELSE (CHOOSE x \in seen : \A y \in seen : ~Delivered!PublishedBefore(x, y)).direction
<1>1. \A Z : Delivered!DeliveryAt(Z, k) = Left({x \in Z : x.bar <= k})
  BY DEF Delivered!DeliveryAt
<1>2. {x \in Known(S, k) : x.bar <= k} = {x \in S : x.bar <= k}
  BY DEF Known
<1> HIDE DEF Left
<1> QED
  BY <1>1, <1>2

\* _composites_at reads the turns up to the decision and what is in force of the
\* redelivered ranges and the unicorns.
LEMMA CompositesReplayed ==
  ASSUME BInv, NEW k \in 1 .. index
  PROVE  CompositeSection(View(index), k) = CompositeSection(View(k), k)
<1>1. ASSUME NEW v
      PROVE  CompositeSection(v, k)
               = LET turns == Known(v.transitions, k)
                 IN  [redelivered |-> Items(Active(v.redelivered, k)),
                      latestRedelivered |-> LatestItem(Active(v.redelivered, k)),
                      delivery |-> Delivered!DeliveryAt(turns, k),
                      turns |-> Cardinality(turns), latestTurn |-> Latest(turns),
                      since |-> {k - t.bar : t \in Latest(turns)},
                      unicorns |-> Items(Active(v.unicorns, k)),
                      latestUnicorn |-> LatestItem(Active(v.unicorns, k))]
  BY DeliveryOfKnown DEF CompositeSection
<1> DEFINE v == View(index)
           w == View(k)
           F == SeenBars(index)
           T == SeenTimes(index)
           G == SeenBars(k)
           U == SeenTimes(k)
           c == Engine.delivery
<1>2. Alike(v.redelivered, w.redelivered, k) /\ Alike(v.unicorns, w.unicorns, k)
  BY ImbalancesTold, UnicornsTold
<1>3. TruncatedTo(F, T, index, G, U, k)
  BY SeenPrefix DEF BInv, IInv, TypeOK
<1>4. c.tolerance \in Nat /\ c.maxBars \in Nat
  BY EngineAssumption DEF Delivered!CisdConfigType
<1>5. /\ v.transitions = Delivered!TransitionsOf(F, T, c)
      /\ w.transitions = Delivered!TransitionsOf(G, U, c)
  BY ViewFields
<1> HIDE DEF v, w, F, T, G, U, c
<1>6. {t \in v.transitions : t.bar <= k} = w.transitions
  BY <1>3, <1>4, <1>5, TransitionsAlike
<1>7. Known(v.transitions, k) = Known(w.transitions, k)
  BY <1>6 DEF Known
<1>8. /\ Items(Active(v.redelivered, k)) = Items(Active(w.redelivered, k))
      /\ LatestItem(Active(v.redelivered, k)) = LatestItem(Active(w.redelivered, k))
      /\ Items(Active(v.unicorns, k)) = Items(Active(w.unicorns, k))
      /\ LatestItem(Active(v.unicorns, k)) = LatestItem(Active(w.unicorns, k))
  BY <1>2, ItemsAlike, LatestAlike
<1>9. CompositeSection(v, k) = CompositeSection(w, k)
  BY <1>1, <1>7, <1>8
<1> QED
  BY <1>9 DEF v, w

\* _premium_discount_at reads the range in force.
LEMMA PremiumReplayed ==
  ASSUME BInv, NEW k \in 1 .. index, NEW p
  PROVE  PremiumSection(View(index), k, p) = PremiumSection(View(k), k, p)
<1> DEFINE r == Engine.range
           B == ObservableBreaks(breaks, index)
           C == ObservableBreaks(breaks, k)
<1>1. /\ View(index).ranges = RangesOf(SeenBars(index), r, B)
      /\ View(k).ranges = RangesOf(SeenBars(k), r, C)
  BY ViewRest
<1>2. r \in RangeConfigs
  BY EngineAssumption
<1>3. Recorded(frame, config, breaks, index) /\ index \in 0 .. Len(frame) /\ Len(frame) \in Nat
  BY DEF BInv, RecordedSoFar, IInv, TypeOK
<1>4. index \in 0 .. index /\ k \in 0 .. index /\ k <= index /\ k \in Int /\ index \in Int
  BY <1>3
<1>5. Recorded(frame, config, B, index) /\ \A m \in DOMAIN breaks : breaks[m].bar \in Int
  <2>1. GrowsTo(frame, config, B, index, breaks, index)
    BY <1>3, <1>4, RecordPrefix
  <2>2. \A m \in DOMAIN breaks : breaks[m] \in BreakRecords
    BY <1>3 DEF Recorded
  <2> QED
    BY <2>1, <2>2 DEF GrowsTo, BreakRecords
<1>6. C = ObservableBreaks(B, k)
  BY <1>4, <1>5, ObservableAgain
<1> HIDE DEF B, C
<1>7. GrowsTo(frame, config, C, k, B, index)
  BY <1>4, <1>5, <1>6, RecordPrefix
<1>8. Recorded(frame, config, C, k) /\ Extends(B, C, k)
  BY <1>7 DEF GrowsTo
<1>9. {x \in RangesOf(frame, r, B) : x.bar <= k} = RangesOf(frame, r, C)
  <2>1. ASSUME NEW e, e = config
        PROVE  {x \in RangesOf(frame, r, B) : x.bar <= k} = RangesOf(frame, r, C)
    BY <1>2, <1>5, <1>8, <2>1, RangesKept
  <2> QED
    BY <2>1
<1>10. /\ RangesOf(SeenBars(index), r, B) = RangesOf(frame, r, B)
       /\ RangesOf(SeenBars(k), r, C) = RangesOf(frame, r, C)
  BY <1>2, <1>5, <1>8, RangesOfPrefix DEF SeenBars
<1>11. RangeAt(View(index).ranges, k) = RangeAt(View(k).ranges, k)
  <2> DEFINE R == View(index).ranges
             S == View(k).ranges
  <2>1. {x \in R : x.bar <= k} = S
    BY <1>1, <1>9, <1>10
  <2> HIDE DEF R, S
  <2>2. {x \in R : x.bar <= k} = {x \in S : x.bar <= k}
    BY <2>1
  <2>3. RangeAt(R, k) = RangeAt(S, k)
    BY <2>2 DEF RangeAt
  <2> QED
    BY <2>3 DEF R, S
<1>12. ASSUME NEW v
       PROVE  PremiumSection(v, k, p)
                = [range |-> RangeAt(v.ranges, k),
                   zone |-> {ZoneOf([r EXCEPT !.band = DefaultBand], x, p) :
                               x \in RangeAt(v.ranges, k)}]
  BY DEF PremiumSection
<1> HIDE DEF r
<1> QED
  BY <1>11, <1>12

----------------------------------------------------------------------------
\* The levels, opens and windows of the view are those of the proofs of Liquidity.
Rested == INSTANCE LiquidityProofs
            WITH OpenTimes <- Nat, Configs <- {Engine.liquidity}, levels <- {}, status <- <<>>,
                 active <- {}, approached <- <<>>, sweeps <- {}

LEMMA SameClocks ==
  /\ Resting!Directions = Rested!Directions
  /\ \A S : Resting!Max(S) = Rested!Max(S) /\ Resting!Min(S) = Rested!Min(S)
  /\ \A S : Resting!Cardinality(S) = Rested!Cardinality(S)
  /\ \A d, x, y : Resting!Beyond(d, x, y) = Rested!Beyond(d, x, y)
  /\ \A bar, d : Resting!Extreme(bar, d) = Rested!Extreme(bar, d)
  /\ \A c, i : Resting!ConfirmIndex(c, i) = Rested!ConfirmIndex(c, i)
  /\ \A T, i : Resting!CloseTime(T, i) = Rested!CloseTime(T, i)
  /\ \A T : Resting!ObservedEnd(T) = Rested!ObservedEnd(T)
  /\ \A z, t : Resting!LocalDate(z, t) = Rested!LocalDate(z, t)
  /\ \A z, x : Resting!ToUtc(z, x) = Rested!ToUtc(z, x)
  /\ \A z, x : Resting!Anomaly(z, x) = Rested!Anomaly(z, x)
  /\ \A w, t : Resting!Contains(w, t) = Rested!Contains(w, t)
<1>1. /\ Resting!Directions = Rested!Directions
      /\ \A d, x, y : Resting!Beyond(d, x, y) = Rested!Beyond(d, x, y)
      /\ \A bar, d : Resting!Extreme(bar, d) = Rested!Extreme(bar, d)
      /\ \A c, i : Resting!ConfirmIndex(c, i) = Rested!ConfirmIndex(c, i)
      /\ \A w, t : Resting!Contains(w, t) = Rested!Contains(w, t)
  BY DEF Resting!Directions, Rested!Directions, Resting!Beyond, Rested!Beyond, Resting!Extreme,
         Rested!Extreme, Resting!ConfirmIndex, Rested!ConfirmIndex, Resting!Contains,
         Rested!Contains
<1>2. \A S : Resting!Max(S) = Rested!Max(S) /\ Resting!Min(S) = Rested!Min(S)
  BY DEF Resting!Max, Rested!Max, Resting!Min, Rested!Min
<1>3. \A S : Resting!Cardinality(S) = Rested!Cardinality(S)
  BY DEF Resting!Cardinality, Rested!Cardinality
<1>4. \A T, i : Resting!CloseTime(T, i) = Rested!CloseTime(T, i)
  BY DEF Resting!CloseTime, Rested!CloseTime
<1>5. \A T : Resting!ObservedEnd(T) = Rested!ObservedEnd(T)
  BY <1>4 DEF Resting!ObservedEnd, Rested!ObservedEnd
<1>6. \A z, t : Resting!LocalTime(z, t) = Rested!LocalTime(z, t)
  BY DEF Resting!LocalTime, Rested!LocalTime
<1>7. \A z, t : Resting!LocalDate(z, t) = Rested!LocalDate(z, t)
  BY <1>6 DEF Resting!LocalDate, Rested!LocalDate
<1>8. \A z, x : Resting!Readings(z, x) = Rested!Readings(z, x)
  BY <1>6 DEF Resting!Readings, Rested!Readings
<1>9. \A z, x : Resting!ToUtc(z, x) = Rested!ToUtc(z, x)
  BY <1>2, <1>8 DEF Resting!ToUtc, Rested!ToUtc
<1>10. \A z, x : Resting!Anomaly(z, x) = Rested!Anomaly(z, x)
  BY <1>3, <1>8 DEF Resting!Anomaly, Rested!Anomaly
<1> QED
  BY <1>1, <1>2, <1>3, <1>4, <1>5, <1>7, <1>9, <1>10

LEMMA SameWindows ==
  /\ \A d, day : Resting!ResolveWindow(d, day) = Rested!ResolveWindow(d, day)
  /\ \A D, x, y : Resting!ResolveWindows(D, x, y) = Rested!ResolveWindows(D, x, y)
  /\ \A D, T : Resting!WindowsFor(D, T) = Rested!WindowsFor(D, T)
  /\ \A D, T : Resting!ViewWindows(D, T) = Rested!ViewWindows(D, T)
  /\ \A T, w : Resting!Members(T, w) = Rested!Members(T, w)
  /\ \A T, w : Resting!Complete(T, w) = Rested!Complete(T, w)
  /\ \A D, T : Resting!Occurred(D, T) = Rested!Occurred(D, T)
  /\ \A F, d, S : Resting!Furthest(F, d, S) = Rested!Furthest(F, d, S)
<1>1. \A d, day : Resting!ResolveWindow(d, day) = Rested!ResolveWindow(d, day)
  BY SameClocks DEF Resting!ResolveWindow, Rested!ResolveWindow
<1>2. \A D, x, y : Resting!ResolveWindows(D, x, y) = Rested!ResolveWindows(D, x, y)
  BY <1>1, SameClocks DEF Resting!ResolveWindows, Rested!ResolveWindows
<1>3. \A D, T : Resting!WindowsFor(D, T) = Rested!WindowsFor(D, T)
  BY <1>2, SameClocks DEF Resting!WindowsFor, Rested!WindowsFor
<1>4. \A D, T : Resting!ViewWindows(D, T) = Rested!ViewWindows(D, T)
  BY <1>2, SameClocks DEF Resting!ViewWindows, Rested!ViewWindows
<1>5. \A T, w : Resting!Members(T, w) = Rested!Members(T, w)
  BY SameClocks DEF Resting!Members, Rested!Members
<1>6. \A T, w : Resting!Complete(T, w) = Rested!Complete(T, w)
  BY SameClocks DEF Resting!Complete, Rested!Complete
<1>7. \A D, T : Resting!Occurred(D, T) = Rested!Occurred(D, T)
  BY <1>3, <1>5, <1>6 DEF Resting!Occurred, Rested!Occurred
<1>8. \A F, d, S : Resting!Furthest(F, d, S) = Rested!Furthest(F, d, S)
  BY SameClocks DEF Resting!Furthest, Rested!Furthest
<1> QED
  BY <1>1, <1>2, <1>3, <1>4, <1>5, <1>6, <1>7, <1>8

LEMMA SameOpens ==
  /\ \A F, T, o : Resting!DailyOpensOf(F, T, o) = Rested!DailyOpensOf(F, T, o)
  /\ \A O, t : Resting!LatestOpenAt(O, t) = Rested!LatestOpenAt(O, t)
<1>1. \A o, day : Resting!BoundaryFor(o, day) = Rested!BoundaryFor(o, day)
  BY SameClocks DEF Resting!BoundaryFor, Rested!BoundaryFor
<1>2. \A T, o, day, i : Resting!OpensAt(T, o, day, i) = Rested!OpensAt(T, o, day, i)
  BY <1>1 DEF Resting!OpensAt, Rested!OpensAt
<1>3. \A F, T, o : Resting!DailyOpensOf(F, T, o) = Rested!DailyOpensOf(F, T, o)
  BY <1>1, <1>2, SameClocks DEF Resting!DailyOpensOf, Rested!DailyOpensOf
<1>4. \A O, t : Resting!LatestOpenAt(O, t) = Rested!LatestOpenAt(O, t)
  BY DEF Resting!LatestOpenAt, Rested!LatestOpenAt
<1> QED
  BY <1>3, <1>4

LEMMA SameLevels ==
  \A F, T, c : Resting!LevelsOf(F, T, c) = Rested!LevelsOf(F, T, c)
<1>1. \A F, c, d, i : Resting!IsPivot(F, c, d, i) = Rested!IsPivot(F, c, d, i)
  BY SameClocks DEF Resting!IsPivot, Rested!IsPivot, Resting!Beats, Rested!Beats,
       Resting!WindowBefore, Rested!WindowBefore, Resting!WindowAfter, Rested!WindowAfter
<1>2. \A F, T, c : Resting!SwingLevels(F, T, c) = Rested!SwingLevels(F, T, c)
  BY <1>1, SameClocks DEF Resting!SwingLevels, Rested!SwingLevels
<1>3. \A F, T, c, d, i, j : Resting!EqualLevel(F, T, c, d, i, j) = Rested!EqualLevel(F, T, c, d, i, j)
  BY SameClocks, SameWindows DEF Resting!EqualLevel, Rested!EqualLevel
<1>4. \A F, c, d, i, j : Resting!IsEqualPair(F, c, d, i, j) = Rested!IsEqualPair(F, c, d, i, j)
  BY <1>1, SameClocks DEF Resting!IsEqualPair, Rested!IsEqualPair
<1>5. \A F, T, c : Resting!EqualLevels(F, T, c) = Rested!EqualLevels(F, T, c)
  BY <1>3, <1>4, SameClocks DEF Resting!EqualLevels, Rested!EqualLevels
<1>6. \A F, T, kind, label, w, S, d :
        Resting!PeriodLevel(F, T, kind, label, w, S, d) = Rested!PeriodLevel(F, T, kind, label, w, S, d)
  BY SameClocks, SameWindows DEF Resting!PeriodLevel, Rested!PeriodLevel
<1>7. \A c : Resting!DayDefinition(c) = Rested!DayDefinition(c)
  BY DEF Resting!DayDefinition, Rested!DayDefinition
<1>8. \A F, T, kind, D : Resting!WindowLevels(F, T, kind, D) = Rested!WindowLevels(F, T, kind, D)
  BY <1>6, SameClocks, SameWindows DEF Resting!WindowLevels, Rested!WindowLevels
<1>9. \A F, T, c : Resting!WeekLevels(F, T, c) = Rested!WeekLevels(F, T, c)
  <2>1. /\ \A day : Resting!InTradingWeek(day) = Rested!InTradingWeek(day)
        /\ \A day : Resting!WeekAnchor(day) = Rested!WeekAnchor(day)
    BY DEF Resting!InTradingWeek, Rested!InTradingWeek, Resting!WeekAnchor, Rested!WeekAnchor
  <2>2. \A c, a : Resting!WeekEnd(c, a) = Rested!WeekEnd(c, a)
    BY <1>7, SameWindows DEF Resting!WeekEnd, Rested!WeekEnd
  <2>3. \A T, c : Resting!TradedDays(T, c) = Rested!TradedDays(T, c)
    BY <1>7, <2>1, SameWindows DEF Resting!TradedDays, Rested!TradedDays
  <2>4. \A T, c, a : Resting!DaysOf(T, c, a) = Rested!DaysOf(T, c, a)
    BY <2>1, <2>3 DEF Resting!DaysOf, Rested!DaysOf
  <2>5. \A T, c, a : Resting!WeekOf(T, c, a) = Rested!WeekOf(T, c, a)
    BY <2>2, <2>4, SameClocks DEF Resting!WeekOf, Rested!WeekOf
  <2>6. \A T, c : Resting!WeeksFor(T, c) = Rested!WeeksFor(T, c)
    BY <2>1, <2>3, <2>5 DEF Resting!WeeksFor, Rested!WeeksFor
  <2> QED
    BY <1>6, <2>6, SameClocks, SameWindows DEF Resting!WeekLevels, Rested!WeekLevels
<1> QED
  BY <1>2, <1>5, <1>7, <1>8, <1>9 DEF Resting!LevelsOf, Rested!LevelsOf

\* What those proofs assume holds here.
LEMMA RestedAssumed ==
  /\ \A bar \in Bars : Rested!WellFormed(bar)
  /\ Duration \in Nat \ {0} /\ DayLength \in Nat \ {0}
  /\ Definitions \subseteq Rested!DefinitionType
  /\ \A d, e \in Definitions : d.name = e.name => d = e
  /\ \A d \in Definitions : Rested!ShortChange(d.zone)
  /\ WeekLength \in Nat \ {0} /\ TradingDays \in 1 .. WeekLength
  /\ {Engine.liquidity} \subseteq Rested!ConfigType
  /\ \A c \in {Engine.liquidity} : Rested!ShortChange(c.zone)
  /\ Nat \subseteq Nat /\ MaxBars \in Nat
<1>1. \A bar \in Bars : Rested!WellFormed(bar)
  BY BarsAssumption DEF Rested!WellFormed, WellFormed
<1>2. \A z : Rested!ShortChange(z) <=> Resting!ShortChange(z)
  BY DEF Rested!ShortChange, Resting!ShortChange
<1>3. /\ Rested!DefinitionType = Resting!DefinitionType
      /\ Rested!ConfigType = Resting!ConfigType
  BY DEF Rested!DefinitionType, Resting!DefinitionType, Rested!ConfigType, Resting!ConfigType,
         Rested!ZoneType, Resting!ZoneType, Rested!TiePolicies, Resting!TiePolicies,
         Rested!NoTracking, Resting!NoTracking
<1>4. Engine.liquidity \in Resting!ConfigType
  BY EngineAssumption
<1>5. Duration \in Nat \ {0} /\ MaxBars \in Nat
  BY BreakerAssumption, MaxBarsAssumption
<1>6. /\ DayLength \in Nat \ {0}
      /\ Definitions \subseteq Resting!DefinitionType
      /\ \A d, e \in Definitions : d.name = e.name => d = e
      /\ \A d \in Definitions : Resting!ShortChange(d.zone)
      /\ WeekLength \in Nat \ {0} /\ TradingDays \in 1 .. WeekLength
      /\ Resting!ShortChange(Engine.liquidity.zone)
  BY CalendarAssumption
<1> QED
  BY <1>1, <1>2, <1>3, <1>4, <1>5, <1>6

\* The first k bars are those of a frame the proofs of Liquidity speak of.
LEMMA SeenBegins ==
  ASSUME BInv, NEW k \in 1 .. index
  PROVE  /\ Rested!Given(SeenBars(index), SeenTimes(index), Engine.liquidity)
         /\ Rested!Begins(SeenBars(index), SeenTimes(index), SeenBars(k), SeenTimes(k), k)
         /\ SubSeq(SeenBars(index), 1, k) = SeenBars(k)
         /\ SubSeq(SeenTimes(index), 1, k) = SeenTimes(k)
<1> DEFINE F == SeenBars(index)
           T == SeenTimes(index)
           G == SeenBars(k)
           U == SeenTimes(k)
           c == Engine.liquidity
<1>1. TruncatedTo(F, T, index, G, U, k)
  BY SeenPrefix DEF BInv, IInv, TypeOK
<1>2. /\ FrameOf(F, T, index) /\ FrameOf(G, U, k) /\ k <= index /\ k \in Nat /\ index \in Nat
      /\ \A i \in 1 .. k : G[i] = F[i] /\ U[i] = T[i]
  BY <1>1, PrefixFacts
<1>3. c \in {Engine.liquidity}
  OBVIOUS
<1> HIDE DEF F, T, G, U, c
<1>4. /\ F \in Seq(Bars) /\ T \in Seq(Nat) /\ Len(F) = index /\ Len(T) = index
      /\ G \in Seq(Bars) /\ U \in Seq(Nat) /\ Len(G) = k /\ Len(U) = k
  BY <1>2 DEF FrameOf
<1>5. Rested!Increasing(T)
  BY <1>2 DEF FrameOf, Blocks!Increasing, Rested!Increasing
<1>6. Rested!Given(F, T, c)
  BY <1>3, <1>4, <1>5 DEF Rested!Given
<1>7. k \in 1 .. Len(F)
  BY <1>2, <1>4
<1>8. Rested!Begins(F, T, SubSeq(F, 1, k), SubSeq(T, 1, k), k)
  BY <1>6, <1>7, RestedAssumed, Rested!KnownFrame
<1>9. SubSeq(F, 1, k) = G /\ SubSeq(T, 1, k) = U
  BY <1>2, <1>4, <1>7
<1>10. /\ Rested!Given(F, T, c) /\ Rested!Begins(F, T, G, U, k)
       /\ SubSeq(F, 1, k) = G /\ SubSeq(T, 1, k) = U
  BY <1>6, <1>8, <1>9
<1> QED
  BY <1>10 DEF F, T, G, U, c

\* The close of bar k is the same instant in all frames.
LEMMA CloseOfBar ==
  ASSUME BInv, NEW k \in 1 .. index
  PROVE  /\ Resting!CloseTime(opens, k) = Resting!CloseTime(SeenTimes(index), k)
         /\ Resting!CloseTime(opens, k) = Resting!CloseTime(SeenTimes(k), k)
         /\ Resting!CloseTime(opens, k) \in Int
<1>1. index \in 0 .. Len(frame) /\ Len(frame) \in Nat /\ opens \in [1 .. Len(frame) -> Nat]
  BY DEF BInv, IInv, TypeOK, Charted
<1>2. k \in 0 .. Len(frame) /\ index \in 0 .. Len(frame) /\ k \in 1 .. k
  BY <1>1
<1>3. SeenTimes(index)[k] = opens[k] /\ SeenTimes(k)[k] = opens[k] /\ opens[k] \in Nat
  BY <1>1, <1>2, SeenFrame
<1> QED
  BY <1>3, BreakerAssumption DEF Resting!CloseTime

\* The levels of the view known by then are those of the bars closed by then.
LEMMA LevelsSeen ==
  ASSUME BInv, NEW k \in 1 .. index
  PROVE  /\ {l \in View(index).levels : l.confirmed <= Resting!CloseTime(opens, k)}
              = View(k).levels
         /\ \A l \in View(index).levels : l.confirmed \in Int
<1> DEFINE F == SeenBars(index)
           T == SeenTimes(index)
           G == SeenBars(k)
           U == SeenTimes(k)
           c == Engine.liquidity
           t == Resting!CloseTime(opens, k)
<1>1. /\ Rested!Given(F, T, c) /\ Rested!Begins(F, T, G, U, k)
      /\ SubSeq(F, 1, k) = G /\ SubSeq(T, 1, k) = U
  BY SeenBegins
<1>2. View(index).levels = Rested!LevelsOf(F, T, c) /\ View(k).levels = Rested!LevelsOf(G, U, c)
  BY ViewRest, SameLevels
<1>3. t = Rested!CloseTime(T, k)
  BY CloseOfBar, SameClocks
<1> HIDE DEF F, T, G, U, c, t
<1>4. k \in 1 .. Len(F)
  BY <1>1 DEF Rested!Begins
<1>5. {l \in Rested!LevelsOf(F, T, c) : l.confirmed <= Rested!CloseTime(T, k)}
        = Rested!LevelsOf(SubSeq(F, 1, k), SubSeq(T, 1, k), c)
  BY <1>1, <1>4, RestedAssumed, Rested!KnownLevels
<1>6. \A l \in Rested!LevelsOf(F, T, c) : l.confirmed \in Int
  BY <1>1, RestedAssumed, Rested!LevelTypes
<1>7. /\ {l \in View(index).levels : l.confirmed <= t} = View(k).levels
      /\ \A l \in View(index).levels : l.confirmed \in Int
  BY <1>1, <1>2, <1>3, <1>5, <1>6
<1> QED
  BY <1>7 DEF t

\* The bars that exceed a level they could already see.
HitsOf(F, T, l) ==
  {k \in DOMAIN F : /\ l.confirmed <= Resting!CloseTime(T, k)
                    /\ Distance(l.side, Extreme(F[k], l.side), l.price)
                         > Engine.liquidity.sweepTol}

LEMMA SweepsAre ==
  ASSUME NEW F, NEW T, NEW L, NEW s
  PROVE  s \in SweepsOf(F, T, L)
           <=> \E l \in L : HitsOf(F, T, l) # {} /\ s = [level |-> l, bar |-> Min(HitsOf(F, T, l))]
<1>1. SweepsOf(F, T, L)
        = {[level |-> l, bar |-> Min(HitsOf(F, T, l))] : l \in {l \in L : HitsOf(F, T, l) # {}}}
  BY DEF SweepsOf, HitsOf
<1> QED
  BY <1>1

\* The sweeps up to a bar do not depend on what follows.
LEMMA SweepsAlike ==
  ASSUME NEW F, NEW T, NEW n, NEW G, NEW U, NEW m, TruncatedTo(F, T, n, G, U, m), m >= 1,
         NEW L, \A l \in L : l.confirmed \in Int, NEW K,
         K = {l \in L : l.confirmed <= Resting!CloseTime(T, m)}
  PROVE  /\ {s \in SweepsOf(F, T, L) : s.bar <= m} = SweepsOf(G, U, K)
         /\ \A s \in SweepsOf(F, T, L) : s.bar \in 1 .. n
<1>1. /\ DOMAIN F = 1 .. n /\ DOMAIN G = 1 .. m /\ n \in Nat /\ m \in Nat
      /\ \A k : k \in 1 .. m <=> k \in 1 .. n /\ k <= m
      /\ \A k \in 1 .. m : G[k] = F[k]
      /\ FrameOf(F, T, n) /\ FrameOf(G, U, m)
  BY PrefixFacts
<1>2. /\ \A k \in 1 .. n : Resting!CloseTime(T, k) \in Int
      /\ \A k \in 1 .. m : Resting!CloseTime(U, k) = Resting!CloseTime(T, k)
      /\ \A i, k \in 1 .. n : i <= k => Resting!CloseTime(T, i) <= Resting!CloseTime(T, k)
  <2>1. /\ T \in [1 .. n -> Nat] /\ Blocks!Increasing(T)
        /\ \A k \in 1 .. m : U[k] = T[k]
    BY <1>1 DEF FrameOf, TruncatedTo
  <2> QED
    BY <1>1, <2>1, BreakerAssumption DEF Resting!CloseTime, Blocks!Increasing
<1>3. ASSUME NEW l \in L
      PROVE  /\ HitsOf(F, T, l) \subseteq 1 .. n
             /\ \A k : k \in HitsOf(G, U, l) <=> k \in HitsOf(F, T, l) /\ k <= m
             /\ \A k \in HitsOf(F, T, l) : k <= m => l \in K
  <2> DEFINE Hits(k, x) == /\ l.confirmed <= x
                           /\ Distance(l.side, Extreme(F[k], l.side), l.price)
                                > Engine.liquidity.sweepTol
  <2>1. /\ HitsOf(F, T, l) = {k \in 1 .. n : Hits(k, Resting!CloseTime(T, k))}
        /\ HitsOf(G, U, l) = {k \in 1 .. m : Hits(k, Resting!CloseTime(T, k))}
    <3>1. HitsOf(F, T, l) = {k \in 1 .. n : Hits(k, Resting!CloseTime(T, k))}
      BY <1>1 DEF HitsOf
    <3>2. ASSUME NEW k \in 1 .. m
          PROVE  G[k] = F[k] /\ Resting!CloseTime(U, k) = Resting!CloseTime(T, k)
      BY <1>1, <1>2
    <3>3. HitsOf(G, U, l) = {k \in 1 .. m : Hits(k, Resting!CloseTime(T, k))}
      BY <1>1, <3>2 DEF HitsOf
    <3> QED
      BY <3>1, <3>3
  <2>2. ASSUME NEW k \in HitsOf(F, T, l), k <= m PROVE l \in K
    <3>1. k \in 1 .. n /\ l.confirmed <= Resting!CloseTime(T, k) /\ m \in 1 .. n
      BY <1>1, <2>1
    <3>2. Resting!CloseTime(T, k) <= Resting!CloseTime(T, m)
      BY <1>2, <2>2, <3>1
    <3>3. /\ Resting!CloseTime(T, k) \in Int /\ Resting!CloseTime(T, m) \in Int
          /\ l.confirmed \in Int
      BY <1>2, <3>1
    <3> HIDE DEF Hits
    <3>4. l.confirmed <= Resting!CloseTime(T, m)
      BY <3>1, <3>2, <3>3
    <3> QED
      BY <3>4
  <2> HIDE DEF Hits
  <2> QED
    BY <1>1, <2>1, <2>2
<1>4. ASSUME NEW l \in L
      PROVE  /\ HitsOf(F, T, l) # {} => Min(HitsOf(F, T, l)) \in HitsOf(F, T, l)
             /\ HitsOf(G, U, l) # {} => /\ HitsOf(F, T, l) # {}
                                        /\ Min(HitsOf(F, T, l)) = Min(HitsOf(G, U, l))
                                        /\ Min(HitsOf(F, T, l)) <= m
             /\ HitsOf(F, T, l) # {} /\ Min(HitsOf(F, T, l)) <= m => HitsOf(G, U, l) # {}
  <2> DEFINE S == HitsOf(F, T, l)
             R == HitsOf(G, U, l)
  <2>1. S \subseteq Nat /\ \A k : k \in R <=> k \in S /\ k <= m
    BY <1>1, <1>3
  <2> HIDE DEF S, R
  <2>2. /\ S # {} => Min(S) \in S
        /\ R # {} => S # {} /\ Min(S) = Min(R) /\ Min(S) \in R
        /\ S # {} /\ Min(S) <= m => R # {}
    BY <1>1, <2>1, LeastAlike
  <2>3. R # {} => Min(S) <= m
    BY <2>1, <2>2
  <2> QED
    BY <2>2, <2>3 DEF S, R
<1>5. ASSUME NEW s \in SweepsOf(F, T, L), s.bar <= m
      PROVE  s \in SweepsOf(G, U, K)
  <2>1. PICK l \in L : HitsOf(F, T, l) # {} /\ s = [level |-> l, bar |-> Min(HitsOf(F, T, l))]
    BY SweepsAre
  <2>2. s.bar = Min(HitsOf(F, T, l))
    BY <2>1
  <2>3. /\ HitsOf(G, U, l) # {} /\ Min(HitsOf(F, T, l)) = Min(HitsOf(G, U, l)) /\ l \in K
    BY <1>3, <1>4, <1>5, <2>1, <2>2
  <2>4. s = [level |-> l, bar |-> Min(HitsOf(G, U, l))]
    BY <2>1, <2>3
  <2> QED
    BY <2>3, <2>4, SweepsAre
<1>6. ASSUME NEW s \in SweepsOf(G, U, K)
      PROVE  s \in SweepsOf(F, T, L) /\ s.bar <= m
  <2>1. PICK l \in K : HitsOf(G, U, l) # {} /\ s = [level |-> l, bar |-> Min(HitsOf(G, U, l))]
    BY SweepsAre
  <2>2. /\ l \in L /\ HitsOf(F, T, l) # {} /\ Min(HitsOf(F, T, l)) = Min(HitsOf(G, U, l))
        /\ Min(HitsOf(F, T, l)) <= m
    BY <1>4, <2>1
  <2>3. s = [level |-> l, bar |-> Min(HitsOf(F, T, l))] /\ s.bar <= m
    BY <2>1, <2>2
  <2> QED
    BY <2>2, <2>3, SweepsAre
<1>7. ASSUME NEW s \in SweepsOf(F, T, L) PROVE s.bar \in 1 .. n
  <2>1. PICK l \in L : HitsOf(F, T, l) # {} /\ s = [level |-> l, bar |-> Min(HitsOf(F, T, l))]
    BY SweepsAre
  <2>2. Min(HitsOf(F, T, l)) \in 1 .. n
    BY <1>3, <1>4, <2>1
  <2> QED
    BY <2>1, <2>2
<1> QED
  BY <1>5, <1>6, <1>7

\* The sweeps of the view up to then are those of the bars closed by then.
LEMMA SweepsSeen ==
  ASSUME BInv, NEW k \in 1 .. index
  PROVE  {s \in View(index).sweeps : s.bar <= k} = View(k).sweeps
<1> DEFINE F == SeenBars(index)
           T == SeenTimes(index)
           G == SeenBars(k)
           U == SeenTimes(k)
           L == View(index).levels
           K == View(k).levels
           t == Resting!CloseTime(opens, k)
<1>1. TruncatedTo(F, T, index, G, U, k) /\ k >= 1
  BY SeenPrefix DEF BInv, IInv, TypeOK
<1>2. View(index).sweeps = SweepsOf(F, T, L) /\ View(k).sweeps = SweepsOf(G, U, K)
  BY ViewRest
<1>3. t = Resting!CloseTime(T, k)
  BY CloseOfBar
<1>4. {l \in L : l.confirmed <= t} = K /\ \A l \in L : l.confirmed \in Int
  BY LevelsSeen
<1> HIDE DEF F, T, G, U, L, K, t
<1>5. {s \in SweepsOf(F, T, L) : s.bar <= k} = SweepsOf(G, U, K)
  BY <1>1, <1>3, <1>4, SweepsAlike
<1> QED
  BY <1>2, <1>5

\* _liquidity_at reads the levels and the sweeps known by the decision.
LEMMA LiquidityReplayed ==
  ASSUME BInv, NEW k \in 1 .. index, NEW p
  PROVE  LiquiditySection(View(index), k, p) = LiquiditySection(View(k), k, p)
<1> DEFINE t == Resting!CloseTime(opens, k)
           Side(swept, known, d) == {l \in known \ {s.level : s \in swept} : l.side = d}
           Section(swept, known) ==
             [active |-> [d \in Directions |-> Side(swept, known, d)],
              nearest |-> [d \in Directions |->
                {l.price : l \in Nearest({[top |-> l.price, bottom |-> l.price, price |-> l.price] :
                                            l \in Side(swept, known, d)}, p)}],
              swept |-> {s.level : s \in swept}, latest |-> Latest(swept),
              since |-> {k - s.bar : s \in Latest(swept)}]
           v == View(index)
           w == View(k)
<1>1. ASSUME NEW u
      PROVE  LiquiditySection(u, k, p)
               = Section({s \in u.sweeps : s.bar <= k}, {l \in u.levels : l.confirmed <= t})
  BY DEF LiquiditySection
<1>2. {l \in v.levels : l.confirmed <= t} = w.levels
  BY LevelsSeen
<1>3. {s \in v.sweeps : s.bar <= k} = w.sweeps
  BY SweepsSeen
<1> HIDE DEF Section, v, w, t
<1>4. {l \in w.levels : l.confirmed <= t} = {l \in v.levels : l.confirmed <= t}
  BY <1>2
<1>5. {s \in w.sweeps : s.bar <= k} = {s \in v.sweeps : s.bar <= k}
  BY <1>3
<1>6. LiquiditySection(v, k, p) = LiquiditySection(w, k, p)
  BY <1>1, <1>4, <1>5
<1> QED
  BY <1>6 DEF v, w

\* _daily_open_at reads the same open, but for one at the very instant of the
\* reading.
LEMMA DailyReplayed ==
  ASSUME BInv, NEW k \in 1 .. index
  PROVE  LET O == View(index).dailyOpens
             R == View(k).dailyOpens
             t == Resting!CloseTime(opens, k)
         IN  \/ Resting!LatestOpenAt(R, t) = Resting!LatestOpenAt(O, t)
             \/ /\ \A x \in Resting!LatestOpenAt(O, t) : x.at = t
                /\ \A y \in Resting!LatestOpenAt(R, t) : y.at < t
<1> DEFINE F == SeenBars(index)
           T == SeenTimes(index)
           G == SeenBars(k)
           U == SeenTimes(k)
           o == Engine.daily
           t == Resting!CloseTime(opens, k)
           O == View(index).dailyOpens
           R == View(k).dailyOpens
<1>1. Rested!Given(F, T, Engine.liquidity) /\ Rested!Begins(F, T, G, U, k)
  BY SeenBegins
<1>2. O = Rested!DailyOpensOf(F, T, o) /\ R = Rested!DailyOpensOf(G, U, o)
  BY ViewRest, SameOpens
<1>3. t = Rested!CloseTime(T, k) /\ t \in Int
  BY CloseOfBar, SameClocks
<1>4. o \in Rested!DailyOpenType /\ Rested!ShortChange(o.zone)
  <2>1. o \in Resting!DailyOpenType /\ Resting!ShortChange(o.zone)
    BY EngineAssumption, CalendarAssumption
  <2>2. Rested!DailyOpenType = Resting!DailyOpenType
    BY DEF Rested!DailyOpenType, Resting!DailyOpenType, Rested!ZoneType, Resting!ZoneType
  <2>3. \A z : Rested!ShortChange(z) <=> Resting!ShortChange(z)
    BY DEF Rested!ShortChange, Resting!ShortChange
  <2> QED
    BY <2>1, <2>2, <2>3
<1> HIDE DEF F, T, G, U, o, t, O, R
<1>5. Rested!Increasing(T)
  BY <1>1 DEF Rested!Given
<1>6. /\ {x \in Rested!DailyOpensOf(F, T, o) : x.at < Rested!CloseTime(T, k)}
           = Rested!DailyOpensOf(G, U, o)
      /\ \A x \in Rested!DailyOpensOf(F, T, o) : x.at \in Int
  BY <1>1, <1>4, <1>5, RestedAssumed, Rested!KnownOpens
<1>7. R = {x \in O : x.at < t} /\ \A x \in O : x.at \in Int
  BY <1>2, <1>3, <1>6
<1>8. \/ Rested!LatestOpenAt(R, t) = Rested!LatestOpenAt(O, t)
      \/ /\ \A x \in Rested!LatestOpenAt(O, t) : x.at = t
         /\ \A y \in Rested!LatestOpenAt(R, t) : y.at < t
  BY <1>3, <1>7, RestedAssumed, Rested!LatestOpens
<1>9. \/ Resting!LatestOpenAt(R, t) = Resting!LatestOpenAt(O, t)
      \/ /\ \A x \in Resting!LatestOpenAt(O, t) : x.at = t
         /\ \A y \in Resting!LatestOpenAt(R, t) : y.at < t
  BY <1>8, SameOpens
<1> QED
  BY <1>9 DEF O, R, t

\* _session_at finds the same sessions in progress.
LEMMA WindowsReplayed ==
  ASSUME BInv, NEW k \in 1 .. index
  PROVE  LET t == Resting!CloseTime(opens, k)
         IN  {w \in View(k).windows : Resting!Contains(w, t)}
               = {w \in View(index).windows : Resting!Contains(w, t)}
<1> DEFINE T == SeenTimes(index)
           U == SeenTimes(k)
           F == SeenBars(index)
           G == SeenBars(k)
           t == Resting!CloseTime(opens, k)
           V == View(index).windows
           W == View(k).windows
<1>1. Rested!Given(F, T, Engine.liquidity) /\ Rested!Begins(F, T, G, U, k)
  BY SeenBegins
<1>2. V = Rested!ViewWindows(Definitions, T) /\ W = Rested!ViewWindows(Definitions, U)
  BY ViewRest, SameWindows
<1>3. t = Rested!CloseTime(T, k) /\ t \in Int /\ t = Rested!CloseTime(U, k)
  BY CloseOfBar, SameClocks
<1> HIDE DEF F, T, G, U, t, V, W
<1>4. /\ U[1] = T[1] /\ T[1] \in Int /\ Rested!ObservedEnd(T) \in Int /\ Rested!ObservedEnd(U) \in Int
      /\ t <= Rested!ObservedEnd(T) /\ t <= Rested!ObservedEnd(U)
  <2> DEFINE C(i) == Rested!CloseTime(T, i)
             n == Len(F)
  <2>1. /\ Len(T) = n /\ k \in 1 .. n /\ Len(U) = k /\ n \in Nat
        /\ \A i \in 1 .. k : U[i] = T[i]
        /\ \A i, j \in 1 .. n : C(i) <= C(j) <=> i <= j
        /\ \A i \in 1 .. n : T[i] \in Nat /\ C(i) \in Int
    BY <1>1 DEF Rested!Begins
  <2>2. Rested!ObservedEnd(T) = C(n) /\ Rested!ObservedEnd(U) = t
    BY <1>3, <2>1 DEF Rested!ObservedEnd
  <2>3. t = C(k)
    BY <1>3
  <2> HIDE DEF C, n
  <2> QED
    BY <1>3, <2>1, <2>2, <2>3
<1>5. \A d \in Definitions : Rested!Resolvable(d)
  <2>1. ASSUME NEW d \in Definitions PROVE Rested!Resolvable(d)
    <3>1. d \in Rested!DefinitionType /\ Rested!ShortChange(d.zone)
      BY RestedAssumed
    <3> QED
      BY <3>1 DEF Rested!Resolvable, Rested!DefinitionType
  <2> QED
    BY <2>1
<1>6. {w \in Rested!ViewWindows(Definitions, U) : Rested!Contains(w, t)}
        = {w \in Rested!ViewWindows(Definitions, T) : Rested!Contains(w, t)}
  BY <1>3, <1>4, <1>5, RestedAssumed, Rested!KnownLive
<1>7. {w \in W : Resting!Contains(w, t)} = {w \in V : Resting!Contains(w, t)}
  BY <1>2, <1>6, SameClocks
<1> QED
  BY <1>7 DEF V, W, t

----------------------------------------------------------------------------
\* The state of a view is put together from the sections.
Together(b, t, p, s, l, i, n, c, m, O, W) ==
  LET o == Resting!DailyOpenSection(O, Engine.daily, t, p)
      evidence == [d \in Directions |-> Evidence(d, s, c, m, l)]
  IN  [bar |-> b, structure |-> s, liquidity |-> l, imbalance |-> i, institutional |-> n,
       composites |-> c, premium |-> m, daily |-> o, session |-> Resting!SessionSection(W, t, o),
       evidence |-> evidence, bias |-> Bias(evidence["bullish"], evidence["bearish"])]

\* Two states that differ in the daily open, and in what the session says of it.
LEMMA TogetherApart ==
  ASSUME NEW b, NEW t, NEW p, NEW s, NEW l, NEW i, NEW n, NEW c, NEW m, NEW O, NEW W,
         NEW R, NEW V,
         {w \in V : Resting!Contains(w, t)} = {w \in W : Resting!Contains(w, t)}
  PROVE  LET full   == Together(b, t, p, s, l, i, n, c, m, O, W)
             prefix == Together(b, t, p, s, l, i, n, c, m, R, V)
         IN  /\ full.daily = Resting!DailyOpenSection(O, Engine.daily, t, p)
             /\ prefix.daily = Resting!DailyOpenSection(R, Engine.daily, t, p)
             /\ \A f \in DOMAIN full \ {"daily", "session"} : prefix[f] = full[f]
             /\ \A f \in DOMAIN full.session \ {"age"} : prefix.session[f] = full.session[f]
             /\ full.daily = prefix.daily => prefix = full
<1> DEFINE o == Resting!DailyOpenSection(O, Engine.daily, t, p)
           q == Resting!DailyOpenSection(R, Engine.daily, t, p)
           evidence == [d \in Directions |-> Evidence(d, s, c, m, l)]
           bias == Bias(evidence["bullish"], evidence["bearish"])
           x == Resting!SessionSection(W, t, o)
           y == Resting!SessionSection(V, t, q)
           full   == Together(b, t, p, s, l, i, n, c, m, O, W)
           prefix == Together(b, t, p, s, l, i, n, c, m, R, V)
<1>1. /\ full = [bar |-> b, structure |-> s, liquidity |-> l, imbalance |-> i,
                 institutional |-> n, composites |-> c, premium |-> m, daily |-> o,
                 session |-> x, evidence |-> evidence, bias |-> bias]
      /\ prefix = [bar |-> b, structure |-> s, liquidity |-> l, imbalance |-> i,
                   institutional |-> n, composites |-> c, premium |-> m, daily |-> q,
                   session |-> y, evidence |-> evidence, bias |-> bias]
  BY DEF Together
<1>2. \E live, old, new :
        /\ x = [active |-> {w.name : w \in live}, elapsed |-> {<<w.name, t - w.start>> : w \in live},
                age |-> old]
        /\ y = [active |-> {w.name : w \in live}, elapsed |-> {<<w.name, t - w.start>> : w \in live},
                age |-> new]
        /\ o = q => old = new
  <2> DEFINE live == {w \in W : Resting!Contains(w, t)}
             Age(section) == {t - z.level.at : z \in section}
  <2>1. /\ x = [active |-> {w.name : w \in live},
                elapsed |-> {<<w.name, t - w.start>> : w \in live}, age |-> Age(o)]
        /\ y = [active |-> {w.name : w \in live},
                elapsed |-> {<<w.name, t - w.start>> : w \in live}, age |-> Age(q)]
    BY DEF Resting!SessionSection
  <2> HIDE DEF live, Age, o, q, x, y
  <2>2. o = q => Age(o) = Age(q)
    OBVIOUS
  <2> QED
    BY <2>1, <2>2
<1> HIDE DEF o, q, evidence, bias, x, y, full, prefix
<1>3. PICK names, ages, old, new :
        /\ x = [active |-> names, elapsed |-> ages, age |-> old]
        /\ y = [active |-> names, elapsed |-> ages, age |-> new]
        /\ o = q => old = new
  BY <1>2
<1>4. \A f \in DOMAIN full.session \ {"age"} : prefix.session[f] = full.session[f]
  <2>1. DOMAIN full.session = {"active", "elapsed", "age"}
    BY <1>1, <1>3
  <2>2. ASSUME NEW f \in {"active", "elapsed"} PROVE prefix.session[f] = full.session[f]
    BY <1>1, <1>3
  <2> QED
    BY <2>1, <2>2
<1>5. \A f \in DOMAIN full \ {"daily", "session"} : prefix[f] = full[f]
  <2>1. DOMAIN full = {"bar", "structure", "liquidity", "imbalance", "institutional",
                       "composites", "premium", "daily", "session", "evidence", "bias"}
    BY <1>1
  <2>2. ASSUME NEW f \in {"bar", "structure", "liquidity", "imbalance", "institutional",
                          "composites", "premium", "evidence", "bias"}
        PROVE  prefix[f] = full[f]
    BY <1>1
  <2> QED
    BY <2>1, <2>2
<1>6. full.daily = o /\ prefix.daily = q /\ (o = q => prefix = full)
  BY <1>1, <1>3
<1> QED
  BY <1>4, <1>5, <1>6 DEF o, q, full, prefix

\* Replayed over the bars closed by then, the view gives the state it gives over
\* the complete frame, whatever the detectors' configurations and the calendar.
THEOREM StatesReplayedHolds == BreakersSpec => []StatesReplayed
<1>1. ASSUME BInv, NEW k \in 1 .. index, NEW v, v = View(index)
      PROVE  LET full   == MarketStateAt(v, k)
                 prefix == MarketStateAt(View(k), k)
                 now    == Resting!CloseTime(opens, k)
             IN  \/ prefix = full
                 \/ /\ \A x \in full.daily : x.level.at = now
                    /\ \A y \in prefix.daily : y.level.at < now
                    /\ \A f \in DOMAIN full \ {"daily", "session"} : prefix[f] = full[f]
                    /\ \A f \in DOMAIN full.session \ {"age"} : prefix.session[f] = full.session[f]
  <2> DEFINE b == frame[k]
             p == frame[k].close
             t == Resting!CloseTime(opens, k)
             s == StructureSection(v, k)
             l == LiquiditySection(v, k, p)
             i == ImbalanceSection(v, k, p)
             n == InstitutionalSection(v, k)
             c == CompositeSection(v, k)
             m == PremiumSection(v, k, p)
             w == View(k)
             O == v.dailyOpens
             R == w.dailyOpens
             full   == MarketStateAt(v, k)
             prefix == MarketStateAt(w, k)
  <2>1. full = Together(b, t, p, s, l, i, n, c, m, O, v.windows)
    BY DEF MarketStateAt, Together
  <2>2. prefix = Together(b, t, p, StructureSection(w, k), LiquiditySection(w, k, p),
                          ImbalanceSection(w, k, p), InstitutionalSection(w, k),
                          CompositeSection(w, k), PremiumSection(w, k, p), R, w.windows)
    BY DEF MarketStateAt, Together
  <2>3. /\ StructureSection(w, k) = s /\ LiquiditySection(w, k, p) = l
        /\ ImbalanceSection(w, k, p) = i /\ InstitutionalSection(w, k) = n
        /\ CompositeSection(w, k) = c /\ PremiumSection(w, k, p) = m
    BY <1>1, StructureReplayed, LiquidityReplayed, ImbalanceReplayed, InstitutionalReplayed,
       CompositesReplayed, PremiumReplayed
  <2>4. {x \in w.windows : Resting!Contains(x, t)} = {x \in v.windows : Resting!Contains(x, t)}
    BY <1>1, WindowsReplayed
  <2>5. \/ Resting!LatestOpenAt(R, t) = Resting!LatestOpenAt(O, t)
        \/ /\ \A x \in Resting!LatestOpenAt(O, t) : x.at = t
           /\ \A y \in Resting!LatestOpenAt(R, t) : y.at < t
    BY <1>1, DailyReplayed
  <2>6. t = Resting!CloseTime(opens, k)
    OBVIOUS
  <2> HIDE DEF b, p, t, s, l, i, n, c, m, w, O, R, full, prefix
  <2>7. prefix = Together(b, t, p, s, l, i, n, c, m, R, w.windows)
    BY <2>2, <2>3
  <2>8. /\ full.daily = Resting!DailyOpenSection(O, Engine.daily, t, p)
        /\ prefix.daily = Resting!DailyOpenSection(R, Engine.daily, t, p)
        /\ \A f \in DOMAIN full \ {"daily", "session"} : prefix[f] = full[f]
        /\ \A f \in DOMAIN full.session \ {"age"} : prefix.session[f] = full.session[f]
        /\ full.daily = prefix.daily => prefix = full
    BY <2>1, <2>4, <2>7, TogetherApart
  <2>9. \A S : Resting!DailyOpenSection(S, Engine.daily, t, p)
                 = {[level |-> x, distance |-> p - x.price,
                     current |-> x.day = Resting!LocalDate(Engine.daily.zone, t)] :
                      x \in Resting!LatestOpenAt(S, t)}
    BY DEF Resting!DailyOpenSection
  <2>10. CASE Resting!LatestOpenAt(R, t) = Resting!LatestOpenAt(O, t)
    <3>1. full.daily = prefix.daily
      BY <2>8, <2>9, <2>10
    <3> QED
      BY <2>8, <3>1 DEF full, prefix, w
  <2>11. CASE /\ \A x \in Resting!LatestOpenAt(O, t) : x.at = t
              /\ \A y \in Resting!LatestOpenAt(R, t) : y.at < t
    <3>1. \A x \in full.daily : x.level.at = t
      BY <2>8, <2>9, <2>11
    <3>2. \A y \in prefix.daily : y.level.at < t
      BY <2>8, <2>9, <2>11
    <3> QED
      BY <2>6, <2>8, <3>1, <3>2 DEF full, prefix, w
  <2> QED
    BY <2>5, <2>10, <2>11
<1>2. BInv => StatesReplayed
  <2>1. BInv => index \in Nat
    BY DEF BInv, IInv, TypeOK
  <2> QED
    BY <1>1, <2>1 DEF StatesReplayed
<1> QED
  BY <1>2, BreakersInv, PTL
=============================================================================
