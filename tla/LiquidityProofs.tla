-------------------------- MODULE LiquidityProofs ---------------------------
(***************************************************************************)
(* Proofs about Liquidity: the walk sweeps a level when, and only when, a  *)
(* bar that could know it first exceeds it; the levels and the sessions a  *)
(* run sees are those of the complete frame.                               *)
(***************************************************************************)
EXTENDS Liquidity, Extrema

----------------------------------------------------------------------------
\* The levels of a frame are known at an instant.

LEMMA FrameType ==
  ASSUME Init
  PROVE  /\ frame \in Seq(Bars) /\ opens \in Seq(Nat) /\ Len(opens) = Len(frame)
         /\ Increasing(opens)
<1>1. PICK n \in 0 .. MaxBars : /\ opens \in {T \in [1 .. n -> OpenTimes] : Increasing(T)}
                                /\ frame \in [1 .. n -> Bars]
  BY DEF Init
<1>2. n \in Nat /\ OpenTimes \subseteq Nat
  BY BoundsAssumption
<1>3. frame \in Seq(Bars) /\ Len(frame) = n
  BY <1>1, <1>2
<1>4. opens \in [1 .. n -> Nat] /\ Increasing(opens)
  BY <1>1, <1>2
<1>5. opens \in Seq(Nat) /\ Len(opens) = n
  BY <1>2, <1>4
<1> QED
  BY <1>3, <1>4, <1>5

\* A local time is read off by one of the two offsets of its zone.
LEMMA ToUtcIs ==
  ASSUME NEW z \in ZoneType, NEW x \in Int
  PROVE  ToUtc(z, x) \in {x - z.before, x - z.after}
<1>1. Readings(z, x) \subseteq {x - z.before, x - z.after}
  BY DEF Readings
<1>2. CASE Readings(z, x) = {}
  BY <1>2 DEF ToUtc
<1>3. CASE Readings(z, x) # {}
  <2>1. PICK a, b \in {x - z.before, x - z.after} : Readings(z, x) = {a, b}
    BY <1>1, <1>3
  <2>2. a \in Int /\ b \in Int
    BY DEF ZoneType
  <2>3. Min({a, b}) \in {a, b}
    BY <2>2, TwoInts
  <2> QED
    BY <1>3, <2>1, <2>3 DEF ToUtc
<1> QED
  BY <1>2, <1>3

LEMMA ToUtcType ==
  ASSUME NEW z \in ZoneType, NEW x \in Int
  PROVE  ToUtc(z, x) \in Int
<1>1. z.before \in Int /\ z.after \in Int
  BY DEF ZoneType
<1> QED
  BY <1>1, ToUtcIs

\* A definition apart from its name.
Resolvable(d) ==
  /\ d.zone \in ZoneType /\ ShortChange(d.zone)
  /\ d.start \in 0 .. DayLength - 1 /\ d.end \in 0 .. DayLength - 1

LEMMA WindowTypes ==
  ASSUME NEW d, Resolvable(d), NEW day \in Int
  PROVE  ResolveWindow(d, day).start \in Int /\ ResolveWindow(d, day).end \in Int
<1>1. d.zone \in ZoneType /\ d.start \in Int /\ d.end \in Int /\ DayLength \in Nat
  BY TimeAssumption DEF Resolvable
<1>2. /\ day * DayLength + d.start \in Int
      /\ (IF d.end <= d.start THEN day + 1 ELSE day) * DayLength + d.end \in Int
  BY <1>1
<1> QED
  BY <1>1, <1>2, ToUtcType DEF ResolveWindow

\* Frames, their times and a configuration, as analyse gets them.
Given(F, T, c) ==
  F \in Seq(Bars) /\ T \in Seq(Nat) /\ Len(T) = Len(F) /\ Increasing(T) /\ c \in Configs

LEMMA ConfigTypes ==
  ASSUME NEW c \in Configs
  PROVE  /\ c.left \in Nat \ {0} /\ c.right \in Nat \ {0} /\ c.equalTol \in Nat
         /\ c.distance \in Nat \ {0} /\ c.sweepTol \in Nat /\ c.approachTol \in Int
         /\ c.zone \in ZoneType /\ c.boundary \in 0 .. DayLength - 1
         /\ Resolvable(DayDefinition(c))
<1>1. c \in ConfigType /\ ShortChange(c.zone)
  BY ConfigsAssumption
<1>2. /\ c.left \in Nat \ {0} /\ c.right \in Nat \ {0} /\ c.equalTol \in Nat
      /\ c.distance \in Nat \ {0} /\ c.sweepTol \in Nat
      /\ c.zone \in ZoneType /\ c.boundary \in 0 .. DayLength - 1
      /\ c.approachTol \in Nat \cup {NoTracking}
  BY <1>1 DEF ConfigType
<1>3. c.approachTol \in Int
  BY <1>2 DEF NoTracking
<1>4. Resolvable(DayDefinition(c))
  BY <1>1, <1>2 DEF DayDefinition, Resolvable
<1> QED
  BY <1>2, <1>3, <1>4

LEMMA CloseTypes ==
  ASSUME NEW T \in Seq(Nat), NEW i \in 1 .. Len(T)
  PROVE  T[i] \in Nat /\ CloseTime(T, i) \in Int /\ CloseTime(T, i) = T[i] + Duration
BY TimeAssumption DEF CloseTime

\* Every window that resolves is one occurrence of a definition.
LEMMA WindowsResolved ==
  ASSUME NEW D, NEW from, NEW to, NEW w \in ResolveWindows(D, from, to)
  PROVE  \E d \in D : \E day \in Int : w = ResolveWindow(d, day)
<1>1. PICK d \in D : w \in {v \in {ResolveWindow(d, day) :
                   day \in LocalDate(d.zone, from) - 1 .. LocalDate(d.zone, to) + 1} :
            v.end > from /\ v.start < to}
  BY DEF ResolveWindows
<1>2. PICK day \in LocalDate(d.zone, from) - 1 .. LocalDate(d.zone, to) + 1 :
        w = ResolveWindow(d, day)
  BY <1>1
<1>3. day \in Int
  BY <1>2
<1> QED
  BY <1>2, <1>3

\* A traded day is a day of the trading week.
LEMMA TradedDayTypes ==
  ASSUME NEW T, NEW c, NEW w \in TradedDays(T, c)
  PROVE  /\ w.day \in Int /\ w = ResolveWindow(DayDefinition(c), w.day)
         /\ WeekAnchor(w.day) \in Int
<1>1. w \in ResolveWindows({DayDefinition(c)}, T[1], ObservedEnd(T))
  BY DEF TradedDays, WindowsFor
<1>2. PICK day \in Int : w = ResolveWindow(DayDefinition(c), day)
  BY <1>1, WindowsResolved
<1>3. w.day = day
  BY <1>2 DEF ResolveWindow
<1> QED
  BY <1>2, <1>3, CalendarAssumption DEF WeekAnchor

\* What is in the sets of levels.
IsSwingLevel(F, T, c, l) ==
  \E d \in Directions, i \in DOMAIN F :
    /\ c.swingLevels /\ IsPivot(F, c, d, i)
    /\ l = [kind |-> "swing", side |-> d, from |-> i, to |-> i, created |-> i,
            price |-> Extreme(F[i], d), confirmed |-> CloseTime(T, ConfirmIndex(c, i))]

IsEqualLevel(F, T, c, l) ==
  \E d \in Directions, i \in DOMAIN F, j \in DOMAIN F :
    IsEqualPair(F, c, d, i, j) /\ l = EqualLevel(F, T, c, d, i, j)

IsWindowLevel(F, T, kind, D, l) ==
  \E d \in Directions, w \in Occurred(D, T) :
    l = PeriodLevel(F, T, kind, w.name, w, Members(T, w), d)

IsWeekLevel(F, T, c, l) ==
  \E d \in Directions, v \in TradedDays(T, c) :
    LET w == WeekOf(T, c, WeekAnchor(v.day))
    IN  /\ Complete(T, w)
        /\ l = PeriodLevel(F, T, "week", "week", w, UNION {Members(T, day) : day \in w.days}, d)

LEMMA LevelsAre ==
  ASSUME NEW F, NEW T, NEW c, NEW l
  PROVE  /\ l \in SwingLevels(F, T, c) <=> IsSwingLevel(F, T, c, l)
         /\ l \in EqualLevels(F, T, c) <=> IsEqualLevel(F, T, c, l)
         /\ \A kind, D : l \in WindowLevels(F, T, kind, D) <=> IsWindowLevel(F, T, kind, D, l)
         /\ l \in WeekLevels(F, T, c) <=> IsWeekLevel(F, T, c, l)
<1>1. l \in SwingLevels(F, T, c) <=> IsSwingLevel(F, T, c, l)
  <2>1. \A x \in Directions \X (DOMAIN F) : x[1] \in Directions /\ x[2] \in DOMAIN F
    OBVIOUS
  <2>2. \A d \in Directions, i \in DOMAIN F :
          <<d, i>> \in Directions \X (DOMAIN F) /\ <<d, i>>[1] = d /\ <<d, i>>[2] = i
    OBVIOUS
  <2>3. ASSUME l \in SwingLevels(F, T, c) PROVE IsSwingLevel(F, T, c, l)
    BY <2>1, <2>3, Zenon DEF SwingLevels, IsSwingLevel
  <2>4. ASSUME IsSwingLevel(F, T, c, l) PROVE l \in SwingLevels(F, T, c)
    <3>1. PICK d \in Directions, i \in DOMAIN F :
            /\ c.swingLevels /\ IsPivot(F, c, d, i)
            /\ l = [kind |-> "swing", side |-> d, from |-> i, to |-> i, created |-> i,
                    price |-> Extreme(F[i], d), confirmed |-> CloseTime(T, ConfirmIndex(c, i))]
      BY <2>4 DEF IsSwingLevel
    <3> DEFINE x == <<d, i>>
    <3>2. x \in Directions \X (DOMAIN F) /\ x[1] = d /\ x[2] = i
      BY <2>2
    <3> HIDE DEF x
    <3> QED
      BY <3>1, <3>2, Zenon DEF SwingLevels
  <2> QED
    BY <2>3, <2>4
<1>2. l \in EqualLevels(F, T, c) <=> IsEqualLevel(F, T, c, l)
  <2>1. \A x \in Directions \X (DOMAIN F) \X (DOMAIN F) :
          x[1] \in Directions /\ x[2] \in DOMAIN F /\ x[3] \in DOMAIN F
    OBVIOUS
  <2>2. \A d \in Directions, i \in DOMAIN F, j \in DOMAIN F :
          /\ <<d, i, j>> \in Directions \X (DOMAIN F) \X (DOMAIN F)
          /\ <<d, i, j>>[1] = d /\ <<d, i, j>>[2] = i /\ <<d, i, j>>[3] = j
    OBVIOUS
  <2>3. ASSUME l \in EqualLevels(F, T, c) PROVE IsEqualLevel(F, T, c, l)
    BY <2>1, <2>3, Zenon DEF EqualLevels, IsEqualLevel
  <2>4. ASSUME IsEqualLevel(F, T, c, l) PROVE l \in EqualLevels(F, T, c)
    <3>1. PICK d \in Directions, i \in DOMAIN F, j \in DOMAIN F :
            IsEqualPair(F, c, d, i, j) /\ l = EqualLevel(F, T, c, d, i, j)
      BY <2>4 DEF IsEqualLevel
    <3> DEFINE x == <<d, i, j>>
    <3>2. x \in Directions \X (DOMAIN F) \X (DOMAIN F) /\ x[1] = d /\ x[2] = i /\ x[3] = j
      BY <2>2
    <3> HIDE DEF x
    <3> QED
      BY <3>1, <3>2, Zenon DEF EqualLevels
  <2> QED
    BY <2>3, <2>4
<1>3. ASSUME NEW kind, NEW D
      PROVE  l \in WindowLevels(F, T, kind, D) <=> IsWindowLevel(F, T, kind, D, l)
  <2>1. ASSUME l \in WindowLevels(F, T, kind, D) PROVE IsWindowLevel(F, T, kind, D, l)
    BY <2>1, Zenon DEF WindowLevels, IsWindowLevel
  <2>2. ASSUME IsWindowLevel(F, T, kind, D, l) PROVE l \in WindowLevels(F, T, kind, D)
    <3>1. PICK d \in Directions, w \in Occurred(D, T) :
            l = PeriodLevel(F, T, kind, w.name, w, Members(T, w), d)
      BY <2>2 DEF IsWindowLevel
    <3> DEFINE here == {PeriodLevel(F, T, kind, w.name, w, Members(T, w), e) : e \in Directions}
    <3>2. l \in here
      BY <3>1
    <3>3. here \in {{PeriodLevel(F, T, kind, v.name, v, Members(T, v), e) : e \in Directions} :
                     v \in Occurred(D, T)}
      OBVIOUS
    <3> HIDE DEF here
    <3> QED
      BY <3>2, <3>3, Zenon DEF WindowLevels
  <2> QED
    BY <2>1, <2>2
<1>4. l \in WeekLevels(F, T, c) <=> IsWeekLevel(F, T, c, l)
  <2>1. ASSUME l \in WeekLevels(F, T, c) PROVE IsWeekLevel(F, T, c, l)
    BY <2>1, Zenon DEF WeekLevels, WeeksFor, IsWeekLevel
  <2>2. ASSUME IsWeekLevel(F, T, c, l) PROVE l \in WeekLevels(F, T, c)
    <3>1. PICK d \in Directions, v \in TradedDays(T, c) :
            LET w == WeekOf(T, c, WeekAnchor(v.day))
            IN  /\ Complete(T, w)
                /\ l = PeriodLevel(F, T, "week", "week", w,
                                   UNION {Members(T, day) : day \in w.days}, d)
      BY <2>2 DEF IsWeekLevel
    <3> DEFINE level(w, e) == PeriodLevel(F, T, "week", "week", w,
                                          UNION {Members(T, day) : day \in w.days}, e)
               week == WeekOf(T, c, WeekAnchor(v.day))
               here == {level(week, e) : e \in Directions}
    <3>2. l \in here
      BY <3>1
    <3>3. week \in {w \in WeeksFor(T, c) : Complete(T, w)}
      BY <3>1 DEF WeeksFor
    <3> HIDE DEF week
    <3>4. here \in {{level(w, e) : e \in Directions} : w \in {w \in WeeksFor(T, c) : Complete(T, w)}}
      BY <3>3, Zenon
    <3> HIDE DEF here
    <3> QED
      BY <3>2, <3>4, Zenon DEF WeekLevels
  <2> QED
    BY <2>1, <2>2
<1> QED
  BY <1>1, <1>2, <1>3, <1>4

LEMMA LevelTypes ==
  ASSUME NEW F, NEW T, NEW c, Given(F, T, c), NEW l \in LevelsOf(F, T, c)
  PROVE  l.confirmed \in Int /\ l.side \in Directions
<1>1. c.right \in Nat \ {0} /\ Resolvable(DayDefinition(c))
  BY ConfigTypes DEF Given
<1>2. ASSUME NEW d, NEW i \in DOMAIN F, IsPivot(F, c, d, i)
      PROVE  CloseTime(T, ConfirmIndex(c, i)) \in Int
  <2>1. i + c.right \in 1 .. Len(T)
    BY <1>1, <1>2 DEF IsPivot, Given
  <2> QED
    BY <2>1, CloseTypes DEF ConfirmIndex, Given
<1>3. CASE l \in SwingLevels(F, T, c)
  BY <1>2, <1>3, LevelsAre DEF IsSwingLevel
<1>4. CASE l \in EqualLevels(F, T, c)
  <2>1. PICK d \in Directions, i \in DOMAIN F, j \in DOMAIN F :
          IsEqualPair(F, c, d, i, j) /\ l = EqualLevel(F, T, c, d, i, j)
    <3>1. IsEqualLevel(F, T, c, l)
      BY <1>4, LevelsAre
    <3> QED
      BY <3>1 DEF IsEqualLevel
  <2>2. IsPivot(F, c, d, i) /\ IsPivot(F, c, d, j)
    BY <2>1 DEF IsEqualPair
  <2>3. CloseTime(T, ConfirmIndex(c, i)) \in Int /\ CloseTime(T, ConfirmIndex(c, j)) \in Int
    BY <1>2, <2>1, <2>2
  <2> QED
    BY <2>1, <2>3, TwoInts DEF EqualLevel
<1>5. ASSUME NEW kind, NEW D, \A d \in D : Resolvable(d), l \in WindowLevels(F, T, kind, D)
      PROVE  l.confirmed \in Int /\ l.side \in Directions
  <2>1. PICK d \in Directions, w \in Occurred(D, T) :
          l = PeriodLevel(F, T, kind, w.name, w, Members(T, w), d)
    <3>1. IsWindowLevel(F, T, kind, D, l)
      BY <1>5, LevelsAre
    <3> QED
      BY <3>1 DEF IsWindowLevel
  <2>2. w \in ResolveWindows(D, T[1], ObservedEnd(T))
    BY DEF Occurred, WindowsFor
  <2>3. w.end \in Int
    BY <1>5, <2>2, WindowsResolved, WindowTypes
  <2> QED
    BY <2>1, <2>3 DEF PeriodLevel
<1>6. CASE l \in WeekLevels(F, T, c)
  <2>1. PICK d \in Directions, v \in TradedDays(T, c) :
          LET w == WeekOf(T, c, WeekAnchor(v.day))
          IN  /\ Complete(T, w)
              /\ l = PeriodLevel(F, T, "week", "week", w, UNION {Members(T, day) : day \in w.days}, d)
    <3>1. IsWeekLevel(F, T, c, l)
      BY <1>6, LevelsAre
    <3> QED
      BY <3>1 DEF IsWeekLevel
  <2>2. WeekAnchor(v.day) + TradingDays - 1 \in Int
    BY TradedDayTypes, CalendarAssumption
  <2>3. WeekOf(T, c, WeekAnchor(v.day)).end \in Int
    BY <1>1, <2>2, WindowTypes DEF WeekOf, WeekEnd
  <2> QED
    BY <2>1, <2>3 DEF PeriodLevel
<1>7. \A d \in Definitions : Resolvable(d)
  BY CalendarAssumption DEF DefinitionType, Resolvable
<1> QED
  BY <1>1, <1>3, <1>4, <1>5, <1>6, <1>7 DEF LevelsOf

----------------------------------------------------------------------------
\* The inductive invariant of the walk

Types ==
  /\ Given(frame, opens, config)
  /\ levels = LevelsOf(frame, opens, config)
  /\ index \in 0 .. Len(frame)
  /\ status \in [levels -> {"pending", "active", "approached", "swept"}]
  /\ active \subseteq levels
  /\ approached \in [levels -> 0 .. index]
  /\ \A s \in sweeps : s.level \in levels /\ s.bar \in 1 .. index

\* Bar k could know level l and lies beyond it.
Takes(l, k) == Observable(l, k) /\ Exceeded(l, k)

TakenBy(l, j) == \E k \in 1 .. j : Takes(l, k)

\* Where every level stands after the bars processed so far.
Lifecycle ==
  \A l \in levels :
    /\ status[l] = IF ~ \E k \in 1 .. index : Observable(l, k) THEN "pending"
                   ELSE IF TakenBy(l, index) THEN "swept"
                   ELSE IF approached[l] # None THEN "approached" ELSE "active"
    /\ l \in active <=> (\E k \in 1 .. index : Observable(l, k)) /\ ~TakenBy(l, index)
    /\ approached[l] # None => Observable(l, approached[l])

\* A sweep is recorded by the first bar that takes its level.
SweepsFirst ==
  /\ \A s \in sweeps : Takes(s.level, s.bar) /\ ~TakenBy(s.level, s.bar - 1)
  /\ \A l \in levels : TakenBy(l, index) => \E s \in sweeps : s.level = l

LiquidityInv == Types /\ Lifecycle /\ SweepsFirst

\* What is known at the close of a bar is known at every later one.
LEMMA StaysObservable ==
  ASSUME Types, NEW l \in levels, NEW k \in 1 .. Len(frame), NEW j \in k .. Len(frame),
         Observable(l, k)
  PROVE  Observable(l, j)
<1>1. l.confirmed \in Int
  BY LevelTypes DEF Types
<1>2. /\ opens[k] \in Nat /\ opens[j] \in Nat
      /\ CloseTime(opens, k) = opens[k] + Duration /\ CloseTime(opens, j) = opens[j] + Duration
  BY CloseTypes DEF Types, Given
<1>3. Duration \in Nat \ {0}
  BY TimeAssumption
<1>4. opens[k] <= opens[j]
  <2>1. CASE k = j
    BY <1>2, <2>1
  <2>2. CASE k < j
    <3>1. opens[k] + Duration <= opens[j]
      BY <2>2 DEF Types, Given, Increasing
    <3> QED
      BY <1>2, <1>3, <3>1
  <2> QED
    BY <2>1, <2>2
<1> QED
  BY <1>1, <1>2, <1>3, <1>4 DEF Observable

LEMMA InitInv == Init => LiquidityInv
<1> SUFFICES ASSUME Init PROVE LiquidityInv
  OBVIOUS
<1>1. Given(frame, opens, config)
  BY FrameType DEF Init, Given
<1>2. index = 0 /\ sweeps = {} /\ active = {} /\ levels = LevelsOf(frame, opens, config)
  BY DEF Init
<1>3. /\ status = [l \in levels |-> "pending"] /\ approached = [l \in levels |-> None]
  BY DEF Init
<1>4. Len(frame) \in Nat /\ None \in 0 .. 0
  BY <1>1 DEF Given, None
<1>5. Types
  BY <1>1, <1>2, <1>3, <1>4 DEF Types
<1>6. \A k \in 1 .. 0 : FALSE
  OBVIOUS
<1>7. Lifecycle /\ SweepsFirst
  BY <1>2, <1>3, <1>6 DEF Lifecycle, SweepsFirst, TakenBy
<1> QED
  BY <1>5, <1>7 DEF LiquidityInv

\* The levels bar j tests are those it could know and no bar before it took.
LEMMA Tested ==
  ASSUME LiquidityInv, NEW j \in 1 .. Len(frame), j = index + 1, NEW l \in levels
  PROVE  l \in active \cup Admitted(j) <=> Observable(l, j) /\ ~TakenBy(l, index)
<1>1. /\ index \in Nat /\ j \in Nat /\ Len(frame) \in Nat /\ \A k \in 1 .. index : k \in 1 .. Len(frame) /\ j \in k .. Len(frame)
  BY DEF LiquidityInv, Types, Given
<1>2. (\E k \in 1 .. index : Observable(l, k)) => Observable(l, j)
  BY <1>1, StaysObservable DEF LiquidityInv
<1>3. TakenBy(l, index) => \E k \in 1 .. index : Observable(l, k)
  BY DEF TakenBy, Takes
<1>4. status[l] = "pending" <=> ~ \E k \in 1 .. index : Observable(l, k)
  BY DEF LiquidityInv, Lifecycle
<1> QED
  BY <1>2, <1>3, <1>4 DEF LiquidityInv, Lifecycle, Admitted

LEMMA StepInv == LiquidityInv /\ [Next]_vars => LiquidityInv'
<1> SUFFICES ASSUME LiquidityInv, [Next]_vars PROVE LiquidityInv'
  OBVIOUS
<1>1. CASE UNCHANGED vars
  BY <1>1 DEF vars, LiquidityInv, Types, Given, Lifecycle, SweepsFirst, TakenBy, Takes,
              Observable, Exceeded
<1>2. CASE Next
  <2>1. PICK j \in DOMAIN frame :
          /\ j = index + 1 /\ index' = j
          /\ status' = [l \in levels |-> StatusAfter(l, j)]
          /\ active' = StillActive(j)
          /\ approached' = [l \in levels |->
               IF l \in StillActive(j) /\ Near(l, j) /\ approached[l] = None
               THEN j ELSE approached[l]]
          /\ sweeps' = sweeps \cup
               {MakeSweep(l, j) : l \in {l \in active \cup Admitted(j) : Exceeded(l, j)}}
          /\ UNCHANGED <<frame, opens, config, levels>>
    BY <1>2 DEF Next, WalkBar
  <2>2. /\ j \in 1 .. Len(frame) /\ index \in Nat /\ j \in Nat \ {0} /\ Len(frame) \in Nat
        /\ 1 .. j = (1 .. index) \cup {j} /\ 0 .. index \subseteq 0 .. j
        /\ j - 1 = index
    BY <2>1 DEF LiquidityInv, Types, Given
  <2>3. \A l, k : (Takes(l, k)' <=> Takes(l, k)) /\ (Observable(l, k)' <=> Observable(l, k))
    BY <2>1 DEF Takes, Observable, Exceeded
  <2>4. \A l : TakenBy(l, index)' <=> TakenBy(l, index) \/ Takes(l, j)
    BY <2>1, <2>2, <2>3 DEF TakenBy
  <2>5. \A l \in levels : (\E k \in 1 .. j : Observable(l, k)) <=> Observable(l, j)
    BY <2>1, <2>2, StaysObservable DEF LiquidityInv
  <2>6. \A l \in levels : l \in active \cup Admitted(j) <=> Observable(l, j) /\ ~TakenBy(l, index)
    BY <2>1, <2>2, Tested
  <2>7. \A l \in active \cup Admitted(j) : l \in levels
    BY DEF LiquidityInv, Types, Admitted
  <2>8. \A l \in levels : l \in StillActive(j) <=> Observable(l, j) /\ ~TakenBy(l, index)'
    BY <2>4, <2>6 DEF StillActive, Takes
  <2>9. Types'
    <3>1. Given(frame, opens, config)'
      BY <2>1 DEF LiquidityInv, Types, Given
    <3>2. status' \in [levels -> {"pending", "active", "approached", "swept"}]
      BY <2>1 DEF StatusAfter, LiquidityInv, Types
    <3>3. active' \subseteq levels
      BY <2>1, <2>7 DEF StillActive
    <3>4. approached' \in [levels -> 0 .. j]
      BY <2>1, <2>2 DEF LiquidityInv, Types
    <3>5. \A s \in sweeps' : s.level \in levels /\ s.bar \in 1 .. j
      BY <2>1, <2>2, <2>7 DEF MakeSweep, LiquidityInv, Types
    <3> QED
      BY <2>1, <2>2, <3>1, <3>2, <3>3, <3>4, <3>5 DEF LiquidityInv, Types
  <2>10. Lifecycle'
    <3> SUFFICES ASSUME NEW l \in levels
                 PROVE  /\ status'[l] = IF ~Observable(l, j) THEN "pending"
                                        ELSE IF TakenBy(l, index)' THEN "swept"
                                        ELSE IF approached'[l] # None THEN "approached" ELSE "active"
                        /\ l \in active' <=> Observable(l, j) /\ ~TakenBy(l, index)'
                        /\ approached'[l] # None => Observable(l, approached'[l])
      BY <2>1, <2>3, <2>5 DEF Lifecycle, Observable
    <3>1. l \in active' <=> Observable(l, j) /\ ~TakenBy(l, index)'
      BY <2>1, <2>8
    <3>2. status[l] = IF ~ \E k \in 1 .. index : Observable(l, k) THEN "pending"
                      ELSE IF TakenBy(l, index) THEN "swept"
                      ELSE IF approached[l] # None THEN "approached" ELSE "active"
      BY DEF LiquidityInv, Lifecycle
    <3>3. (\E k \in 1 .. index : Observable(l, k)) => Observable(l, j)
      BY <2>2, <2>5
    <3>4. TakenBy(l, index) => \E k \in 1 .. index : Observable(l, k)
      BY DEF TakenBy, Takes
    <3>5. status'[l] = StatusAfter(l, j)
      BY <2>1
    <3>6. approached'[l] = IF l \in active' /\ Near(l, j) /\ approached[l] = None
                           THEN j ELSE approached[l]
      BY <2>1
    <3>7. approached'[l] # None => Observable(l, approached'[l])
      BY <3>1, <3>6 DEF LiquidityInv, Lifecycle
    <3>8. status'[l] = IF ~Observable(l, j) THEN "pending"
                        ELSE IF TakenBy(l, index)' THEN "swept"
                        ELSE IF approached'[l] # None THEN "approached" ELSE "active"
      <4>1. CASE ~Observable(l, j)
        BY <2>6, <3>1, <3>2, <3>3, <3>5, <4>1 DEF StatusAfter
      <4>2. CASE Observable(l, j) /\ TakenBy(l, index)
        BY <2>4, <2>6, <3>1, <3>2, <3>4, <3>5, <4>2 DEF StatusAfter
      <4>3. CASE Observable(l, j) /\ ~TakenBy(l, index)
        <5>1. l \in active \cup Admitted(j)
          BY <2>6, <4>3
        <5>2. CASE Exceeded(l, j)
          BY <2>4, <3>1, <3>5, <4>3, <5>1, <5>2 DEF StatusAfter, Takes
        <5>3. CASE ~Exceeded(l, j)
          <6>1. ~TakenBy(l, index)' /\ l \in active'
            BY <2>4, <3>1, <4>3, <5>3 DEF Takes
          <6>2. CASE Near(l, j)
            <7>1. approached'[l] # None
              BY <2>2, <3>6, <6>1, <6>2 DEF None
            <7> QED
              BY <3>1, <3>5, <4>3, <5>1, <5>3, <6>1, <6>2, <7>1 DEF StatusAfter
          <6>3. CASE ~Near(l, j)
            <7>1. approached'[l] = approached[l]
              BY <3>6, <6>3
            <7>2. l \in Admitted(j) <=> ~ \E k \in 1 .. index : Observable(l, k)
              BY <3>2, <4>3 DEF Admitted
            <7>3. ~(\E k \in 1 .. index : Observable(l, k)) => approached[l] = None
              <8>1. approached[l] \in 0 .. index
                BY DEF LiquidityInv, Types
              <8>2. approached[l] # None => approached[l] \in 1 .. index /\ Observable(l, approached[l])
                BY <2>2, <8>1 DEF LiquidityInv, Lifecycle, None
              <8> QED
                BY <8>2
            <7> QED
              BY <3>1, <3>2, <3>5, <4>3, <5>1, <5>3, <6>1, <6>3, <7>1, <7>2, <7>3 DEF StatusAfter
          <6> QED
            BY <6>2, <6>3
        <5> QED
          BY <5>2, <5>3
      <4> QED
        BY <4>1, <4>2, <4>3
    <3> QED
      BY <3>1, <3>7, <3>8
  <2>11. SweepsFirst'
    <3>1. ASSUME NEW s \in sweeps'
          PROVE  Takes(s.level, s.bar) /\ ~TakenBy(s.level, s.bar - 1)
      <4>1. CASE s \in sweeps
        BY <4>1 DEF LiquidityInv, SweepsFirst
      <4>2. CASE s \notin sweeps
        <5>1. PICK l \in active \cup Admitted(j) : Exceeded(l, j) /\ s.level = l /\ s.bar = j
          BY <2>1, <4>2 DEF MakeSweep
        <5> QED
          BY <2>2, <2>6, <2>7, <5>1 DEF Takes
      <4> QED
        BY <4>1, <4>2
    <3>2. ASSUME NEW l \in levels, TakenBy(l, index)'
          PROVE  \E s \in sweeps' : s.level = l
      <4>1. CASE TakenBy(l, index)
        BY <2>1, <4>1 DEF LiquidityInv, SweepsFirst
      <4>2. CASE ~TakenBy(l, index)
        <5>1. Takes(l, j)
          BY <2>4, <3>2, <4>2
        <5>2. MakeSweep(l, j) \in sweeps' /\ MakeSweep(l, j).level = l
          BY <2>1, <2>6, <4>2, <5>1 DEF Takes, MakeSweep
        <5> QED
          BY <5>2
      <4> QED
        BY <4>1, <4>2
    <3>3. \A s \in sweeps' : /\ Takes(s.level, s.bar)' <=> Takes(s.level, s.bar)
                             /\ TakenBy(s.level, s.bar - 1)' <=> TakenBy(s.level, s.bar - 1)
      BY <2>3 DEF TakenBy
    <3> QED
      BY <2>1, <3>1, <3>2, <3>3 DEF SweepsFirst
  <2> QED
    BY <2>9, <2>10, <2>11 DEF LiquidityInv
<1> QED
  BY <1>1, <1>2

LEMMA InvHolds == Spec => []LiquidityInv
<1> QED
  BY InitInv, StepInv, PTL DEF Spec

----------------------------------------------------------------------------
\* Stacked levels

LEMMA PriceTypes ==
  ASSUME NEW F \in Seq(Bars), NEW i \in DOMAIN F, NEW d \in Directions
  PROVE  Extreme(F[i], d) \in Int
<1>1. F[i] \in Bars
  OBVIOUS
<1> QED
  BY <1>1, BarsAssumption DEF WellFormed, Extreme

\* No bar of a period lies beyond the furthest.
LEMMA FurthestIs ==
  ASSUME NEW F \in Seq(Bars), NEW S \in SUBSET (DOMAIN F), S # {}, NEW d \in Directions
  PROVE  /\ Furthest(F, d, S) \in S
         /\ \A k \in S : ~Beyond(d, Extreme(F[k], d), Extreme(F[Furthest(F, d, S)], d))
<1> DEFINE V == [i \in 1 .. Len(F) |-> IF d = "bullish" THEN Extreme(F[i], d) ELSE 0 - Extreme(F[i], d)]
           best == {i \in S : \A k \in S : ~Beyond(d, Extreme(F[k], d), Extreme(F[i], d))}
<1>1. \A i \in 1 .. Len(F) : Extreme(F[i], d) \in Int
  BY PriceTypes
<1>2. V \in [1 .. Len(F) -> Int] /\ S \in SUBSET (1 .. Len(F)) /\ Len(F) \in Nat
  BY <1>1
<1>3. \A i, k \in S : V[k] <= V[i] => ~Beyond(d, Extreme(F[k], d), Extreme(F[i], d))
  BY <1>1, <1>2 DEF Beyond
<1> HIDE DEF V
<1>4. PICK x \in S : \A k \in S : V[k] <= V[x]
  BY <1>2, Peak
<1>5. x \in best /\ best \subseteq S
  BY <1>3, <1>4
<1>6. best \in SUBSET Nat /\ best # {}
  BY <1>2, <1>5
<1> HIDE DEF best
<1>7. PICK y \in best : \A k \in best : y <= k
  BY <1>6, HasLeast
<1>8. Min(best) = y
  <2>1. best \in SUBSET Int
    BY <1>6
  <2> QED
    BY <1>7, <2>1, LeastIs
<1>9. Furthest(F, d, S) = y
  BY <1>8 DEF Furthest, best
<1> QED
  BY <1>7, <1>9 DEF best

LEMMA Multiples ==
  ASSUME NEW p \in Int, NEW q \in Int, p < q, NEW n \in Nat
  PROVE  p * n + n <= q * n
<1> DEFINE r == q - p - 1
<1>1. r \in Nat /\ q = p + 1 + r
  OBVIOUS
<1> HIDE DEF r
<1>2. q * n = p * n + n + r * n
  BY <1>1
<1>3. r * n \in Nat /\ p * n \in Int
  BY <1>1
<1> QED
  BY <1>2, <1>3

\* The days of a zone begin and end one after the other.
LEMMA DaysInOrder ==
  ASSUME NEW d, Resolvable(d), NEW p \in Int, NEW q \in Int, p < q
  PROVE  /\ ResolveWindow(d, p).start < ResolveWindow(d, q).start
         /\ ResolveWindow(d, p).end < ResolveWindow(d, q).end
<1> DEFINE z == d.zone
<1>1. /\ z.before \in Int /\ z.after \in Int /\ z.before - z.after < DayLength
      /\ z.after - z.before < DayLength /\ DayLength \in Nat
      /\ d.start \in Int /\ d.end \in Int /\ z \in ZoneType
  BY TimeAssumption DEF Resolvable, ZoneType, ShortChange
<1>2. \A x \in Int : ToUtc(z, x) \in {x - z.before, x - z.after}
  BY <1>1, ToUtcIs
<1>3. ASSUME NEW x \in Int, NEW y \in Int, x + DayLength <= y
      PROVE  ToUtc(z, x) < ToUtc(z, y)
  <2>1. ToUtc(z, x) \in {x - z.before, x - z.after} /\ ToUtc(z, y) \in {y - z.before, y - z.after}
    BY <1>2
  <2> QED
    BY <1>1, <1>3, <2>1
<1>4. /\ p * DayLength \in Int /\ q * DayLength \in Int
      /\ p * DayLength + DayLength <= q * DayLength
      /\ (p + 1) * DayLength \in Int /\ (q + 1) * DayLength \in Int
      /\ (p + 1) * DayLength + DayLength <= (q + 1) * DayLength
  <2>1. p + 1 \in Int /\ q + 1 \in Int /\ p + 1 < q + 1
    OBVIOUS
  <2> QED
    BY <1>1, <2>1, Multiples
<1>5. ToUtc(z, p * DayLength + d.start) < ToUtc(z, q * DayLength + d.start)
  BY <1>1, <1>3, <1>4
<1>6. ToUtc(z, (IF d.end <= d.start THEN p + 1 ELSE p) * DayLength + d.end)
        < ToUtc(z, (IF d.end <= d.start THEN q + 1 ELSE q) * DayLength + d.end)
  BY <1>1, <1>3, <1>4
<1> QED
  BY <1>5, <1>6 DEF ResolveWindow

\* A day belongs to the week that begins with its anchor.
LEMMA DaysOfAWeek ==
  ASSUME NEW v \in Int, NEW w \in Int,
         WeekAnchor(v) <= w, w <= WeekAnchor(v) + TradingDays - 1
  PROVE  InTradingWeek(w) /\ WeekAnchor(w) = WeekAnchor(v)
<1>1. WeekLength \in Nat \ {0} /\ TradingDays \in 1 .. WeekLength
  BY CalendarAssumption
<1> DEFINE p == v \div WeekLength
           q == w \div WeekLength
<1>2. /\ p \in Int /\ v % WeekLength \in 0 .. WeekLength - 1 /\ v = WeekLength * p + (v % WeekLength)
      /\ q \in Int /\ w % WeekLength \in 0 .. WeekLength - 1 /\ w = WeekLength * q + (w % WeekLength)
  BY <1>1
<1>3. WeekAnchor(v) = p * WeekLength /\ WeekAnchor(w) = q * WeekLength
  BY <1>1, <1>2 DEF WeekAnchor
<1> HIDE DEF p, q
<1>4. p * WeekLength \in Int /\ q * WeekLength \in Int /\ WeekLength * q = q * WeekLength
  BY <1>1, <1>2
<1>5. ~(p < q)
  <2> SUFFICES ASSUME p < q PROVE FALSE
    OBVIOUS
  <2>1. p * WeekLength + WeekLength <= q * WeekLength
    BY <1>1, <1>2, Multiples
  <2> QED
    BY <1>1, <1>2, <1>3, <1>4, <2>1
<1>6. ~(q < p)
  <2> SUFFICES ASSUME q < p PROVE FALSE
    OBVIOUS
  <2>1. q * WeekLength + WeekLength <= p * WeekLength
    BY <1>1, <1>2, Multiples
  <2> QED
    BY <1>1, <1>2, <1>3, <1>4, <2>1
<1>7. p = q
  BY <1>2, <1>5, <1>6
<1>8. w % WeekLength < TradingDays
  BY <1>1, <1>2, <1>3, <1>4, <1>7
<1> QED
  BY <1>3, <1>7, <1>8 DEF InTradingWeek

\* A day within a week is one of its days.
LEMMA DayInWeek ==
  ASSUME NEW T, NEW c \in Configs, NEW u \in TradedDays(T, c), NEW week,
         week = WeekOf(T, c, WeekAnchor(u.day)),
         NEW w \in WindowsFor({DayDefinition(c)}, T), Members(T, w) # {},
         week.start <= w.start, w.end <= week.end
  PROVE  w \in week.days
<1> DEFINE D == DayDefinition(c)
<1>1. Resolvable(D)
  BY ConfigTypes
<1> DEFINE a == WeekAnchor(u.day)
<1>2. /\ week.days = {v \in TradedDays(T, c) : WeekAnchor(v.day) = a}
      /\ week.start = Min({v.start : v \in week.days}) /\ week.end = WeekEnd(c, a)
  BY DEF WeekOf, DaysOf
<1>3. a = WeekAnchor(u.day)
  OBVIOUS
<1>4. \A v \in TradedDays(T, c) :
        v.day \in Int /\ v = ResolveWindow(D, v.day) /\ WeekAnchor(v.day) \in Int
  BY TradedDayTypes
<1>5. a \in Int /\ TradingDays \in Nat /\ WeekLength \in Nat \ {0}
  BY <1>4, CalendarAssumption
<1> HIDE DEF a
<1>6. PICK day \in Int : w = ResolveWindow(D, day)
  <2>1. w \in ResolveWindows({D}, T[1], ObservedEnd(T))
    BY DEF WindowsFor
  <2> QED
    BY <2>1, WindowsResolved
<1>7. w.day = day
  BY <1>6 DEF ResolveWindow
<1> HIDE DEF D
<1>8. PICK f \in week.days : \A v \in week.days : f.day <= v.day
  <2> DEFINE S == {v.day - a : v \in week.days}
  <2>1. \A v \in week.days : v.day - a \in Nat
    <3> SUFFICES ASSUME NEW v \in week.days PROVE v.day - a \in Nat
      OBVIOUS
    <3>1. v.day \in Int /\ a = v.day - (v.day % WeekLength)
      BY <1>2, <1>4 DEF WeekAnchor
    <3>2. v.day % WeekLength \in Nat
      BY <1>5, <3>1
    <3> QED
      BY <3>1, <3>2
  <2>2. S \in SUBSET Nat
    BY <2>1
  <2>3. u.day - a \in S
    BY <1>2, <1>3
  <2> HIDE DEF S
  <2>4. PICK x \in S : \A y \in S : x <= y
    BY <2>2, <2>3, HasLeast
  <2>5. PICK f \in week.days : x = f.day - a
    BY <2>4 DEF S
  <2>6. \A v \in week.days : f.day - a <= v.day - a
    BY <2>4, <2>5 DEF S
  <2>7. \A v \in week.days : v.day \in Int
    BY <1>2, <1>4
  <2> QED
    BY <1>5, <2>5, <2>6, <2>7
<1>9. f.day \in Int /\ f = ResolveWindow(D, f.day) /\ WeekAnchor(f.day) = a
  BY <1>2, <1>4, <1>8
<1>10. week.start = f.start
  <2> DEFINE S == {v.start : v \in week.days}
  <2>1. \A v \in week.days : v.start \in Int /\ f.start <= v.start
    <3> SUFFICES ASSUME NEW v \in week.days PROVE v.start \in Int /\ f.start <= v.start
      OBVIOUS
    <3>1. v.day \in Int /\ v = ResolveWindow(D, v.day) /\ f.day <= v.day
      BY <1>2, <1>4, <1>8
    <3>2. v.start \in Int /\ f.start \in Int
      BY <1>1, <1>9, <3>1, WindowTypes
    <3>3. CASE f.day < v.day
      BY <1>1, <1>9, <3>1, <3>2, <3>3, DaysInOrder
    <3>4. CASE f.day = v.day
      BY <1>9, <3>1, <3>2, <3>4
    <3> QED
      BY <1>9, <3>1, <3>3, <3>4
  <2>2. S \in SUBSET Int /\ f.start \in S /\ \A y \in S : f.start <= y
    BY <1>8, <2>1
  <2> HIDE DEF S
  <2>3. Min(S) = f.start
    BY <2>2, LeastIs
  <2> QED
    BY <1>2, <2>3 DEF S
<1>11. a <= f.day
  <2>1. a = f.day - (f.day % WeekLength) /\ f.day % WeekLength \in Nat
    BY <1>5, <1>9 DEF WeekAnchor
  <2> QED
    BY <1>9, <2>1
<1>12. f.day <= day
  <2> SUFFICES ASSUME day < f.day PROVE FALSE
    BY <1>9
  <2>1. w.start < f.start
    BY <1>1, <1>6, <1>9, DaysInOrder
  <2>2. w.start \in Int /\ f.start \in Int
    BY <1>1, <1>6, <1>9, WindowTypes
  <2> QED
    BY <1>10, <2>1, <2>2
<1>13. day <= a + TradingDays - 1
  <2> DEFINE last == a + TradingDays - 1
  <2>1. last \in Int
    BY <1>5
  <2> SUFFICES ASSUME last < day PROVE FALSE
    BY <2>1
  <2>2. ResolveWindow(D, last).end < w.end /\ week.end = ResolveWindow(D, last).end
    BY <1>1, <1>2, <1>6, <2>1, DaysInOrder DEF WeekEnd, D
  <2>3. w.end \in Int /\ week.end \in Int
    BY <1>1, <1>6, <2>1, <2>2, WindowTypes
  <2> QED
    BY <2>2, <2>3
<1>14. InTradingWeek(day) /\ WeekAnchor(day) = a
  <2>1. u.day \in Int
    BY <1>3, <1>4
  <2>2. a <= day
    BY <1>5, <1>9, <1>11, <1>12
  <2> QED
    BY <1>3, <1>13, <2>1, <2>2, DaysOfAWeek
<1> QED
  BY <1>2, <1>7, <1>14 DEF TradedDays, D

----------------------------------------------------------------------------
\* For every frame, with or without missing bars, and every configuration: a
\* level is swept by the first bar that could know it and lies beyond it, once,
\* and until then it is active.
THEOREM SweptByFirstExceedanceHolds == Spec => []SweptByFirstExceedance
<1>1. LiquidityInv => SweptByFirstExceedance
  <2> SUFFICES ASSUME LiquidityInv, NEW l \in levels
               PROVE  LET hits == {k \in 1 .. index : Observable(l, k) /\ Exceeded(l, k)}
                      IN  IF hits = {}
                          THEN /\ l \notin SweptBy(index)
                               /\ l \in active <=> status[l] \in {"active", "approached"}
                          ELSE /\ {s.bar : s \in {s \in sweeps : s.level = l}} = {Min(hits)}
                               /\ l \notin active
    BY DEF SweptByFirstExceedance
  <2> DEFINE hits == {k \in 1 .. index : Observable(l, k) /\ Exceeded(l, k)}
  <2>1. \A k : k \in hits <=> k \in 1 .. index /\ Takes(l, k)
    BY DEF Takes
  <2>2. hits # {} <=> TakenBy(l, index)
    BY <2>1 DEF TakenBy
  <2>3. ASSUME NEW s \in sweeps, s.level = l
        PROVE  s.bar \in hits /\ \A k \in hits : s.bar <= k
    <3>1. s.bar \in 1 .. index /\ Takes(l, s.bar) /\ ~TakenBy(l, s.bar - 1)
      BY <2>3 DEF LiquidityInv, Types, SweepsFirst
    <3>2. ASSUME NEW k \in hits, k < s.bar PROVE FALSE
      <4>1. k \in 1 .. s.bar - 1 /\ Takes(l, k)
        BY <2>1, <3>1, <3>2
      <4> QED
        BY <3>1, <4>1 DEF TakenBy
    <3> QED
      BY <2>1, <3>1, <3>2
  <2>4. \A s \in sweeps : s.level = l => s.bar = Min(hits)
    <3>1. hits \in SUBSET Int
      OBVIOUS
    <3> HIDE DEF hits
    <3> QED
      BY <2>3, <3>1, LeastIs
  <2>5. CASE hits = {}
    <3>1. l \notin SweptBy(index)
      BY <2>3, <2>5 DEF SweptBy
    <3>2. l \in active <=> status[l] \in {"active", "approached"}
      BY <2>2, <2>5 DEF LiquidityInv, Lifecycle
    <3> QED
      BY <2>5, <3>1, <3>2
  <2>6. CASE hits # {}
    <3>1. PICK s \in sweeps : s.level = l
      BY <2>2, <2>6 DEF LiquidityInv, SweepsFirst
    <3>2. {x.bar : x \in {x \in sweeps : x.level = l}} = {Min(hits)}
      <4> HIDE DEF hits
      <4> QED
        BY <2>4, <3>1
    <3>3. l \notin active
      BY <2>2, <2>6 DEF LiquidityInv, Lifecycle
    <3> QED
      BY <2>6, <3>2, <3>3
  <2> QED
    BY <2>5, <2>6
<1> QED
  BY <1>1, InvHolds, PTL

\* The status observable_at recovers from the dated records of a finished
\* analysis is the one the walk had left at that bar.
THEOREM StatusRecoverableHolds == Spec => []StatusRecoverable
<1>1. LiquidityInv => StatusRecoverable
  <2> SUFFICES ASSUME LiquidityInv, NEW l \in levels, index > 0, Observable(l, index)
               PROVE  status[l] = ObservableStatus(l, index)
    BY DEF StatusRecoverable
  <2>1. index \in Nat /\ index \in 1 .. index
    BY DEF LiquidityInv, Types, Given
  <2>2. l \in SweptBy(index) <=> TakenBy(l, index)
    <3>1. \A s \in sweeps : s.bar \in 1 .. index /\ s.bar <= index /\ Takes(s.level, s.bar)
      BY <2>1 DEF LiquidityInv, Types, SweepsFirst
    <3>2. l \in SweptBy(index) <=> \E s \in sweeps : s.level = l
      BY <3>1 DEF SweptBy
    <3> QED
      BY <3>1, <3>2 DEF LiquidityInv, SweepsFirst, TakenBy
  <2>3. approached[l] # None <=> approached[l] \in 1 .. index
    BY <2>1 DEF LiquidityInv, Types, None
  <2> QED
    BY <2>1, <2>2, <2>3 DEF LiquidityInv, Lifecycle, ObservableStatus
<1> QED
  BY <1>1, InvHolds, PTL

\* What a level of each kind is.
LEMMA Kinds ==
  ASSUME NEW F, NEW T, NEW c, NEW l \in LevelsOf(F, T, c)
  PROVE  /\ l.kind = "swing" => IsSwingLevel(F, T, c, l)
         /\ l.kind = "equal" => IsEqualLevel(F, T, c, l)
         /\ l.kind = "day" => IsWindowLevel(F, T, "day", {DayDefinition(c)}, l)
         /\ l.kind = "week" => IsWeekLevel(F, T, c, l)
<1>1. \/ IsSwingLevel(F, T, c, l) \/ IsEqualLevel(F, T, c, l) \/ IsWeekLevel(F, T, c, l)
      \/ IsWindowLevel(F, T, "session", Definitions, l)
      \/ IsWindowLevel(F, T, "day", {DayDefinition(c)}, l)
  BY LevelsAre DEF LevelsOf
<1>2. IsSwingLevel(F, T, c, l) => l.kind = "swing"
  BY DEF IsSwingLevel
<1>3. IsEqualLevel(F, T, c, l) => l.kind = "equal"
  BY DEF IsEqualLevel, EqualLevel
<1>4. \A kind, D : IsWindowLevel(F, T, kind, D, l) => l.kind = kind
  BY DEF IsWindowLevel, PeriodLevel
<1>5. IsWeekLevel(F, T, c, l) => l.kind = "week"
  BY DEF IsWeekLevel, PeriodLevel
<1> QED
  BY <1>1, <1>2, <1>3, <1>4, <1>5

\* Level l stands before level s.
Nested(l, s) ==
  /\ l.side = s.side
  /\ \/ s.kind = "equal" /\ l.kind = "swing" /\ l.from \in {s.from, s.to}
     \/ s.kind = "week" /\ l.kind = "day" /\ s.from <= l.from /\ l.to <= s.to

\* It is known as early, and at no better price.
LEMMA NestedBelow ==
  ASSUME NEW F, NEW T, NEW c, Given(F, T, c), NEW l \in LevelsOf(F, T, c),
         NEW s \in LevelsOf(F, T, c), Nested(l, s)
  PROVE  /\ l.confirmed <= s.confirmed /\ l.price \in Int /\ s.price \in Int
         /\ ~Beyond(s.side, l.price, s.price)
<1>1. l.confirmed \in Int /\ s.confirmed \in Int /\ s.side \in Directions /\ l.side = s.side
  BY LevelTypes DEF Nested
<1>2. F \in Seq(Bars) /\ DOMAIN F = 1 .. Len(F) /\ DOMAIN T = DOMAIN F /\ c \in Configs
  BY DEF Given
<1>3. CASE s.kind = "equal" /\ l.kind = "swing" /\ l.from \in {s.from, s.to}
  <2>1. PICK e \in Directions, h \in DOMAIN F :
          /\ IsPivot(F, c, e, h)
          /\ l = [kind |-> "swing", side |-> e, from |-> h, to |-> h, created |-> h,
                  price |-> Extreme(F[h], e), confirmed |-> CloseTime(T, ConfirmIndex(c, h))]
    <3>1. IsSwingLevel(F, T, c, l)
      BY <1>3, Kinds
    <3> QED
      BY <3>1 DEF IsSwingLevel
  <2>2. PICK d \in Directions, i \in DOMAIN F, j \in DOMAIN F :
          IsEqualPair(F, c, d, i, j) /\ s = EqualLevel(F, T, c, d, i, j)
    <3>1. IsEqualLevel(F, T, c, s)
      BY <1>3, Kinds
    <3> QED
      BY <3>1 DEF IsEqualLevel
  <2> DEFINE P == {i, j}
             at(k) == CloseTime(T, ConfirmIndex(c, k))
  <2>3. /\ s.side = d /\ s.from = i /\ s.to = j
        /\ s.price = Extreme(F[Furthest(F, d, P)], d)
        /\ s.confirmed = Max({at(i), at(j)})
    BY <2>2 DEF EqualLevel
  <2>4. IsPivot(F, c, d, i) /\ IsPivot(F, c, d, j) /\ e = d /\ h \in P
    BY <1>1, <1>3, <2>1, <2>2, <2>3 DEF IsEqualPair
  <2>5. \A k \in P : at(k) \in Int
    <3>1. c.right \in Nat \ {0}
      BY <1>2, ConfigTypes
    <3>2. ASSUME NEW k \in P PROVE ConfirmIndex(c, k) \in 1 .. Len(T)
      BY <1>2, <2>2, <2>4, <3>1, <3>2 DEF IsPivot, ConfirmIndex, Given
    <3> QED
      BY <3>2, CloseTypes DEF Given
  <2>6. at(h) <= s.confirmed
    BY <2>3, <2>4, <2>5, TwoInts
  <2>7. P \in SUBSET (DOMAIN F) /\ P # {} /\ d \in Directions
    BY <2>2
  <2> HIDE DEF P
  <2>8. /\ Furthest(F, d, P) \in P
        /\ \A k \in P : ~Beyond(d, Extreme(F[k], d), Extreme(F[Furthest(F, d, P)], d))
    BY <1>2, <2>7, FurthestIs
  <2>9. s.price \in Int /\ l.price \in Int
    BY <1>2, <2>1, <2>3, <2>4, <2>7, <2>8, PriceTypes
  <2> QED
    BY <1>1, <2>1, <2>3, <2>4, <2>6, <2>8, <2>9
<1>4. CASE s.kind = "week" /\ l.kind = "day" /\ s.from <= l.from /\ l.to <= s.to
  <2>1. PICK e \in Directions, w \in Occurred({DayDefinition(c)}, T) :
          l = PeriodLevel(F, T, "day", w.name, w, Members(T, w), e)
    <3>1. IsWindowLevel(F, T, "day", {DayDefinition(c)}, l)
      BY <1>4, Kinds
    <3> QED
      BY <3>1 DEF IsWindowLevel
  <2>2. PICK f \in Directions, u \in TradedDays(T, c) :
          LET week == WeekOf(T, c, WeekAnchor(u.day))
          IN  /\ Complete(T, week)
              /\ s = PeriodLevel(F, T, "week", "week", week,
                                 UNION {Members(T, v) : v \in week.days}, f)
    <3>1. IsWeekLevel(F, T, c, s)
      BY <1>4, Kinds
    <3> QED
      BY <3>1 DEF IsWeekLevel
  <2> DEFINE week == WeekOf(T, c, WeekAnchor(u.day))
             S == Members(T, w)
             W == UNION {Members(T, v) : v \in week.days}
             d == s.side
  <2>3. /\ l.from = w.start /\ l.to = w.end /\ l.confirmed = w.end
        /\ l.price = Extreme(F[Furthest(F, l.side, S)], l.side)
    BY <2>1 DEF PeriodLevel
  <2>4. /\ s.from = week.start /\ s.to = week.end /\ s.confirmed = week.end
        /\ s.price = Extreme(F[Furthest(F, d, W)], d)
    BY <2>2 DEF PeriodLevel
  <2>5. w \in WindowsFor({DayDefinition(c)}, T) /\ S # {}
    BY DEF Occurred
  <2>6. w \in week.days
    BY <1>2, <1>4, <2>3, <2>4, <2>5, DayInWeek
  <2>7. S \subseteq W /\ S \in SUBSET (DOMAIN F) /\ W \in SUBSET (DOMAIN F) /\ W # {}
    BY <1>2, <2>5, <2>6 DEF Members
  <2> HIDE DEF S, W, d
  <2>8. Furthest(F, d, S) \in S /\ Furthest(F, d, W) \in W
    BY <1>1, <1>2, <2>5, <2>7, FurthestIs DEF d
  <2>9. ~Beyond(d, Extreme(F[Furthest(F, d, S)], d), Extreme(F[Furthest(F, d, W)], d))
    BY <1>1, <1>2, <2>7, <2>8, FurthestIs DEF d
  <2>10. s.price \in Int /\ l.price \in Int
    BY <1>1, <1>2, <2>3, <2>4, <2>7, <2>8, PriceTypes DEF d
  <2> QED
    BY <1>1, <1>4, <2>3, <2>4, <2>9, <2>10 DEF d
<1> QED
  BY <1>3, <1>4 DEF Nested

\* A bar that takes a level has taken those that stand before it, by then: for
\* every frame, every zone and every week, a pair of equal highs falls after
\* both of its swings, a week after its days.
THEOREM NestedSweptHolds == Spec => []NestedSwept
<1>1. LiquidityInv => NestedSwept
  <2> SUFFICES ASSUME LiquidityInv, NEW s \in sweeps, NEW l \in levels, Nested(l, s.level)
               PROVE  l \in SweptBy(s.bar)
    BY DEF NestedSwept, Nested
  <2> DEFINE k == s.bar
  <2>1. /\ s.level \in levels /\ k \in 1 .. index /\ Takes(s.level, k)
        /\ index \in 0 .. Len(frame) /\ Len(frame) \in Nat
    BY DEF LiquidityInv, Types, Given, SweepsFirst
  <2>2. /\ l.confirmed <= s.level.confirmed /\ l.price \in Int /\ s.level.price \in Int
        /\ ~Beyond(s.level.side, l.price, s.level.price)
    BY <2>1, NestedBelow DEF LiquidityInv, Types
  <2>3. /\ l.confirmed \in Int /\ s.level.confirmed \in Int /\ l.side = s.level.side
        /\ l.side \in Directions
    BY <2>1, LevelTypes DEF LiquidityInv, Types, Nested
  <2>4. CloseTime(opens, k) \in Int
    BY <2>1, CloseTypes DEF LiquidityInv, Types, Given
  <2>5. Extreme(frame[k], l.side) \in Int /\ config.sweepTol \in Int
    <3>1. k \in DOMAIN frame /\ frame \in Seq(Bars) /\ config \in Configs
      BY <2>1 DEF LiquidityInv, Types, Given
    <3> QED
      BY <2>3, <3>1, PriceTypes, ConfigTypes
  <2>6. Observable(l, k)
    BY <2>1, <2>2, <2>3, <2>4 DEF Takes, Observable
  <2>7. Exceeded(l, k)
    BY <2>1, <2>2, <2>3, <2>5 DEF Takes, Exceeded, Distance, Beyond
  <2>8. TakenBy(l, index)
    BY <2>1, <2>6, <2>7 DEF TakenBy, Takes
  <2>9. PICK x \in sweeps : x.level = l
    BY <2>8 DEF LiquidityInv, SweepsFirst
  <2>10. x.bar \in 1 .. index /\ ~TakenBy(l, x.bar - 1)
    BY <2>9 DEF LiquidityInv, Types, SweepsFirst
  <2>11. x.bar <= k
    <3> SUFFICES ASSUME k < x.bar PROVE FALSE
      BY <2>1, <2>10
    <3>1. k \in 1 .. x.bar - 1
      BY <2>1, <2>10
    <3> QED
      BY <2>6, <2>7, <2>10, <3>1 DEF TakenBy, Takes
  <2> QED
    BY <2>9, <2>11 DEF SweptBy
<1> QED
  BY <1>1, InvHolds, PTL

----------------------------------------------------------------------------
\* What a frame says by the close of its bar n: G and U are its first n bars
\* and their times.

Begins(F, T, G, U, n) ==
  /\ F \in Seq(Bars) /\ T \in Seq(Nat) /\ Len(T) = Len(F) /\ n \in 1 .. Len(F)
  /\ G \in Seq(Bars) /\ U \in Seq(Nat) /\ Len(G) = n /\ Len(U) = n
  /\ \A i \in 1 .. n : G[i] = F[i] /\ U[i] = T[i] /\ CloseTime(U, i) = CloseTime(T, i)
  /\ \A i, j \in 1 .. Len(F) : CloseTime(T, i) <= CloseTime(T, j) <=> i <= j
  /\ \A i \in 1 .. Len(F) : T[i] \in Nat /\ CloseTime(T, i) \in Int /\ T[i] < CloseTime(T, i)

LEMMA KnownFrame ==
  ASSUME NEW F, NEW T, NEW c, Given(F, T, c), NEW n \in 1 .. Len(F)
  PROVE  Begins(F, T, SubSeq(F, 1, n), SubSeq(T, 1, n), n)
<1> DEFINE G == SubSeq(F, 1, n)
           U == SubSeq(T, 1, n)
<1>1. F \in Seq(Bars) /\ T \in Seq(Nat) /\ Len(T) = Len(F) /\ n \in 1 .. Len(T) /\ Duration \in Nat \ {0}
  BY TimeAssumption DEF Given
<1>2. G \in Seq(Bars) /\ Len(G) = n /\ \A i \in 1 .. n : G[i] = F[i]
  BY <1>1
<1>3. U \in Seq(Nat) /\ Len(U) = n /\ \A i \in 1 .. n : U[i] = T[i]
  BY <1>1
<1> HIDE DEF G, U
<1>4. \A i \in 1 .. n : CloseTime(U, i) = CloseTime(T, i)
  BY <1>3 DEF CloseTime
<1>5. \A i \in 1 .. Len(F) : /\ T[i] \in Nat /\ CloseTime(T, i) \in Int
                             /\ CloseTime(T, i) = T[i] + Duration /\ T[i] < CloseTime(T, i)
  BY <1>1, CloseTypes
<1>6. \A i, j \in 1 .. Len(F) : i < j => T[i] + Duration <= T[j]
  BY <1>1 DEF Given, Increasing
<1>7. ASSUME NEW i \in 1 .. Len(F), NEW j \in 1 .. Len(F)
      PROVE  CloseTime(T, i) <= CloseTime(T, j) <=> i <= j
  <2>1. CASE i < j
    <3>1. T[i] + Duration <= T[j]
      BY <1>6, <2>1
    <3> QED
      BY <1>1, <1>5, <2>1, <3>1
  <2>2. CASE i = j
    BY <1>5, <2>2
  <2>3. CASE j < i
    <3>1. T[j] + Duration <= T[i]
      BY <1>6, <2>3
    <3> QED
      BY <1>1, <1>5, <2>3, <3>1
  <2> QED
    BY <2>1, <2>2, <2>3
<1> QED
  BY <1>1, <1>2, <1>3, <1>4, <1>5, <1>7 DEF Begins, G, U

\* A pivot whose window has closed is a pivot of what is known.
LEMMA KnownPivot ==
  ASSUME NEW F, NEW T, NEW G, NEW U, NEW n, Begins(F, T, G, U, n), NEW c \in Configs, NEW d, NEW i \in Int
  PROVE  IsPivot(G, c, d, i) <=> IsPivot(F, c, d, i) /\ ConfirmIndex(c, i) <= n
<1>1. c.left \in Nat \ {0} /\ c.right \in Nat \ {0} /\ n \in Nat /\ Len(G) = n /\ n <= Len(F) /\ Len(F) \in Nat
  BY ConfigTypes DEF Begins
<1>2. ASSUME i - c.left >= 1, i + c.right <= n
      PROVE  /\ G[i] = F[i]
             /\ \A k \in WindowBefore(c, i) \cup WindowAfter(c, i) : G[k] = F[k]
  <2>1. \A k \in WindowBefore(c, i) \cup WindowAfter(c, i) : k \in 1 .. n
    BY <1>1, <1>2 DEF WindowBefore, WindowAfter
  <2>2. i \in 1 .. n
    BY <1>1, <1>2
  <2> QED
    BY <2>1, <2>2 DEF Begins
<1> QED
  BY <1>1, <1>2 DEF IsPivot, ConfirmIndex

LEMMA KnownSwings ==
  ASSUME NEW F, NEW T, NEW G, NEW U, NEW n, Begins(F, T, G, U, n), NEW c \in Configs, NEW l
  PROVE  IsSwingLevel(G, U, c, l) <=> IsSwingLevel(F, T, c, l) /\ l.confirmed <= CloseTime(T, n)
<1>1. /\ c.right \in Nat \ {0} /\ n \in 1 .. Len(F) /\ Len(F) \in Nat
      /\ DOMAIN F = 1 .. Len(F) /\ DOMAIN G = 1 .. n
  BY ConfigTypes DEF Begins
<1>2. ASSUME IsSwingLevel(G, U, c, l)
      PROVE  IsSwingLevel(F, T, c, l) /\ l.confirmed <= CloseTime(T, n)
  <2>1. PICK d \in Directions, i \in DOMAIN G :
          /\ c.swingLevels /\ IsPivot(G, c, d, i)
          /\ l = [kind |-> "swing", side |-> d, from |-> i, to |-> i, created |-> i,
                  price |-> Extreme(G[i], d), confirmed |-> CloseTime(U, ConfirmIndex(c, i))]
    BY <1>2 DEF IsSwingLevel
  <2>2. IsPivot(F, c, d, i) /\ ConfirmIndex(c, i) <= n /\ i \in DOMAIN F
    BY <1>1, <2>1, KnownPivot
  <2>3. ConfirmIndex(c, i) \in 1 .. n /\ G[i] = F[i]
    BY <1>1, <2>1, <2>2 DEF ConfirmIndex, Begins
  <2>4. /\ CloseTime(U, ConfirmIndex(c, i)) = CloseTime(T, ConfirmIndex(c, i))
        /\ CloseTime(T, ConfirmIndex(c, i)) <= CloseTime(T, n)
    BY <1>1, <2>3 DEF Begins
  <2> QED
    BY <2>1, <2>2, <2>3, <2>4 DEF IsSwingLevel
<1>3. ASSUME IsSwingLevel(F, T, c, l), l.confirmed <= CloseTime(T, n)
      PROVE  IsSwingLevel(G, U, c, l)
  <2>1. PICK d \in Directions, i \in DOMAIN F :
          /\ c.swingLevels /\ IsPivot(F, c, d, i)
          /\ l = [kind |-> "swing", side |-> d, from |-> i, to |-> i, created |-> i,
                  price |-> Extreme(F[i], d), confirmed |-> CloseTime(T, ConfirmIndex(c, i))]
    BY <1>3 DEF IsSwingLevel
  <2>2. ConfirmIndex(c, i) \in 1 .. Len(F)
    BY <1>1, <2>1 DEF ConfirmIndex, IsPivot
  <2>3. ConfirmIndex(c, i) <= n
    BY <1>1, <1>3, <2>1, <2>2 DEF Begins
  <2>4. i \in 1 .. n /\ ConfirmIndex(c, i) \in 1 .. n
    BY <1>1, <2>2, <2>3 DEF ConfirmIndex
  <2>5. /\ CloseTime(U, ConfirmIndex(c, i)) = CloseTime(T, ConfirmIndex(c, i))
        /\ G[i] = F[i]
    BY <2>4 DEF Begins
  <2>6. IsPivot(G, c, d, i)
    BY <2>1, <2>3, <2>4, KnownPivot
  <2> QED
    BY <1>1, <2>1, <2>4, <2>5, <2>6 DEF IsSwingLevel
<1> QED
  BY <1>2, <1>3

\* Known bars are as far as they are in the whole frame.
LEMMA KnownFurthest ==
  ASSUME NEW F, NEW T, NEW G, NEW U, NEW n, Begins(F, T, G, U, n), NEW d, NEW S \in SUBSET (1 .. n)
  PROVE  Furthest(G, d, S) = Furthest(F, d, S)
<1>1. \A i \in S : G[i] = F[i]
  BY DEF Begins
<1>2. {i \in S : \A k \in S : ~Beyond(d, Extreme(G[k], d), Extreme(G[i], d))}
        = {i \in S : \A k \in S : ~Beyond(d, Extreme(F[k], d), Extreme(F[i], d))}
  BY <1>1
<1> QED
  BY <1>2 DEF Furthest

LEMMA KnownEquals ==
  ASSUME NEW F, NEW T, NEW G, NEW U, NEW n, Begins(F, T, G, U, n), NEW c \in Configs, NEW l
  PROVE  IsEqualLevel(G, U, c, l) <=> IsEqualLevel(F, T, c, l) /\ l.confirmed <= CloseTime(T, n)
<1>1. /\ c.right \in Nat \ {0} /\ n \in 1 .. Len(F) /\ Len(F) \in Nat
      /\ DOMAIN F = 1 .. Len(F) /\ DOMAIN G = 1 .. n
  BY ConfigTypes DEF Begins
<1> DEFINE pivots(H, d) == {k \in DOMAIN H : IsPivot(H, c, d, k)}
<1>2. ASSUME NEW d \in Directions, NEW i \in 1 .. n, NEW j \in 1 .. n, i < j, ConfirmIndex(c, j) <= n
      PROVE  /\ IsEqualPair(G, c, d, i, j) <=> IsEqualPair(F, c, d, i, j)
             /\ IsPivot(F, c, d, i) /\ IsPivot(F, c, d, j) =>
                  /\ EqualLevel(G, U, c, d, i, j) = EqualLevel(F, T, c, d, i, j)
                  /\ EqualLevel(F, T, c, d, i, j).confirmed <= CloseTime(T, n)
  <2>1. \A k \in 1 .. n : k <= j => ConfirmIndex(c, k) <= n
    BY <1>1, <1>2 DEF ConfirmIndex
  <2>2. \A k \in 1 .. n : k <= j => (k \in pivots(G, d) <=> k \in pivots(F, d))
    BY <1>1, <2>1, KnownPivot
  <2>3. {k \in pivots(G, d) : i < k /\ k <= j} = {k \in pivots(F, d) : i < k /\ k <= j}
    BY <1>1, <2>2
  <2>4. ({i, j} \subseteq pivots(G, d)) <=> ({i, j} \subseteq pivots(F, d))
    BY <1>2, <2>2
  <2>5. G[i] = F[i] /\ G[j] = F[j]
    BY DEF Begins
  <2>6. IsEqualPair(G, c, d, i, j) <=> IsEqualPair(F, c, d, i, j)
    <3> HIDE DEF pivots
    <3>1. \A H : IsEqualPair(H, c, d, i, j) <=>
            LET gap == Extreme(H[j], d) - Extreme(H[i], d)
            IN  /\ {i, j} \subseteq pivots(H, d) /\ i < j
                /\ Cardinality({k \in pivots(H, d) : i < k /\ k <= j}) <= c.distance
                /\ gap <= c.equalTol /\ -gap <= c.equalTol
      BY Zenon DEF IsEqualPair, pivots
    <3> QED
      BY <2>3, <2>4, <2>5, <3>1
  <2>7. ASSUME IsPivot(F, c, d, i), IsPivot(F, c, d, j)
        PROVE  /\ EqualLevel(G, U, c, d, i, j) = EqualLevel(F, T, c, d, i, j)
               /\ EqualLevel(F, T, c, d, i, j).confirmed <= CloseTime(T, n)
    <3>1. ConfirmIndex(c, i) \in 1 .. n /\ ConfirmIndex(c, j) \in 1 .. n
      BY <1>1, <1>2, <2>1 DEF ConfirmIndex
    <3>2. /\ CloseTime(U, ConfirmIndex(c, i)) = CloseTime(T, ConfirmIndex(c, i))
          /\ CloseTime(U, ConfirmIndex(c, j)) = CloseTime(T, ConfirmIndex(c, j))
          /\ CloseTime(T, ConfirmIndex(c, i)) \in Int /\ CloseTime(T, ConfirmIndex(c, j)) \in Int
          /\ CloseTime(T, ConfirmIndex(c, i)) <= CloseTime(T, n)
          /\ CloseTime(T, ConfirmIndex(c, j)) <= CloseTime(T, n)
      BY <1>1, <3>1 DEF Begins
    <3>3. Furthest(G, d, {i, j}) = Furthest(F, d, {i, j})
      BY <1>1, KnownFurthest
    <3>4. Furthest(F, d, {i, j}) \in {i, j}
      <4>1. {i, j} \in SUBSET (DOMAIN F) /\ {i, j} # {} /\ F \in Seq(Bars)
        BY <1>1 DEF Begins
      <4> QED
        BY <4>1, FurthestIs
    <3>5. G[Furthest(G, d, {i, j})] = F[Furthest(F, d, {i, j})]
      BY <2>5, <3>3, <3>4
    <3>6. EqualLevel(G, U, c, d, i, j) = EqualLevel(F, T, c, d, i, j)
      BY <3>2, <3>5 DEF EqualLevel
    <3>7. EqualLevel(F, T, c, d, i, j).confirmed
            = Max({CloseTime(T, ConfirmIndex(c, i)), CloseTime(T, ConfirmIndex(c, j))})
      BY DEF EqualLevel
    <3> QED
      BY <3>2, <3>6, <3>7, TwoInts
  <2> QED
    BY <2>6, <2>7
<1>3. ASSUME IsEqualLevel(G, U, c, l)
      PROVE  IsEqualLevel(F, T, c, l) /\ l.confirmed <= CloseTime(T, n)
  <2>1. PICK d \in Directions, i \in DOMAIN G, j \in DOMAIN G :
          IsEqualPair(G, c, d, i, j) /\ l = EqualLevel(G, U, c, d, i, j)
    BY <1>3 DEF IsEqualLevel
  <2>2. IsPivot(G, c, d, i) /\ IsPivot(G, c, d, j) /\ i < j
    BY <2>1 DEF IsEqualPair
  <2>3. IsPivot(F, c, d, i) /\ IsPivot(F, c, d, j) /\ ConfirmIndex(c, j) <= n /\ i \in 1 .. n /\ j \in 1 .. n
    BY <1>1, <2>2, KnownPivot
  <2> QED
    BY <1>1, <1>2, <2>1, <2>2, <2>3 DEF IsEqualLevel
<1>4. ASSUME IsEqualLevel(F, T, c, l), l.confirmed <= CloseTime(T, n)
      PROVE  IsEqualLevel(G, U, c, l)
  <2>1. PICK d \in Directions, i \in DOMAIN F, j \in DOMAIN F :
          IsEqualPair(F, c, d, i, j) /\ l = EqualLevel(F, T, c, d, i, j)
    BY <1>4 DEF IsEqualLevel
  <2>2. IsPivot(F, c, d, i) /\ IsPivot(F, c, d, j) /\ i < j
    BY <2>1 DEF IsEqualPair
  <2>3. ConfirmIndex(c, i) \in 1 .. Len(F) /\ ConfirmIndex(c, j) \in 1 .. Len(F)
    BY <1>1, <2>2 DEF ConfirmIndex, IsPivot
  <2>4. l.confirmed = Max({CloseTime(T, ConfirmIndex(c, i)), CloseTime(T, ConfirmIndex(c, j))})
    BY <2>1 DEF EqualLevel
  <2>5. CloseTime(T, ConfirmIndex(c, i)) \in Int /\ CloseTime(T, ConfirmIndex(c, j)) \in Int /\ CloseTime(T, n) \in Int
    BY <1>1, <2>3 DEF Begins
  <2>6. CloseTime(T, ConfirmIndex(c, j)) <= CloseTime(T, n)
    BY <1>4, <2>4, <2>5, TwoInts
  <2>7. ConfirmIndex(c, j) <= n
    BY <1>1, <2>3, <2>6 DEF Begins
  <2>8. i \in 1 .. n /\ j \in 1 .. n
    BY <1>1, <2>2, <2>7 DEF ConfirmIndex
  <2> QED
    BY <1>1, <1>2, <2>1, <2>2, <2>7, <2>8 DEF IsEqualLevel
<1> QED
  BY <1>3, <1>4

\* What windows_for looks at.
LEMMA ResolvedAre ==
  ASSUME NEW D, NEW from, NEW to, NEW w
  PROVE  w \in ResolveWindows(D, from, to) <=>
           /\ w.end > from /\ w.start < to
           /\ \E d \in D : \E day \in LocalDate(d.zone, from) - 1 .. LocalDate(d.zone, to) + 1 :
                w = ResolveWindow(d, day)
<1> DEFINE at(d) == {ResolveWindow(d, day) :
                       day \in LocalDate(d.zone, from) - 1 .. LocalDate(d.zone, to) + 1}
<1>1. \A d \in D : w \in at(d) <=>
        \E day \in LocalDate(d.zone, from) - 1 .. LocalDate(d.zone, to) + 1 : w = ResolveWindow(d, day)
  BY Zenon
<1> HIDE DEF at
<1>2. w \in ResolveWindows(D, from, to) <=> \E d \in D : w \in at(d) /\ w.end > from /\ w.start < to
  BY DEF ResolveWindows, at
<1> QED
  BY <1>1, <1>2

\* A window that begins before an instant is among the dates looked at for it.
LEMMA InReach ==
  ASSUME NEW d, Resolvable(d), NEW day \in Int, NEW t \in Int, ResolveWindow(d, day).start < t
  PROVE  LocalDate(d.zone, t) \in Int /\ day <= LocalDate(d.zone, t) + 1
<1> DEFINE z == d.zone
           x == day * DayLength + d.start
           here == LocalTime(z, t)
           q == here \div DayLength
<1>1. /\ z \in ZoneType /\ z.before \in Int /\ z.after \in Int
      /\ z.before - z.after < DayLength /\ z.after - z.before < DayLength
      /\ DayLength \in Nat \ {0} /\ d.start \in Nat
  BY TimeAssumption DEF Resolvable, ZoneType, ShortChange
<1>2. x \in Int /\ day * DayLength \in Int /\ day * DayLength <= x
  BY <1>1
<1>3. ResolveWindow(d, day).start \in {x - z.before, x - z.after}
  BY <1>1, <1>2, ToUtcIs DEF ResolveWindow
<1>4. here \in {t + z.before, t + z.after} /\ here \in Int
  BY <1>1 DEF LocalTime
<1> HIDE DEF here, x, z
<1>5. day * DayLength < here + DayLength
  BY <1>1, <1>2, <1>3, <1>4
<1>6. q \in Int /\ here < q * DayLength + DayLength /\ q * DayLength \in Int
  <2>1. q \in Int /\ here = DayLength * q + (here % DayLength) /\ here % DayLength < DayLength
    BY <1>1, <1>4
  <2>2. DayLength * q = q * DayLength /\ q * DayLength \in Int /\ here % DayLength \in Int
    BY <1>1, <1>4, <2>1
  <2> QED
    BY <1>1, <1>4, <2>1, <2>2
<1> HIDE DEF q
<1>7. day <= q + 1
  <2> SUFFICES ASSUME q + 1 < day PROVE FALSE
    BY <1>6
  <2>1. q + 1 \in Int /\ (q + 1) * DayLength = q * DayLength + DayLength
    BY <1>1, <1>6
  <2>2. (q + 1) * DayLength + DayLength <= day * DayLength
    BY <1>1, <2>1, Multiples
  <2> QED
    BY <1>1, <1>2, <1>4, <1>5, <1>6, <2>1, <2>2
<1> QED
  BY <1>6, <1>7 DEF LocalDate, q, here, z

\* A window that has ended by then is known with all its bars.
LEMMA KnownWindows ==
  ASSUME NEW F, NEW T, NEW G, NEW U, NEW n, Begins(F, T, G, U, n),
         NEW D, \A d \in D : Resolvable(d), NEW w, w.end <= CloseTime(T, n)
  PROVE  /\ w \in WindowsFor(D, U) /\ Members(U, w) # {} <=>
              w \in WindowsFor(D, T) /\ Members(T, w) # {}
         /\ w \in WindowsFor(D, T) => Members(U, w) = Members(T, w)
         /\ Members(T, w) \in SUBSET (DOMAIN F) /\ Members(U, w) \in SUBSET (1 .. n)
<1> DEFINE e == CloseTime(T, n)
           E == ObservedEnd(T)
<1>1. /\ n \in 1 .. Len(F) /\ Len(F) \in Nat /\ Len(T) = Len(F) /\ DOMAIN T = 1 .. Len(F)
      /\ DOMAIN F = 1 .. Len(F) /\ DOMAIN U = 1 .. n /\ Len(U) = n /\ 1 .. n \subseteq 1 .. Len(F)
  BY DEF Begins
<1>2. /\ U[1] = T[1] /\ T[1] \in Int /\ ObservedEnd(U) = e /\ e \in Int /\ E \in Int /\ e <= E
  <2>1. 1 \in 1 .. n /\ n \in 1 .. n /\ Len(F) \in 1 .. Len(F) /\ n <= Len(F)
    BY <1>1
  <2> QED
    BY <1>1, <2>1 DEF Begins, ObservedEnd
<1>3. Members(T, w) \in SUBSET (DOMAIN F) /\ Members(U, w) \in SUBSET (1 .. n)
  BY <1>1 DEF Members
<1>4. ASSUME NEW d \in D, NEW day \in Int, w = ResolveWindow(d, day)
      PROVE  /\ w.start \in Int /\ w.end \in Int /\ Members(U, w) = Members(T, w)
             /\ Members(T, w) # {} => w.start < e
  <2>1. w.start \in Int /\ w.end \in Int
    BY <1>4, WindowTypes
  <2>2. \A i \in 1 .. Len(F) : /\ T[i] \in Int /\ CloseTime(T, i) \in Int /\ T[i] < CloseTime(T, i)
                               /\ CloseTime(T, i) <= e => i <= n
    BY <1>1 DEF Begins
  <2>3. \A i \in 1 .. n : U[i] = T[i] /\ CloseTime(U, i) = CloseTime(T, i)
    BY DEF Begins
  <2>4. ASSUME NEW i \in DOMAIN T, w.start <= T[i], CloseTime(T, i) <= w.end
        PROVE  i \in 1 .. n /\ w.start < e
    BY <1>1, <1>2, <2>1, <2>2, <2>4
  <2>5. Members(U, w) = Members(T, w)
    BY <1>1, <2>3, <2>4 DEF Members
  <2>6. Members(T, w) # {} => w.start < e
    BY <2>4 DEF Members
  <2> QED
    BY <2>1, <2>5, <2>6
<1>5. ASSUME NEW H, NEW d \in D,
             NEW day \in LocalDate(d.zone, T[1]) - 1 .. LocalDate(d.zone, H) + 1
      PROVE  day \in Int
  OBVIOUS
<1>6. w \in WindowsFor(D, T) <=>
        /\ w.end > T[1] /\ w.start < E
        /\ \E d \in D : \E day \in LocalDate(d.zone, T[1]) - 1 .. LocalDate(d.zone, E) + 1 :
             w = ResolveWindow(d, day)
  BY ResolvedAre DEF WindowsFor
<1>7. w \in WindowsFor(D, U) <=>
        /\ w.end > T[1] /\ w.start < e
        /\ \E d \in D : \E day \in LocalDate(d.zone, T[1]) - 1 .. LocalDate(d.zone, e) + 1 :
             w = ResolveWindow(d, day)
  BY <1>2, ResolvedAre DEF WindowsFor
<1> HIDE DEF e, E
<1>8. ASSUME w \in WindowsFor(D, T), Members(T, w) # {}
      PROVE  w \in WindowsFor(D, U)
  <2>1. PICK d \in D : \E day \in LocalDate(d.zone, T[1]) - 1 .. LocalDate(d.zone, E) + 1 :
             w = ResolveWindow(d, day)
    BY <1>6, <1>8
  <2>2. PICK day \in LocalDate(d.zone, T[1]) - 1 .. LocalDate(d.zone, E) + 1 : w = ResolveWindow(d, day)
    BY <2>1
  <2>3. day \in Int /\ LocalDate(d.zone, T[1]) - 1 <= day
    BY <2>2
  <2>4. w.start < e
    BY <1>4, <1>8, <2>2, <2>3
  <2>5. LocalDate(d.zone, e) \in Int /\ day <= LocalDate(d.zone, e) + 1
    BY <1>2, <2>2, <2>3, <2>4, InReach
  <2>6. LocalDate(d.zone, T[1]) \in Int
    <3>1. d.zone.before \in Int /\ d.zone.after \in Int /\ DayLength \in Nat \ {0}
      BY TimeAssumption DEF Resolvable, ZoneType, ShortChange
    <3> QED
      BY <1>2, <3>1 DEF LocalDate, LocalTime
  <2>7. day \in LocalDate(d.zone, T[1]) - 1 .. LocalDate(d.zone, e) + 1
    BY <2>3, <2>5, <2>6
  <2> QED
    BY <1>6, <1>7, <1>8, <2>2, <2>4, <2>7
<1>9. ASSUME w \in WindowsFor(D, U)
      PROVE  w \in WindowsFor(D, T) /\ Members(U, w) = Members(T, w)
  <2>1. PICK d \in D : \E day \in LocalDate(d.zone, T[1]) - 1 .. LocalDate(d.zone, e) + 1 :
             w = ResolveWindow(d, day)
    BY <1>7, <1>9
  <2>2. PICK day \in LocalDate(d.zone, T[1]) - 1 .. LocalDate(d.zone, e) + 1 : w = ResolveWindow(d, day)
    BY <2>1
  <2>3. day \in Int /\ LocalDate(d.zone, T[1]) - 1 <= day /\ w.start \in Int
    BY <1>4, <2>2
  <2>4. w.start < E
    BY <1>2, <1>7, <1>9, <2>3
  <2>5. LocalDate(d.zone, E) \in Int /\ day <= LocalDate(d.zone, E) + 1
    BY <1>2, <2>2, <2>3, <2>4, InReach
  <2>6. LocalDate(d.zone, T[1]) \in Int
    <3>1. d.zone.before \in Int /\ d.zone.after \in Int /\ DayLength \in Nat \ {0}
      BY TimeAssumption DEF Resolvable, ZoneType, ShortChange
    <3> QED
      BY <1>2, <3>1 DEF LocalDate, LocalTime
  <2>7. day \in LocalDate(d.zone, T[1]) - 1 .. LocalDate(d.zone, E) + 1
    BY <2>3, <2>5, <2>6
  <2> QED
    BY <1>4, <1>6, <1>7, <1>9, <2>2, <2>3, <2>4, <2>7
<1>10. w \in WindowsFor(D, T) => Members(U, w) = Members(T, w)
  BY <1>4, <1>6
<1> QED
  BY <1>3, <1>8, <1>9, <1>10

LEMMA KnownPeriods ==
  ASSUME NEW F, NEW T, NEW G, NEW U, NEW n, Begins(F, T, G, U, n),
         NEW kind, NEW label, NEW w, NEW S \in SUBSET (1 .. n), S # {}, NEW d \in Directions
  PROVE  PeriodLevel(G, U, kind, label, w, S, d) = PeriodLevel(F, T, kind, label, w, S, d)
<1>1. Furthest(G, d, S) = Furthest(F, d, S)
  BY KnownFurthest
<1>2. S \in SUBSET (DOMAIN F) /\ F \in Seq(Bars)
  BY DEF Begins
<1>3. Furthest(F, d, S) \in 1 .. n
  BY <1>2, FurthestIs
<1>4. G[Furthest(G, d, S)] = F[Furthest(F, d, S)]
  BY <1>1, <1>3 DEF Begins
<1> QED
  BY <1>1, <1>4 DEF PeriodLevel

LEMMA KnownSessions ==
  ASSUME NEW F, NEW T, NEW G, NEW U, NEW n, Begins(F, T, G, U, n),
         NEW kind, NEW D, \A d \in D : Resolvable(d), NEW l
  PROVE  IsWindowLevel(G, U, kind, D, l) <=>
           IsWindowLevel(F, T, kind, D, l) /\ l.confirmed <= CloseTime(T, n)
<1>1. ObservedEnd(U) = CloseTime(T, n) /\ CloseTime(T, n) \in Int
      /\ ObservedEnd(T) \in Int /\ CloseTime(T, n) <= ObservedEnd(T)
  <2>1. n \in 1 .. n /\ n \in 1 .. Len(F) /\ Len(F) \in 1 .. Len(F) /\ n <= Len(F)
    BY DEF Begins
  <2> QED
    BY <2>1 DEF Begins, ObservedEnd
<1>2. ASSUME NEW H, NEW V, NEW w, NEW d, l = PeriodLevel(H, V, kind, w.name, w, Members(V, w), d)
      PROVE  l.confirmed = w.end
  BY <1>2 DEF PeriodLevel
<1>3. \A w \in WindowsFor(D, T) : w.end \in Int
  BY WindowsResolved, WindowTypes DEF WindowsFor
<1>4. ASSUME NEW w, w.end <= CloseTime(T, n)
      PROVE  w \in Occurred(D, U) <=> w \in Occurred(D, T)
  <2>1. w \in WindowsFor(D, U) /\ Members(U, w) # {} <=> w \in WindowsFor(D, T) /\ Members(T, w) # {}
    BY <1>4, KnownWindows
  <2>2. w \in WindowsFor(D, T) => Complete(T, w) /\ Complete(U, w)
    BY <1>1, <1>3, <1>4 DEF Complete
  <2> QED
    BY <2>1, <2>2 DEF Occurred
<1>5. ASSUME NEW w \in Occurred(D, T), w.end <= CloseTime(T, n), NEW d \in Directions
      PROVE  PeriodLevel(G, U, kind, w.name, w, Members(U, w), d)
               = PeriodLevel(F, T, kind, w.name, w, Members(T, w), d)
  <2>1. w \in WindowsFor(D, T) /\ Members(T, w) # {}
    BY DEF Occurred
  <2>2. Members(U, w) = Members(T, w) /\ Members(U, w) \in SUBSET (1 .. n)
    BY <1>5, <2>1, KnownWindows
  <2> QED
    BY <2>1, <2>2, KnownPeriods
<1>6. ASSUME IsWindowLevel(G, U, kind, D, l)
      PROVE  IsWindowLevel(F, T, kind, D, l) /\ l.confirmed <= CloseTime(T, n)
  <2>1. PICK d \in Directions, w \in Occurred(D, U) :
          l = PeriodLevel(G, U, kind, w.name, w, Members(U, w), d)
    BY <1>6 DEF IsWindowLevel
  <2>2. w.end <= CloseTime(T, n)
    BY <1>1 DEF Occurred, Complete
  <2>3. w \in Occurred(D, T) /\ l = PeriodLevel(F, T, kind, w.name, w, Members(T, w), d)
    BY <1>4, <1>5, <2>1, <2>2
  <2> QED
    BY <1>2, <2>1, <2>2, <2>3 DEF IsWindowLevel
<1>7. ASSUME IsWindowLevel(F, T, kind, D, l), l.confirmed <= CloseTime(T, n)
      PROVE  IsWindowLevel(G, U, kind, D, l)
  <2>1. PICK d \in Directions, w \in Occurred(D, T) :
          l = PeriodLevel(F, T, kind, w.name, w, Members(T, w), d)
    BY <1>7 DEF IsWindowLevel
  <2>2. w.end <= CloseTime(T, n)
    BY <1>2, <1>7, <2>1
  <2>3. w \in Occurred(D, U) /\ l = PeriodLevel(G, U, kind, w.name, w, Members(U, w), d)
    BY <1>4, <1>5, <2>1, <2>2
  <2> QED
    BY <2>3 DEF IsWindowLevel
<1> QED
  BY <1>6, <1>7

\* A week that has ended by then has the same days.
LEMMA KnownDays ==
  ASSUME NEW F, NEW T, NEW G, NEW U, NEW n, Begins(F, T, G, U, n), NEW c \in Configs,
         NEW a \in Int, WeekEnd(c, a) <= CloseTime(T, n)
  PROVE  /\ DaysOf(U, c, a) = DaysOf(T, c, a)
         /\ \A v \in DaysOf(T, c, a) : /\ Members(U, v) = Members(T, v) /\ Members(T, v) # {}
                                       /\ Members(U, v) \in SUBSET (1 .. n)
<1> DEFINE D == DayDefinition(c)
           last == a + TradingDays - 1
<1>1. Resolvable(D) /\ WeekLength \in Nat \ {0} /\ TradingDays \in Nat /\ last \in Int
  BY ConfigTypes, CalendarAssumption
<1>2. WeekEnd(c, a) = ResolveWindow(D, last).end /\ WeekEnd(c, a) \in Int /\ CloseTime(T, n) \in Int
  <2>1. WeekEnd(c, a) = ResolveWindow(D, last).end
    BY DEF WeekEnd
  <2> HIDE DEF D, last
  <2> QED
    BY <1>1, <2>1, WindowTypes DEF Begins
<1>3. ASSUME NEW v, NEW day \in Int, v = ResolveWindow(D, day), WeekAnchor(v.day) = a,
             InTradingWeek(v.day)
      PROVE  v.end <= CloseTime(T, n)
  <2>1. v.day = day
    BY <1>3 DEF ResolveWindow
  <2>2. day <= last
    <3>1. day % WeekLength \in Int /\ day % WeekLength < TradingDays /\ a = day - (day % WeekLength)
      BY <1>1, <1>3, <2>1 DEF WeekAnchor, InTradingWeek
    <3> QED
      BY <1>1, <3>1
  <2> HIDE DEF D, last
  <2>3. v.end \in Int
    BY <1>1, <1>3, WindowTypes
  <2>4. v.end <= WeekEnd(c, a)
    <3>1. CASE day = last
      BY <1>2, <1>3, <3>1
    <3>2. CASE day < last
      BY <1>1, <1>2, <1>3, <2>3, <3>2, DaysInOrder
    <3> QED
      BY <1>1, <2>2, <3>1, <3>2
  <2> QED
    BY <1>2, <2>3, <2>4
<1>4. \A V : \A v \in DaysOf(V, c, a) : \E day \in Int : v = ResolveWindow(D, day)
  BY TradedDayTypes DEF DaysOf
<1>5. \A V : \A v \in DaysOf(V, c, a) : v.end <= CloseTime(T, n)
  BY <1>3, <1>4 DEF DaysOf, TradedDays
<1>6. \A d \in {D} : Resolvable(d)
  BY <1>1
<1> HIDE DEF D
<1>7. ASSUME NEW v, v.end <= CloseTime(T, n)
      PROVE  /\ v \in DaysOf(U, c, a) <=> v \in DaysOf(T, c, a)
             /\ v \in DaysOf(T, c, a) =>
                  /\ Members(U, v) = Members(T, v) /\ Members(T, v) # {}
                  /\ Members(U, v) \in SUBSET (1 .. n)
  <2>1. /\ v \in WindowsFor({D}, U) /\ Members(U, v) # {} <=> v \in WindowsFor({D}, T) /\ Members(T, v) # {}
        /\ v \in WindowsFor({D}, T) => Members(U, v) = Members(T, v)
        /\ Members(U, v) \in SUBSET (1 .. n)
    BY <1>6, <1>7, KnownWindows
  <2> QED
    BY <2>1 DEF DaysOf, TradedDays, D
<1>8. \A v \in DaysOf(U, c, a) : v \in DaysOf(T, c, a)
  BY <1>5, <1>7
<1>9. \A v \in DaysOf(T, c, a) : v \in DaysOf(U, c, a)
  BY <1>5, <1>7
<1>10. \A v \in DaysOf(T, c, a) : /\ Members(U, v) = Members(T, v) /\ Members(T, v) # {}
                                  /\ Members(U, v) \in SUBSET (1 .. n)
  BY <1>5, <1>7
<1>11. DaysOf(U, c, a) = DaysOf(T, c, a)
  BY <1>8, <1>9, Zenon
<1> QED
  BY <1>10, <1>11

LEMMA KnownWeeks ==
  ASSUME NEW F, NEW T, NEW G, NEW U, NEW n, Begins(F, T, G, U, n), NEW c \in Configs, NEW l
  PROVE  IsWeekLevel(G, U, c, l) <=> IsWeekLevel(F, T, c, l) /\ l.confirmed <= CloseTime(T, n)
<1> DEFINE level(H, V, w, d) ==
             PeriodLevel(H, V, "week", "week", w, UNION {Members(V, day) : day \in w.days}, d)
<1>1. ObservedEnd(U) = CloseTime(T, n) /\ CloseTime(T, n) \in Int
      /\ ObservedEnd(T) \in Int /\ CloseTime(T, n) <= ObservedEnd(T)
  <2>1. n \in 1 .. n /\ n \in 1 .. Len(F) /\ Len(F) \in 1 .. Len(F) /\ n <= Len(F)
    BY DEF Begins
  <2> QED
    BY <2>1 DEF Begins, ObservedEnd
<1>2. ASSUME NEW a \in Int, WeekEnd(c, a) <= CloseTime(T, n), NEW v,
             v \in DaysOf(T, c, a) \/ v \in DaysOf(U, c, a), NEW d \in Directions
      PROVE  /\ v \in TradedDays(T, c) /\ v \in TradedDays(U, c)
             /\ WeekOf(U, c, a) = WeekOf(T, c, a)
             /\ level(G, U, WeekOf(U, c, a), d) = level(F, T, WeekOf(T, c, a), d)
  <2>1. /\ DaysOf(U, c, a) = DaysOf(T, c, a)
        /\ \A u \in DaysOf(T, c, a) : /\ Members(U, u) = Members(T, u) /\ Members(T, u) # {}
                                      /\ Members(U, u) \in SUBSET (1 .. n)
    BY <1>2, KnownDays
  <2>2. v \in TradedDays(T, c) /\ v \in TradedDays(U, c)
    BY <1>2, <2>1 DEF DaysOf
  <2>3. WeekOf(U, c, a) = WeekOf(T, c, a) /\ WeekOf(T, c, a).days = DaysOf(T, c, a)
    BY <2>1 DEF WeekOf
  <2> DEFINE S == UNION {Members(U, day) : day \in DaysOf(T, c, a)}
  <2>4. S = UNION {Members(T, day) : day \in DaysOf(T, c, a)}
    BY <2>1
  <2>5. S \in SUBSET (1 .. n) /\ S # {}
    BY <1>2, <2>1
  <2> HIDE DEF S
  <2>6. PeriodLevel(G, U, "week", "week", WeekOf(T, c, a), S, d)
          = PeriodLevel(F, T, "week", "week", WeekOf(T, c, a), S, d)
    BY <2>5, KnownPeriods
  <2>7. level(G, U, WeekOf(U, c, a), d) = level(F, T, WeekOf(T, c, a), d)
    BY <2>3, <2>4, <2>6 DEF S
  <2> QED
    BY <2>2, <2>3, <2>7
<1>3. \A V : \A v \in TradedDays(V, c) : /\ WeekAnchor(v.day) \in Int
                                         /\ v \in DaysOf(V, c, WeekAnchor(v.day))
  BY TradedDayTypes DEF DaysOf
<1>4. \A V, a : WeekOf(V, c, a).end = WeekEnd(c, a)
  BY DEF WeekOf
<1>5. \A H, V, w, d : level(H, V, w, d).confirmed = w.end
  BY DEF PeriodLevel
<1>6. \A a \in Int : WeekEnd(c, a) \in Int
  <2> SUFFICES ASSUME NEW a \in Int PROVE WeekEnd(c, a) \in Int
    OBVIOUS
  <2>1. Resolvable(DayDefinition(c)) /\ a + TradingDays - 1 \in Int
    BY ConfigTypes, CalendarAssumption
  <2> QED
    BY <2>1, WindowTypes DEF WeekEnd
<1>7. \A H, V : IsWeekLevel(H, V, c, l) <=>
        \E d \in Directions, v \in TradedDays(V, c) :
          /\ Complete(V, WeekOf(V, c, WeekAnchor(v.day)))
          /\ l = level(H, V, WeekOf(V, c, WeekAnchor(v.day)), d)
  BY Zenon DEF IsWeekLevel
<1> HIDE DEF level
<1>8. ASSUME IsWeekLevel(G, U, c, l)
      PROVE  IsWeekLevel(F, T, c, l) /\ l.confirmed <= CloseTime(T, n)
  <2>1. PICK d \in Directions, v \in TradedDays(U, c) :
          /\ Complete(U, WeekOf(U, c, WeekAnchor(v.day)))
          /\ l = level(G, U, WeekOf(U, c, WeekAnchor(v.day)), d)
    BY <1>7, <1>8
  <2> DEFINE a == WeekAnchor(v.day)
  <2>2. a \in Int /\ v \in DaysOf(U, c, a) /\ WeekEnd(c, a) \in Int
    BY <1>3, <1>6
  <2>3. WeekEnd(c, a) <= CloseTime(T, n)
    BY <1>1, <1>4, <2>1 DEF Complete
  <2>4. /\ v \in TradedDays(T, c) /\ WeekOf(U, c, a) = WeekOf(T, c, a)
        /\ l = level(F, T, WeekOf(T, c, a), d)
    BY <1>2, <2>1, <2>2, <2>3
  <2>5. Complete(T, WeekOf(T, c, a))
    BY <1>1, <1>4, <2>2, <2>3 DEF Complete
  <2>6. l.confirmed <= CloseTime(T, n)
    BY <1>4, <1>5, <2>3, <2>4
  <2> QED
    BY <1>7, <2>4, <2>5, <2>6
<1>9. ASSUME IsWeekLevel(F, T, c, l), l.confirmed <= CloseTime(T, n)
      PROVE  IsWeekLevel(G, U, c, l)
  <2>1. PICK d \in Directions, v \in TradedDays(T, c) :
          /\ Complete(T, WeekOf(T, c, WeekAnchor(v.day)))
          /\ l = level(F, T, WeekOf(T, c, WeekAnchor(v.day)), d)
    BY <1>7, <1>9
  <2> DEFINE a == WeekAnchor(v.day)
  <2>2. a \in Int /\ v \in DaysOf(T, c, a)
    BY <1>3
  <2>3. WeekEnd(c, a) <= CloseTime(T, n)
    BY <1>4, <1>5, <1>9, <2>1
  <2>4. /\ v \in TradedDays(U, c) /\ WeekOf(U, c, a) = WeekOf(T, c, a)
        /\ l = level(G, U, WeekOf(U, c, a), d)
    BY <1>2, <2>1, <2>2, <2>3
  <2>5. Complete(U, WeekOf(U, c, a))
    BY <1>1, <1>4, <2>3 DEF Complete
  <2> QED
    BY <1>7, <2>4, <2>5
<1> QED
  BY <1>8, <1>9

\* What of the levels of a frame is known at the close of bar n is what its first
\* n bars give.
LEMMA KnownLevels ==
  ASSUME NEW F, NEW T, NEW c, Given(F, T, c), NEW n \in 1 .. Len(F)
  PROVE  {l \in LevelsOf(F, T, c) : l.confirmed <= CloseTime(T, n)}
           = LevelsOf(SubSeq(F, 1, n), SubSeq(T, 1, n), c)
<1> DEFINE G == SubSeq(F, 1, n)
           U == SubSeq(T, 1, n)
<1>1. c \in Configs
  BY DEF Given
<1>2. Begins(F, T, G, U, n)
  BY KnownFrame
<1> HIDE DEF G, U
<1>3. F # <<>> /\ G # <<>>
  <2>1. n \in 1 .. Len(F) /\ Len(G) = n /\ Len(F) \in Nat
    BY <1>2 DEF Begins
  <2>2. Len(F) # 0 /\ Len(G) # 0
    BY <2>1
  <2> QED
    BY <2>2
<1>4. /\ \A d \in Definitions : Resolvable(d)
      /\ \A d \in {DayDefinition(c)} : Resolvable(d)
  BY <1>1, CalendarAssumption, ConfigTypes DEF DefinitionType, Resolvable
<1> DEFINE Is(H, V, l) ==
             \/ IsSwingLevel(H, V, c, l) \/ IsEqualLevel(H, V, c, l)
             \/ IsWindowLevel(H, V, "session", Definitions, l)
             \/ IsWindowLevel(H, V, "day", {DayDefinition(c)}, l)
             \/ IsWeekLevel(H, V, c, l)
<1>5. \A H, V, l : H # <<>> => (l \in LevelsOf(H, V, c) <=> Is(H, V, l))
  BY LevelsAre DEF LevelsOf
<1>6. \A l : Is(G, U, l) <=> Is(F, T, l) /\ l.confirmed <= CloseTime(T, n)
  <2> TAKE l
  <2>1. /\ IsSwingLevel(G, U, c, l) <=>
             IsSwingLevel(F, T, c, l) /\ l.confirmed <= CloseTime(T, n)
        /\ IsEqualLevel(G, U, c, l) <=>
             IsEqualLevel(F, T, c, l) /\ l.confirmed <= CloseTime(T, n)
        /\ IsWeekLevel(G, U, c, l) <=>
             IsWeekLevel(F, T, c, l) /\ l.confirmed <= CloseTime(T, n)
    BY <1>1, <1>2, KnownSwings, KnownEquals, KnownWeeks
  <2>2. /\ IsWindowLevel(G, U, "session", Definitions, l) <=>
             /\ IsWindowLevel(F, T, "session", Definitions, l)
             /\ l.confirmed <= CloseTime(T, n)
        /\ IsWindowLevel(G, U, "day", {DayDefinition(c)}, l) <=>
             /\ IsWindowLevel(F, T, "day", {DayDefinition(c)}, l)
             /\ l.confirmed <= CloseTime(T, n)
    BY <1>2, <1>4, KnownSessions
  <2> QED
    BY <2>1, <2>2
<1>7. \A l : l \in LevelsOf(F, T, c) /\ l.confirmed <= CloseTime(T, n)
              <=> l \in LevelsOf(G, U, c)
  BY <1>3, <1>5, <1>6
<1> QED
  BY <1>7 DEF G, U

\* Batch equals streaming replay, for every frame, gaps or not, every zone and
\* every calendar: what of the levels of the whole frame is observable at the
\* close of a bar is what the bars closed by then give.
THEOREM LevelsKnowableHolds == Spec => []LevelsKnowable
<1>1. LiquidityInv => LevelsKnowable
  <2> SUFFICES ASSUME LiquidityInv, index > 0
               PROVE  {l \in levels : Observable(l, index)} =
                        LevelsOf(SubSeq(frame, 1, index), SubSeq(opens, 1, index), config)
    BY DEF LevelsKnowable
  <2>1. /\ Given(frame, opens, config) /\ index \in 1 .. Len(frame)
        /\ levels = LevelsOf(frame, opens, config)
    BY DEF LiquidityInv, Types, Given
  <2>2. {l \in levels : Observable(l, index)}
          = {l \in LevelsOf(frame, opens, config) : l.confirmed <= CloseTime(opens, index)}
    BY <2>1 DEF Observable
  <2> QED
    BY <2>1, <2>2, KnownLevels
<1> QED
  BY <1>1, InvHolds, PTL

----------------------------------------------------------------------------
\* What the calendar of a market state reads at the close of bar n.

\* The clocks show an instant on the date before, on or after the one a time of day
\* belongs to that lies before it, on it or after it.
LEMMA DatesNear ==
  ASSUME NEW z \in ZoneType, ShortChange(z), NEW day \in Int, NEW x \in 0 .. DayLength - 1,
         NEW t \in Int
  PROVE  LET b == ToUtc(z, day * DayLength + x)
         IN  /\ b \in Int /\ LocalDate(z, t) \in Int
             /\ b <= t => day <= LocalDate(z, t) + 1
             /\ t <= b => LocalDate(z, t) - 1 <= day
<1> DEFINE y == day * DayLength + x
           b == ToUtc(z, y)
           here == LocalTime(z, t)
           q == here \div DayLength
<1>1. /\ z.before \in Int /\ z.after \in Int /\ z.before - z.after < DayLength
      /\ z.after - z.before < DayLength /\ DayLength \in Nat \ {0} /\ x \in Nat /\ x < DayLength
  BY TimeAssumption DEF ZoneType, ShortChange
<1>2. /\ y \in Int /\ day * DayLength \in Int /\ day * DayLength <= y
      /\ y < day * DayLength + DayLength
  BY <1>1
<1> HIDE DEF y
<1>3. b \in {y - z.before, y - z.after} /\ b \in Int
  <2>1. b \in {y - z.before, y - z.after}
    BY <1>2, ToUtcIs
  <2> QED
    BY <1>1, <1>2, <2>1
<1>4. here \in {t + z.before, t + z.after} /\ here \in Int
  BY <1>1 DEF LocalTime
<1> HIDE DEF here, b
<1>5. q \in Int /\ q * DayLength \in Int /\ q * DayLength <= here /\ here < q * DayLength + DayLength
  <2>1. /\ q \in Int /\ here = DayLength * q + (here % DayLength)
        /\ here % DayLength \in 0 .. DayLength - 1
    BY <1>1, <1>4
  <2>2. DayLength * q = q * DayLength /\ q * DayLength \in Int
    BY <1>1, <1>4, <2>1
  <2> QED
    BY <1>1, <1>4, <2>1, <2>2
<1> HIDE DEF q
<1>6. ASSUME b <= t PROVE day <= q + 1
  <2> SUFFICES ASSUME q + 1 < day PROVE FALSE
    BY <1>5
  <2>1. day * DayLength < here + DayLength
    BY <1>1, <1>2, <1>3, <1>4, <1>6
  <2>2. q + 1 \in Int /\ (q + 1) * DayLength = q * DayLength + DayLength
    BY <1>1, <1>5
  <2>3. (q + 1) * DayLength + DayLength <= day * DayLength
    BY <1>1, <2>2, Multiples
  <2> QED
    BY <1>1, <1>2, <1>4, <1>5, <2>1, <2>2, <2>3
<1>7. ASSUME t <= b PROVE q - 1 <= day
  <2> SUFFICES ASSUME day < q - 1 PROVE FALSE
    BY <1>5
  <2>1. here < day * DayLength + DayLength + DayLength
    BY <1>1, <1>2, <1>3, <1>4, <1>7
  <2>2. q - 1 \in Int /\ (q - 1) * DayLength = q * DayLength - DayLength
    BY <1>1, <1>5
  <2>3. day * DayLength + DayLength <= (q - 1) * DayLength
    BY <1>1, <2>2, <1>5, Multiples
  <2> QED
    BY <1>1, <1>2, <1>4, <1>5, <2>1, <2>2, <2>3
<1>8. LocalDate(z, t) = q
  BY DEF LocalDate, q, here
<1> QED
  BY <1>3, <1>5, <1>6, <1>7, <1>8 DEF b, y

\* An open is whichever bar begins at the boundary of a day.
DailyOpen(F, o, day, i) == [day |-> day, price |-> F[i].open, at |-> BoundaryFor(o, day)]

LEMMA DailyOpensAre ==
  ASSUME NEW F, NEW T, NEW n \in Nat \ {0}, Len(T) = n, DOMAIN T = 1 .. n,
         \A i \in 1 .. n : T[i] \in Int /\ T[1] <= T[i] /\ T[i] <= T[n],
         NEW o \in DailyOpenType, ShortChange(o.zone), NEW x
  PROVE  x \in DailyOpensOf(F, T, o)
           <=> \E day \in Int : \E i \in 1 .. n : OpensAt(T, o, day, i) /\ x = DailyOpen(F, o, day, i)
<1> DEFINE days == LocalDate(o.zone, T[1]) - 1 .. LocalDate(o.zone, T[n]) + 1
<1>1. T # <<>>
  <2> SUFFICES ASSUME T = <<>> PROVE FALSE
    OBVIOUS
  <2>1. Len(T) = 0
    OBVIOUS
  <2> QED
    BY <2>1
<1>2. DailyOpensOf(F, T, o) =
        {[day |-> y[1], price |-> F[y[2]].open, at |-> BoundaryFor(o, y[1])] :
           y \in {y \in days \X (DOMAIN T) : OpensAt(T, o, y[1], y[2])}}
  BY <1>1 DEF DailyOpensOf
<1>3. ASSUME NEW day \in Int, NEW i \in 1 .. n, OpensAt(T, o, day, i)
      PROVE  day \in days
  <2>1. /\ o.zone \in ZoneType /\ o.open \in 0 .. DayLength - 1 /\ n \in 1 .. n /\ 1 \in 1 .. n
        /\ T[1] \in Int /\ T[n] \in Int /\ T[i] \in Int
    BY DEF DailyOpenType
  <2>2. T[i] = ToUtc(o.zone, day * DayLength + o.open)
    BY <1>3 DEF OpensAt, BoundaryFor
  <2>3. T[1] <= T[i] /\ T[i] <= T[n]
    OBVIOUS
  <2>4. LocalDate(o.zone, T[1]) \in Int /\ LocalDate(o.zone, T[1]) - 1 <= day
    BY <2>1, <2>2, <2>3, DatesNear
  <2>5. LocalDate(o.zone, T[n]) \in Int /\ day <= LocalDate(o.zone, T[n]) + 1
    BY <2>1, <2>2, <2>3, DatesNear
  <2> QED
    BY <2>4, <2>5
<1>4. ASSUME x \in DailyOpensOf(F, T, o)
      PROVE  \E day \in Int : \E i \in 1 .. n : OpensAt(T, o, day, i) /\ x = DailyOpen(F, o, day, i)
  <2>1. PICK y \in days \X (DOMAIN T) :
          /\ OpensAt(T, o, y[1], y[2])
          /\ x = [day |-> y[1], price |-> F[y[2]].open, at |-> BoundaryFor(o, y[1])]
    BY <1>2, <1>4
  <2>2. y[1] \in days /\ y[2] \in 1 .. n
    OBVIOUS
  <2>3. y[1] \in Int
    BY <2>2
  <2> QED
    BY <2>1, <2>2, <2>3 DEF DailyOpen
<1>5. ASSUME NEW day \in Int, NEW i \in 1 .. n, OpensAt(T, o, day, i), x = DailyOpen(F, o, day, i)
      PROVE  x \in DailyOpensOf(F, T, o)
  <2> DEFINE y == <<day, i>>
  <2>1. day \in days
    BY <1>3, <1>5
  <2> HIDE DEF days
  <2>2. y \in days \X (DOMAIN T) /\ y[1] = day /\ y[2] = i
    BY <2>1
  <2> HIDE DEF y
  <2> QED
    BY <1>2, <1>5, <2>2 DEF DailyOpen
<1> QED
  BY <1>4, <1>5

\* The opens known by then are those of the bars that began before.
LEMMA KnownOpens ==
  ASSUME NEW F, NEW T, NEW G, NEW U, NEW n, Begins(F, T, G, U, n), Increasing(T),
         NEW o \in DailyOpenType, ShortChange(o.zone)
  PROVE  /\ {x \in DailyOpensOf(F, T, o) : x.at < CloseTime(T, n)} = DailyOpensOf(G, U, o)
         /\ \A x \in DailyOpensOf(F, T, o) : x.at \in Int
<1> DEFINE N == Len(T)
<1>1. /\ N \in Nat \ {0} /\ n \in Nat \ {0} /\ n \in 1 .. N /\ DOMAIN T = 1 .. N /\ DOMAIN U = 1 .. n
      /\ Len(U) = n /\ Duration \in Nat \ {0}
  BY TimeAssumption DEF Begins
<1>2. \A i \in 1 .. N : T[i] \in Int
  BY DEF Begins
<1>3. \A i, j \in 1 .. N : i < j => T[i] + Duration <= T[j]
  BY <1>1 DEF Increasing
<1>4. \A i, j \in 1 .. N : i <= j => T[i] <= T[j]
  <2> TAKE i, j \in 1 .. N
  <2>1. CASE i = j
    BY <1>2, <2>1
  <2>2. CASE i < j
    BY <1>1, <1>2, <1>3, <2>2
  <2> QED
    BY <1>1, <2>1, <2>2
<1>5. CloseTime(T, n) = T[n] + Duration
  BY DEF CloseTime
<1>6. \A i \in 1 .. N : T[i] < CloseTime(T, n) <=> i <= n
  <2> TAKE i \in 1 .. N
  <2>1. CASE i <= n
    BY <1>1, <1>2, <1>4, <1>5, <2>1
  <2>2. CASE n < i
    BY <1>1, <1>2, <1>3, <1>5, <2>2
  <2> QED
    BY <1>1, <2>1, <2>2
<1>7. \A i \in 1 .. N : T[i] \in Int /\ T[1] <= T[i] /\ T[i] <= T[N]
  BY <1>1, <1>2, <1>4
<1>8. \A i \in 1 .. n : U[i] = T[i] /\ G[i] = F[i]
  BY DEF Begins
<1>9. \A i \in 1 .. n : U[i] \in Int /\ U[1] <= U[i] /\ U[i] <= U[n]
  BY <1>1, <1>2, <1>4, <1>8
<1> HIDE DEF N
<1>10. \A x : x \in DailyOpensOf(F, T, o)
         <=> \E day \in Int : \E i \in 1 .. N : OpensAt(T, o, day, i) /\ x = DailyOpen(F, o, day, i)
  BY <1>1, <1>7, DailyOpensAre DEF N
<1>11. \A x : x \in DailyOpensOf(G, U, o)
         <=> \E day \in Int : \E i \in 1 .. n : OpensAt(U, o, day, i) /\ x = DailyOpen(G, o, day, i)
  BY <1>1, <1>9, DailyOpensAre
<1>12. \A day \in Int : \A i \in 1 .. N : OpensAt(T, o, day, i) => DailyOpen(F, o, day, i).at = T[i]
  BY DEF OpensAt, DailyOpen
<1>13. \A day \in Int : \A i \in 1 .. n : /\ OpensAt(U, o, day, i) <=> OpensAt(T, o, day, i)
                                        /\ DailyOpen(G, o, day, i) = DailyOpen(F, o, day, i)
  BY <1>8 DEF OpensAt, DailyOpen
<1>14. \A i \in 1 .. n : i \in 1 .. N /\ i <= n
  BY <1>1
<1>15. \A i \in 1 .. N : i <= n => i \in 1 .. n
  BY <1>1
<1>16. ASSUME NEW x \in DailyOpensOf(F, T, o), x.at < CloseTime(T, n)
       PROVE  x \in DailyOpensOf(G, U, o)
  <2>1. PICK day \in Int : \E i \in 1 .. N : OpensAt(T, o, day, i) /\ x = DailyOpen(F, o, day, i)
    BY <1>10
  <2>2. PICK i \in 1 .. N : OpensAt(T, o, day, i) /\ x = DailyOpen(F, o, day, i)
    BY <2>1
  <2>3. i \in 1 .. n
    BY <1>6, <1>12, <1>15, <1>16, <2>2
  <2> QED
    BY <1>11, <1>13, <2>2, <2>3
<1>17. ASSUME NEW x \in DailyOpensOf(G, U, o)
       PROVE  x \in DailyOpensOf(F, T, o) /\ x.at < CloseTime(T, n)
  <2>1. PICK day \in Int : \E i \in 1 .. n : OpensAt(U, o, day, i) /\ x = DailyOpen(G, o, day, i)
    BY <1>11
  <2>2. PICK i \in 1 .. n : OpensAt(U, o, day, i) /\ x = DailyOpen(G, o, day, i)
    BY <2>1
  <2> QED
    BY <1>6, <1>10, <1>12, <1>13, <1>14, <2>2
<1>18. \A x \in DailyOpensOf(F, T, o) : x.at \in Int
  BY <1>2, <1>10, <1>12
<1> QED
  BY <1>16, <1>17, <1>18

\* The one permitted asymmetry: an open at the very instant of the reading.
LEMMA LatestOpens ==
  ASSUME NEW O, \A x \in O : x.at \in Int, NEW t \in Int, NEW R, R = {x \in O : x.at < t}
  PROVE  \/ LatestOpenAt(R, t) = LatestOpenAt(O, t)
         \/ /\ \A x \in LatestOpenAt(O, t) : x.at = t
            /\ \A y \in LatestOpenAt(R, t) : y.at < t
<1>1. CASE \E x \in O : x.at = t
  BY <1>1 DEF LatestOpenAt
<1>2. CASE \A x \in O : x.at # t
  <2>1. \A x \in O : x.at <= t <=> x.at < t
    BY <1>2
  <2> QED
    BY <2>1 DEF LatestOpenAt
<1> QED
  BY <1>1, <1>2

\* The windows that contain an instant are resolved from every frame that starts
\* with the same bar and reaches it.
LEMMA KnownLive ==
  ASSUME NEW T, NEW U, NEW t \in Int, U[1] = T[1], ObservedEnd(T) \in Int, ObservedEnd(U) \in Int,
         t <= ObservedEnd(T), t <= ObservedEnd(U), T[1] \in Int,
         NEW D, \A d \in D : Resolvable(d)
  PROVE  {w \in ViewWindows(D, U) : Contains(w, t)} = {w \in ViewWindows(D, T) : Contains(w, t)}
<1> DEFINE from == T[1] - 2 * DayLength
<1>1. DayLength \in Nat \ {0} /\ from \in Int
  BY TimeAssumption
<1>2. ASSUME NEW e \in Int, t < e, NEW w, Contains(w, t)
      PROVE  w \in ResolveWindows(D, from, e)
               <=> /\ w.end > from
                   /\ \E d \in D : \E day \in Int : /\ LocalDate(d.zone, from) - 1 <= day
                                                   /\ w = ResolveWindow(d, day)
  <2>1. w \in ResolveWindows(D, from, e) <=>
          /\ w.end > from /\ w.start < e
          /\ \E d \in D : \E day \in LocalDate(d.zone, from) - 1 .. LocalDate(d.zone, e) + 1 :
               w = ResolveWindow(d, day)
    BY ResolvedAre
  <2>2. ASSUME NEW d \in D, NEW day \in Int, w = ResolveWindow(d, day)
        PROVE  /\ LocalDate(d.zone, from) \in Int /\ LocalDate(d.zone, e) \in Int
               /\ day <= LocalDate(d.zone, e) + 1 /\ w.start < e
    <3>1. /\ d.zone \in ZoneType /\ ShortChange(d.zone) /\ d.start \in 0 .. DayLength - 1
      BY DEF Resolvable
    <3>2. w.start = ToUtc(d.zone, day * DayLength + d.start) /\ w.start <= t
      BY <1>2, <2>2 DEF ResolveWindow, Contains
    <3>3. w.start \in Int
      BY <2>2, WindowTypes
    <3>4. w.start <= e /\ w.start < e
      BY <1>2, <3>2, <3>3
    <3>5. LocalDate(d.zone, e) \in Int /\ day <= LocalDate(d.zone, e) + 1
      BY <3>1, <3>2, <3>4, DatesNear
    <3>6. LocalDate(d.zone, from) \in Int
      BY <1>1, <3>1, DatesNear
    <3> QED
      BY <3>4, <3>5, <3>6
  <2> HIDE DEF from
  <2>3. ASSUME NEW d \in D,
               NEW day \in LocalDate(d.zone, from) - 1 .. LocalDate(d.zone, e) + 1
        PROVE  day \in Int
    OBVIOUS
  <2>4. ASSUME w \in ResolveWindows(D, from, e)
        PROVE  /\ w.end > from
               /\ \E d \in D : \E day \in Int : /\ LocalDate(d.zone, from) - 1 <= day
                                               /\ w = ResolveWindow(d, day)
    <3>1. PICK d \in D : \E day \in LocalDate(d.zone, from) - 1 .. LocalDate(d.zone, e) + 1 :
                          w = ResolveWindow(d, day)
      BY <2>1, <2>4
    <3>2. PICK day \in LocalDate(d.zone, from) - 1 .. LocalDate(d.zone, e) + 1 :
                w = ResolveWindow(d, day)
      BY <3>1
    <3>3. day \in Int /\ LocalDate(d.zone, from) - 1 <= day
      OBVIOUS
    <3> QED
      BY <2>1, <2>4, <3>2, <3>3
  <2>5. ASSUME w.end > from, NEW d \in D, NEW day \in Int, LocalDate(d.zone, from) - 1 <= day,
               w = ResolveWindow(d, day)
        PROVE  w \in ResolveWindows(D, from, e)
    <3>1. /\ LocalDate(d.zone, from) \in Int /\ LocalDate(d.zone, e) \in Int
          /\ day <= LocalDate(d.zone, e) + 1 /\ w.start < e
      BY <2>2, <2>5
    <3>2. day \in LocalDate(d.zone, from) - 1 .. LocalDate(d.zone, e) + 1
      BY <2>5, <3>1
    <3> QED
      BY <2>1, <2>5, <3>1, <3>2
  <2> QED
    BY <2>4, <2>5
<1>3. /\ ObservedEnd(T) + DayLength \in Int /\ t < ObservedEnd(T) + DayLength
      /\ ObservedEnd(U) + DayLength \in Int /\ t < ObservedEnd(U) + DayLength
  BY <1>1
<1>4. /\ ViewWindows(D, T) = ResolveWindows(D, from, ObservedEnd(T) + DayLength)
      /\ ViewWindows(D, U) = ResolveWindows(D, from, ObservedEnd(U) + DayLength)
  BY DEF ViewWindows
<1> HIDE DEF from
<1>5. ASSUME NEW w, Contains(w, t) PROVE w \in ViewWindows(D, U) <=> w \in ViewWindows(D, T)
  BY <1>2, <1>3, <1>4, <1>5
<1> QED
  BY <1>5

----------------------------------------------------------------------------
\* Running sessions

LEMMA Largest ==
  ASSUME NEW S \in SUBSET Int, S # {}, NEW lo \in Int, NEW hi \in Int,
         \A x \in S : lo <= x /\ x <= hi
  PROVE  \E x \in S : \A y \in S : y <= x
<1> DEFINE above == {x - lo : x \in S}
           gap == hi - lo
<1>1. \A x \in S : x \in Int /\ x - lo \in Nat /\ x - lo <= gap /\ gap \in Nat
  OBVIOUS
<1>2. /\ \A y \in above : \E x \in S : y = x - lo
      /\ \A x \in S : x - lo \in above
  OBVIOUS
<1> HIDE DEF above, gap
<1>3. above \in SUBSET Nat /\ above # {} /\ gap \in Nat /\ \A y \in above : y <= gap
  BY <1>1, <1>2
<1>4. PICK a \in above : \A y \in above : y <= a
  BY <1>3, HasGreatest
<1>5. PICK x \in S : a = x - lo
  BY <1>2
<1>6. \A y \in S : y - lo <= x - lo
  BY <1>2, <1>4, <1>5
<1>7. \A y \in S : y <= x
  BY <1>1, <1>6
<1> QED
  BY <1>7

\* The first reading, or the old offset where there is none.
LEMMA ToUtcReads ==
  ASSUME NEW z \in ZoneType, NEW x \in Int
  PROVE  \/ /\ LocalTime(z, ToUtc(z, x)) = x
            /\ \A r \in Readings(z, x) : ToUtc(z, x) <= r
         \/ Readings(z, x) = {} /\ ToUtc(z, x) = x - z.before
<1>1. Readings(z, x) \subseteq {x - z.before, x - z.after}
  BY DEF Readings
<1>2. CASE Readings(z, x) = {}
  BY <1>2 DEF ToUtc
<1>3. CASE Readings(z, x) # {}
  <2>1. PICK a, b \in {x - z.before, x - z.after} : Readings(z, x) = {a, b}
    BY <1>1, <1>3
  <2>2. a \in Int /\ b \in Int
    BY DEF ZoneType
  <2>3. Min({a, b}) \in {a, b} /\ Min({a, b}) <= a /\ Min({a, b}) <= b
    <3>1. Min({a, b}) = (IF a <= b THEN a ELSE b)
      BY <2>2, TwoInts
    <3>2. CASE a <= b
      BY <2>2, <3>1, <3>2
    <3>3. CASE b < a
      BY <2>2, <3>1, <3>3
    <3> QED
      BY <2>2, <3>2, <3>3
  <2>4. ToUtc(z, x) = Min({a, b})
    BY <1>3, <2>1 DEF ToUtc
  <2>5. ToUtc(z, x) \in Readings(z, x)
    BY <2>1, <2>3, <2>4
  <2>6. LocalTime(z, ToUtc(z, x)) = x
    BY <2>5 DEF Readings
  <2> QED
    BY <2>1, <2>3, <2>4, <2>6
<1> QED
  BY <1>2, <1>3

\* A date is the stretch of local times from one midnight to the next.
LEMMA DateIs ==
  ASSUME NEW z \in ZoneType, NEW t \in Int
  PROVE  /\ LocalDate(z, t) \in Int /\ LocalDate(z, t) * DayLength \in Int
         /\ LocalTime(z, t) \in Int
         /\ LocalTime(z, t) = IF t < z.change THEN t + z.before ELSE t + z.after
         /\ LocalDate(z, t) * DayLength <= LocalTime(z, t)
         /\ LocalTime(z, t) < LocalDate(z, t) * DayLength + DayLength
<1> DEFINE here == LocalTime(z, t)
           q == here \div DayLength
<1>1. /\ z.before \in Int /\ z.after \in Int /\ z.change \in Int /\ DayLength \in Nat \ {0}
  BY TimeAssumption DEF ZoneType
<1>2. here = (IF t < z.change THEN t + z.before ELSE t + z.after) /\ here \in Int
  BY <1>1 DEF LocalTime
<1> HIDE DEF here
<1>3. /\ q \in Int /\ here = DayLength * q + (here % DayLength)
      /\ here % DayLength \in 0 .. DayLength - 1
  BY <1>1, <1>2
<1>4. DayLength * q = q * DayLength /\ q * DayLength \in Int
  BY <1>1, <1>3
<1>5. q * DayLength <= here /\ here < q * DayLength + DayLength
  <2> DEFINE m == here % DayLength
             p == q * DayLength
  <2>1. p \in Int /\ m \in Int /\ 0 <= m /\ m < DayLength /\ here = p + m
    BY <1>1, <1>3, <1>4
  <2> HIDE DEF m, p
  <2>2. p <= here /\ here < p + DayLength
    BY <1>1, <1>2, <2>1
  <2> QED
    BY <2>2 DEF p
<1> QED
  BY <1>2, <1>3, <1>4, <1>5 DEF LocalDate, here

\* The date two day lengths on is a later one.
LEMMA DatesAhead ==
  ASSUME NEW z \in ZoneType, ShortChange(z), NEW t \in Int
  PROVE  LocalDate(z, t) + 1 <= LocalDate(z, t + 2 * DayLength)
<1> DEFINE s == t + 2 * DayLength
           p == LocalDate(z, t)
           q == LocalDate(z, s)
<1>1. /\ z.before \in Int /\ z.after \in Int /\ z.before - z.after < DayLength
      /\ z.after - z.before < DayLength /\ DayLength \in Nat \ {0} /\ z.change \in Int
  BY TimeAssumption DEF ZoneType, ShortChange
<1>2. s \in Int
  BY <1>1
<1> HIDE DEF s
<1>3. /\ p \in Int /\ p * DayLength \in Int /\ LocalTime(z, t) \in Int
      /\ LocalTime(z, t) \in {t + z.before, t + z.after} /\ p * DayLength <= LocalTime(z, t)
  BY DateIs
<1>4. /\ q \in Int /\ q * DayLength \in Int /\ LocalTime(z, s) \in Int
      /\ LocalTime(z, s) \in {s + z.before, s + z.after}
      /\ LocalTime(z, s) < q * DayLength + DayLength
  BY <1>2, DateIs
<1> HIDE DEF p, q
<1>5. LocalTime(z, t) + DayLength < LocalTime(z, s)
  BY <1>1, <1>3, <1>4 DEF s
<1>6. p * DayLength < q * DayLength
  BY <1>1, <1>3, <1>4, <1>5
<1>7. p < q
  <2> SUFFICES ASSUME q <= p PROVE FALSE
    BY <1>3, <1>4
  <2>1. CASE q = p
    BY <1>3, <1>6, <2>1
  <2>2. CASE q < p
    <3>1. q * DayLength + DayLength <= p * DayLength
      BY <1>1, <1>3, <1>4, <2>2, Multiples
    <3> QED
      BY <1>1, <1>3, <1>4, <1>6, <3>1
  <2> QED
    BY <1>3, <1>4, <2>1, <2>2
<1> QED
  BY <1>3, <1>4, <1>7 DEF p, q, s

\* A window that ends after an instant is among the dates looked at for it.
LEMMA EndsLooked ==
  ASSUME NEW d, Resolvable(d), NEW day \in Int, EndsOnDate(d, day),
         NEW t \in Int, t < ResolveWindow(d, day).end
  PROVE  LocalDate(d.zone, t) - 1 <= day
<1> DEFINE z == d.zone
           e == ResolveWindow(d, day).end
           q == LocalDate(z, t)
<1>1. /\ z \in ZoneType /\ ShortChange(z) /\ d.end \in 0 .. DayLength - 1
      /\ z.before \in Int /\ z.after \in Int /\ z.change \in Int /\ DayLength \in Nat \ {0}
  BY TimeAssumption DEF Resolvable, ZoneType
<1>2. e \in Int
  BY WindowTypes
<1>3. CASE ~(d.end <= d.start)
  <2>1. e = ToUtc(z, day * DayLength + d.end)
    BY <1>3 DEF ResolveWindow
  <2>2. t <= ToUtc(z, day * DayLength + d.end)
    BY <1>2, <2>1
  <2> HIDE DEF e, z
  <2>3. LocalDate(z, t) - 1 <= day
    BY <1>1, <2>2, DatesNear
  <2> QED
    BY <2>3 DEF z
<1>4. CASE d.end <= d.start
  <2> DEFINE next == day + 1
             y == next * DayLength + d.end
  <2>1. e = ToUtc(z, y)
    BY <1>4 DEF ResolveWindow
  <2>2. next \in Int /\ next * DayLength \in Int /\ y \in Int
        /\ y < next * DayLength + DayLength
    BY <1>1
  <2>3. LocalDate(z, e) = next
    BY <1>4 DEF EndsOnDate
  <2> HIDE DEF e, next
  <2>4. /\ LocalTime(z, e) < next * DayLength + DayLength /\ LocalTime(z, e) \in Int
        /\ LocalTime(z, e) = IF e < z.change THEN e + z.before ELSE e + z.after
    BY <1>1, <1>2, <2>3, DateIs
  <2>5. /\ q \in Int /\ q * DayLength \in Int /\ q * DayLength <= LocalTime(z, t)
        /\ LocalTime(z, t) = IF t < z.change THEN t + z.before ELSE t + z.after
    BY <1>1, DateIs
  <2> HIDE DEF q, z, y
  <2>6. SUFFICES ASSUME next < q PROVE FALSE
    BY <2>5 DEF next, q, z
  <2>7. next * DayLength + DayLength <= q * DayLength
    BY <1>1, <2>2, <2>5, <2>6, Multiples
  <2>8. LocalTime(z, e) < LocalTime(z, t) /\ y < LocalTime(z, t) /\ t < e
    BY <1>1, <1>2, <2>2, <2>4, <2>5, <2>7 DEF e
  <2>9. t < z.change /\ z.change <= e
    BY <1>1, <1>2, <2>4, <2>5, <2>8
  <2>10. t + z.before > y
    BY <1>1, <2>5, <2>8, <2>9
  <2>11. CASE LocalTime(z, e) = y /\ \A r \in Readings(z, y) : e <= r
    <3> DEFINE r == y - z.before
    <3>1. r \in Int /\ r < t /\ r + z.before = y
      BY <1>1, <2>2, <2>10
    <3>2. LocalTime(z, r) = y
      BY <1>1, <2>9, <3>1 DEF LocalTime
    <3>3. r \in Readings(z, y)
      BY <3>2 DEF Readings
    <3> QED
      BY <1>2, <2>8, <2>11, <3>1, <3>3
  <2>12. CASE Readings(z, y) = {} /\ e = y - z.before
    BY <1>1, <1>2, <2>2, <2>8, <2>10, <2>12
  <2> QED
    BY <1>1, <2>1, <2>2, <2>11, <2>12, ToUtcReads
<1> QED
  BY <1>3, <1>4

\* A window that contains an instant is found from two days before it.
LEMMA HoldingAre ==
  ASSUME NEW D, \A d \in D : Resolvable(d), NEW t \in Int, NEW from \in Int, NEW to \in Int,
         from + 2 * DayLength <= t, t < to, NEW w, Contains(w, t)
  PROVE  w \in ResolveWindows(D, from, to) <=> \E d \in D : \E day \in Int : w = ResolveWindow(d, day)
<1>1. ASSUME NEW d \in D, NEW day \in Int, w = ResolveWindow(d, day)
      PROVE  w \in ResolveWindows(D, from, to)
  <2> DEFINE z == d.zone
             k == IF d.end <= d.start THEN day + 1 ELSE day
             s == from + 2 * DayLength
  <2>1. /\ z \in ZoneType /\ ShortChange(z) /\ d.end \in 0 .. DayLength - 1 /\ DayLength \in Nat \ {0}
    BY TimeAssumption DEF Resolvable
  <2>2. w.start \in Int /\ w.end \in Int
    BY <1>1, WindowTypes
  <2>3. w.start <= t /\ t < w.end
    BY DEF Contains
  <2>4. w.end = ToUtc(z, k * DayLength + d.end) /\ k \in Int /\ k <= day + 1
    BY <1>1 DEF ResolveWindow
  <2>5. s \in Int /\ s <= w.end
    BY <2>1, <2>2, <2>3
  <2> HIDE DEF k, s
  <2>6. LocalDate(z, s) - 1 <= k
    BY <2>1, <2>4, <2>5, DatesNear
  <2>7. LocalDate(z, from) + 1 <= LocalDate(z, s) /\ LocalDate(z, from) \in Int
        /\ LocalDate(z, s) \in Int
    BY <2>1, <2>5, DatesAhead, DateIs DEF s
  <2>8. LocalDate(z, to) \in Int /\ day <= LocalDate(z, to) + 1
    BY <1>1, <2>2, <2>3, InReach
  <2> HIDE DEF z
  <2>9. day \in LocalDate(z, from) - 1 .. LocalDate(z, to) + 1
    BY <2>4, <2>6, <2>7, <2>8
  <2>10. w.end > from /\ w.start < to
    BY <2>1, <2>2, <2>3
  <2> QED
    BY <1>1, <2>9, <2>10, ResolvedAre DEF z
<1> QED
  BY <1>1, WindowsResolved

\* Names tell the definitions apart.
Named(D) ==
  /\ \A d \in D : Resolvable(d)
  /\ \A d, e \in D : d.name = e.name => d = e

\* Of the windows of one session there is one that started last.
LEMMA CurrentIs ==
  ASSUME NEW D, Named(D), NEW from \in Int, NEW to \in Int,
         NEW W, W \subseteq ResolveWindows(D, from, to), NEW v \in W
  PROVE  LET c == Current(W, v.name)
         IN  /\ c \in W /\ c.name = v.name
             /\ \A u \in W : u.name = v.name => u.start <= c.start
<1>1. PICK d \in D : \E day \in LocalDate(d.zone, from) - 1 .. LocalDate(d.zone, to) + 1 :
                       v = ResolveWindow(d, day)
  BY ResolvedAre
<1> DEFINE lo == LocalDate(d.zone, from) - 1
           hi == LocalDate(d.zone, to) + 1
           days == {day \in lo .. hi : ResolveWindow(d, day) \in W}
<1>2. Resolvable(d) /\ d.zone \in ZoneType
  BY DEF Named, Resolvable
<1>3. lo \in Int /\ hi \in Int
  BY <1>2, DateIs
<1>4. v.name = d.name
  BY <1>1 DEF ResolveWindow
<1>5. ASSUME NEW u \in W, u.name = v.name PROVE \E day \in days : u = ResolveWindow(d, day)
  <2>1. PICK e \in D : \E day \in LocalDate(e.zone, from) - 1 .. LocalDate(e.zone, to) + 1 :
                         u = ResolveWindow(e, day)
    BY ResolvedAre
  <2>2. u.name = e.name
    BY <2>1 DEF ResolveWindow
  <2>3. e = d
    BY <1>4, <1>5, <2>2 DEF Named
  <2> QED
    BY <2>1, <2>3
<1>6. days # {}
  BY <1>5
<1>7. days \in SUBSET Int /\ \A day \in days : lo <= day /\ day <= hi
  BY <1>3
<1>8. \A day \in days : ResolveWindow(d, day) \in W
  OBVIOUS
<1> HIDE DEF days, lo, hi
<1>9. PICK m \in days : \A day \in days : day <= m
  BY <1>3, <1>6, <1>7, Largest
<1> DEFINE c == ResolveWindow(d, m)
<1>10. c \in W /\ c.name = v.name
  BY <1>4, <1>8 DEF ResolveWindow
<1>11. ASSUME NEW u \in W, u.name = v.name PROVE u.start <= c.start
  <2>1. PICK day \in days : u = ResolveWindow(d, day)
    BY <1>5, <1>11
  <2>2. day \in Int /\ m \in Int /\ day <= m
    BY <1>7, <1>9
  <2>3. u.start \in Int /\ c.start \in Int
    BY <1>2, <2>1, <2>2, WindowTypes
  <2>4. CASE day = m
    BY <2>1, <2>3, <2>4
  <2>5. CASE day < m
    <3>1. u.start < c.start
      BY <1>2, <2>1, <2>2, <2>5, DaysInOrder
    <3> QED
      BY <2>3, <3>1
  <2> QED
    BY <2>2, <2>4, <2>5
<1> HIDE DEF c
<1> QED
  BY <1>10, <1>11 DEF Current

\* A session that has begun has a window that the look back of two days finds.
LEMMA BegunLater ==
  ASSUME NEW D, NEW d \in D, Resolvable(d), NEW day \in Int, NEW t \in Int,
         ResolveWindow(d, day).start <= t
  PROVE  \E p \in Int : /\ day <= p /\ ResolveWindow(d, p).start <= t
                        /\ ResolveWindow(d, p)
                             \in ResolveWindows(D, t - 2 * DayLength, t + DayLength)
<1> DEFINE z == d.zone
           begun == {p \in Int : day <= p /\ ResolveWindow(d, p).start <= t}
           hi == LocalDate(z, t) + 1
           from == t - 2 * DayLength
           to == t + DayLength
<1>1. /\ z \in ZoneType /\ ShortChange(z) /\ z.before \in Int /\ z.after \in Int
      /\ z.before - z.after < DayLength /\ z.after - z.before < DayLength
      /\ DayLength \in Nat \ {0} /\ d.start \in 0 .. DayLength - 1 /\ d.end \in 0 .. DayLength - 1
      /\ from \in Int /\ to \in Int
  BY TimeAssumption DEF Resolvable, ZoneType, ShortChange
<1>2. hi \in Int
  BY <1>1, DateIs
<1>3. \A p \in Int : ResolveWindow(d, p).start = ToUtc(z, p * DayLength + d.start)
  BY DEF ResolveWindow
<1> HIDE DEF hi, z, from, to
<1>4. \A p \in begun : p <= hi
  <2> SUFFICES ASSUME NEW p \in begun PROVE p <= hi
    OBVIOUS
  <2>1. p \in Int /\ ToUtc(z, p * DayLength + d.start) <= t
    BY <1>3
  <2> QED
    BY <1>1, <2>1, DatesNear DEF hi
<1>5. day \in begun /\ begun \in SUBSET Int /\ \A p \in begun : day <= p
  OBVIOUS
<1>6. \A p \in Int : p \in begun <=> day <= p /\ ResolveWindow(d, p).start <= t
  OBVIOUS
<1> HIDE DEF begun
<1>7. PICK p \in begun : \A q \in begun : q <= p
  BY <1>2, <1>4, <1>5, Largest
<1>8. p \in Int /\ day <= p /\ ResolveWindow(d, p).start <= t
  BY <1>5, <1>6, <1>7
<1>9. p + 1 \in Int /\ p + 1 \notin begun
  BY <1>7, <1>8
<1> DEFINE w == ResolveWindow(d, p)
           v == ResolveWindow(d, p + 1)
           x == p * DayLength + d.start
           y == (IF d.end <= d.start THEN p + 1 ELSE p) * DayLength + d.end
<1>10. ~(v.start <= t)
  BY <1>6, <1>8, <1>9
<1>11. /\ x \in Int /\ y \in Int /\ x < y /\ p * DayLength \in Int
       /\ (p + 1) * DayLength + d.start = x + DayLength
  <2>1. (p + 1) * DayLength = p * DayLength + DayLength /\ p * DayLength \in Int
    BY <1>1, <1>8
  <2> QED
    BY <1>1, <2>1
<1>12. w.end = ToUtc(z, y) /\ w.start = ToUtc(z, x) /\ v.start = ToUtc(z, x + DayLength)
  BY <1>3, <1>8, <1>9, <1>11 DEF ResolveWindow, z
<1> HIDE DEF x, y
<1>13. /\ w.end \in {y - z.before, y - z.after} /\ w.start \in {x - z.before, x - z.after}
       /\ v.start \in {x + DayLength - z.before, x + DayLength - z.after}
  <2>1. x + DayLength \in Int
    BY <1>1, <1>11
  <2> QED
    BY <1>1, <1>11, <1>12, <2>1, ToUtcIs
<1> HIDE DEF v
<1>14. /\ w.start \in Int /\ w.start <= t
  BY <1>1, <1>8, <1>11, <1>13
<1> HIDE DEF w
<1>15. w.end > from /\ w.start < to /\ from <= w.start /\ w.start <= to
  BY <1>1, <1>10, <1>11, <1>13, <1>14 DEF from, to
<1>16. w.start = ToUtc(z, p * DayLength + d.start)
  BY <1>12 DEF x
<1>17. p \in LocalDate(z, from) - 1 .. LocalDate(z, to) + 1
  <2>1. LocalDate(z, from) - 1 <= p /\ p <= LocalDate(z, to) + 1
    BY <1>1, <1>8, <1>15, <1>16, DatesNear
  <2>2. LocalDate(z, from) \in Int /\ LocalDate(z, to) \in Int
    BY <1>1, DateIs
  <2> QED
    BY <1>8, <2>1, <2>2
<1>18. w \in ResolveWindows(D, from, to)
  BY <1>15, <1>17, ResolvedAre DEF w, z
<1> QED
  BY <1>8, <1>18 DEF w, from, to

\* The bars of a window say the same in a frame that ends with them.
LEMMA KnownSummary ==
  ASSUME NEW F, NEW T, NEW G, NEW U, NEW n, Begins(F, T, G, U, n),
         NEW S \in SUBSET (1 .. n), S # {}
  PROVE  Summary(G, S) = Summary(F, S)
<1>1. n \in Nat /\ S \in SUBSET Nat /\ \A i \in S : i <= n
  BY DEF Begins
<1>2. Min(S) \in S /\ Max(S) \in S
  BY <1>1, MinMax
<1>3. G[Min(S)] = F[Min(S)] /\ G[Max(S)] = F[Max(S)]
  BY <1>2 DEF Begins
<1>4. \A d \in Directions : Furthest(G, d, S) = Furthest(F, d, S)
  BY KnownFurthest
<1>5. [d \in Directions |-> Furthest(G, d, S)] = [d \in Directions |-> Furthest(F, d, S)]
  BY <1>4
<1> QED
  BY <1>3, <1>5 DEF Summary

\* The windows session_state_at chooses from, and the bars it counts to one.
Begun(D, t) ==
  {w \in ResolveWindows(D, t - 2 * DayLength, t + DayLength) : w.start <= t \/ w.end <= t}

BegunNames(D, t) == {w.name : w \in Begun(D, t)}

SeenIn(T, w, t) == {i \in Members(T, w) : CloseTime(T, i) <= t}

LEMMA StatesAre ==
  ASSUME NEW F, NEW T, NEW D, NEW t
  PROVE  DOMAIN SessionStateAt(F, T, D, t) = BegunNames(D, t)
BY DEF SessionStateAt, Begun, BegunNames

StateIn(F, T, D, t, n) ==
  LET w == Current(Begun(D, t), n)
  IN  [window |-> w,
       summary |-> IF SeenIn(T, w, t) = {} THEN {} ELSE {Summary(F, SeenIn(T, w, t))},
       active |-> Contains(w, t), complete |-> t >= w.end]

LEMMA StateIs ==
  ASSUME NEW F, NEW T, NEW D, NEW t, NEW n \in BegunNames(D, t)
  PROVE  SessionStateAt(F, T, D, t)[n] = StateIn(F, T, D, t, n)
<1>1. SessionStateAt(F, T, D, t) = [m \in BegunNames(D, t) |-> StateIn(F, T, D, t, m)]
  BY DEF SessionStateAt, Begun, BegunNames, SeenIn, StateIn
<1> QED
  BY <1>1

\* The state of a session that has begun is the window it started last.
LEMMA StateOf ==
  ASSUME NEW F, NEW T, NEW D, Named(D), NEW t \in Int, NEW n \in DOMAIN SessionStateAt(F, T, D, t)
  PROVE  LET c == Current(Begun(D, t), n)
         IN  /\ c \in Begun(D, t) /\ c.name = n
             /\ \A u \in Begun(D, t) : u.name = n => u.start <= c.start
<1>1. PICK v \in Begun(D, t) : n = v.name
  <2>1. n \in BegunNames(D, t)
    BY StatesAre
  <2> QED
    BY <2>1 DEF BegunNames
<1>2. t - 2 * DayLength \in Int /\ t + DayLength \in Int
  BY TimeAssumption
<1>3. Begun(D, t) \subseteq ResolveWindows(D, t - 2 * DayLength, t + DayLength)
  BY DEF Begun
<1> QED
  BY <1>1, <1>2, <1>3, CurrentIs

\* The bars of the frame that a window has by then are those known by then.
LEMMA KnownMembers ==
  ASSUME NEW F, NEW T, NEW G, NEW U, NEW n, Begins(F, T, G, U, n), NEW w
  PROVE  SeenIn(T, w, CloseTime(T, n)) = Members(U, w) /\ Members(U, w) \in SUBSET (1 .. n)
<1>1. /\ n \in 1 .. Len(F) /\ DOMAIN T = 1 .. Len(F) /\ DOMAIN U = 1 .. n /\ Len(F) \in Nat
      /\ \A i \in 1 .. n : i \in 1 .. Len(F)
  BY DEF Begins
<1>2. \A i \in 1 .. Len(F) : CloseTime(T, i) <= CloseTime(T, n) <=> i \in 1 .. n
  BY <1>1 DEF Begins
<1>3. \A i \in 1 .. n : U[i] = T[i] /\ CloseTime(U, i) = CloseTime(T, i)
  BY DEF Begins
<1>4. \A i : i \in SeenIn(T, w, CloseTime(T, n)) <=> i \in Members(U, w)
  BY <1>1, <1>2, <1>3 DEF SeenIn, Members
<1> QED
  BY <1>1, <1>4 DEF Members

\* The instants of a frame and of what is known of it by the close of bar n.
LEMMA KnownTimes ==
  ASSUME NEW F, NEW T, NEW G, NEW U, NEW n, Begins(F, T, G, U, n)
  PROVE  /\ T[1] \in Int /\ U[1] = T[1] /\ CloseTime(T, n) \in Int /\ T[1] < CloseTime(T, n)
         /\ ObservedEnd(U) = CloseTime(T, n)
         /\ ObservedEnd(T) \in Int /\ CloseTime(T, n) <= ObservedEnd(T)
<1>1. /\ n \in 1 .. n /\ n \in 1 .. Len(F) /\ 1 \in 1 .. n /\ 1 \in 1 .. Len(F)
      /\ Len(F) \in 1 .. Len(F) /\ n <= Len(F) /\ 1 <= n
  BY DEF Begins
<1>2. CloseTime(T, 1) <= CloseTime(T, n) /\ CloseTime(T, n) <= CloseTime(T, Len(F))
  BY <1>1 DEF Begins
<1>3. T[1] \in Int /\ CloseTime(T, 1) \in Int /\ T[1] < CloseTime(T, 1) /\ CloseTime(T, n) \in Int
  BY <1>1 DEF Begins
<1>4. CloseTime(U, n) = CloseTime(T, n) /\ U[1] = T[1] /\ Len(U) = n /\ Len(T) = Len(F)
      /\ CloseTime(T, Len(F)) \in Int
  BY <1>1 DEF Begins
<1> QED
  BY <1>2, <1>3, <1>4 DEF ObservedEnd

\* A window that is over with bars of its own is among those the frame resolves.
LEMMA OverOccurred ==
  ASSUME NEW F, NEW T, NEW G, NEW U, NEW n, Begins(F, T, G, U, n), NEW D, Named(D),
         \A d \in D : \A day \in Int : EndsOnDate(d, day),
         NEW d \in D, NEW day \in Int, NEW w, w = ResolveWindow(d, day),
         w.end <= CloseTime(T, n), Members(U, w) # {}
  PROVE  w \in Occurred(D, U)
<1> DEFINE t == CloseTime(T, n)
<1>1. /\ U[1] \in Int /\ t \in Int /\ U[1] < t /\ ObservedEnd(U) = t
  BY KnownTimes
<1>2. Resolvable(d) /\ d.zone \in ZoneType /\ w.start \in Int /\ w.end \in Int
  BY WindowTypes DEF Named, Resolvable
<1>3. PICK i \in Members(U, w) : TRUE
  OBVIOUS
<1>4. i \in 1 .. n /\ w.start <= U[i] /\ CloseTime(U, i) <= w.end
  BY KnownMembers DEF Members
<1>5. U[1] <= U[i] /\ U[i] \in Int /\ CloseTime(U, i) \in Int /\ U[i] < CloseTime(U, i)
  <2>1. i \in 1 .. Len(F) /\ 1 \in 1 .. Len(F) /\ 1 <= i /\ 1 \in 1 .. n
    BY <1>4 DEF Begins
  <2>2. U[i] = T[i] /\ U[1] = T[1] /\ CloseTime(U, i) = CloseTime(T, i)
    BY <1>4, <2>1 DEF Begins
  <2>3. CloseTime(T, 1) <= CloseTime(T, i) /\ T[i] \in Int /\ T[1] \in Int
    BY <2>1 DEF Begins
  <2>4. CloseTime(T, 1) = T[1] + Duration /\ CloseTime(T, i) = T[i] + Duration /\ Duration \in Nat \ {0}
    BY TimeAssumption DEF CloseTime
  <2> QED
    BY <2>2, <2>3, <2>4
<1>6. U[1] < w.end /\ w.start < t
  BY <1>1, <1>2, <1>4, <1>5
<1>7. LocalDate(d.zone, U[1]) - 1 <= day
  BY <1>1, <1>2, <1>6, EndsLooked
<1>8. LocalDate(d.zone, t) \in Int /\ day <= LocalDate(d.zone, t) + 1
  <2> HIDE DEF t
  <2> QED
    BY <1>1, <1>2, <1>6, InReach
<1>9. LocalDate(d.zone, U[1]) \in Int
  BY <1>1, <1>2, DateIs
<1> HIDE DEF t
<1>10. day \in LocalDate(d.zone, U[1]) - 1 .. LocalDate(d.zone, t) + 1
  BY <1>7, <1>8, <1>9
<1>11. w \in WindowsFor(D, U)
  BY <1>1, <1>2, <1>6, <1>10, ResolvedAre DEF WindowsFor
<1>12. Complete(U, w)
  BY <1>1, <1>2 DEF Complete, t
<1> QED
  BY <1>11, <1>12 DEF Occurred

\* A running session is a completed occurrence from its end on, if it has bars.
LEMMA RunningIsOccurred ==
  ASSUME NEW F, NEW T, NEW G, NEW U, NEW n, Begins(F, T, G, U, n), NEW D, Named(D),
         \A d \in D : \A day \in Int : EndsOnDate(d, day),
         NEW name \in DOMAIN SessionStateAt(F, T, D, CloseTime(T, n))
  PROVE  LET s == SessionStateAt(F, T, D, CloseTime(T, n))[name]
         IN  IF s.complete /\ s.summary # {}
             THEN s.window \in Occurred(D, U) /\ s.summary = {Summary(G, Members(U, s.window))}
             ELSE s.window \notin Occurred(D, U)
<1> DEFINE t == CloseTime(T, n)
           s == SessionStateAt(F, T, D, t)[name]
           c == Current(Begun(D, t), name)
           S == Members(U, c)
<1>1. t \in Int /\ ObservedEnd(U) = t
  BY KnownTimes
<1>2. name \in BegunNames(D, t)
  BY StatesAre
<1>3. /\ s.window = c /\ s.complete = (t >= c.end)
      /\ s.summary = IF SeenIn(T, c, t) = {} THEN {} ELSE {Summary(F, SeenIn(T, c, t))}
  <2>1. s = StateIn(F, T, D, t, name)
    BY <1>2, StateIs
  <2> QED
    BY <2>1 DEF StateIn
<1>4. c \in Begun(D, t)
  BY <1>1, StateOf
<1>5. SeenIn(T, c, t) = S /\ S \in SUBSET (1 .. n)
  BY KnownMembers
<1>6. PICK d \in D : \E day \in Int : c = ResolveWindow(d, day)
  <2>1. c \in ResolveWindows(D, t - 2 * DayLength, t + DayLength)
    BY <1>4 DEF Begun
  <2> QED
    BY <2>1, WindowsResolved
<1>7. PICK day \in Int : c = ResolveWindow(d, day)
  BY <1>6
<1>8. c.end \in Int
  BY <1>7, WindowTypes DEF Named
<1> HIDE DEF c, S
<1>9. ASSUME t >= c.end, S # {} PROVE c \in Occurred(D, U) /\ s.summary = {Summary(G, S)}
  <2>1. c \in Occurred(D, U)
    BY <1>1, <1>7, <1>8, <1>9, OverOccurred DEF S
  <2>2. Summary(G, S) = Summary(F, S)
    BY <1>5, <1>9, KnownSummary
  <2> QED
    BY <1>3, <1>5, <1>9, <2>1, <2>2
<1>10. ASSUME c \in Occurred(D, U) PROVE t >= c.end /\ S # {}
  BY <1>1, <1>10, <1>8 DEF Occurred, Complete, S
<1> HIDE DEF s, t
<1>11. s.summary # {} <=> S # {}
  BY <1>3, <1>5
<1>12. IF s.complete /\ s.summary # {}
       THEN s.window \in Occurred(D, U) /\ s.summary = {Summary(G, Members(U, s.window))}
       ELSE s.window \notin Occurred(D, U)
  BY <1>3, <1>9, <1>10, <1>11 DEF S
<1> QED
  BY <1>12 DEF s, t

\* Every session that occurred has begun, and no later than its state says.
LEMMA OccurredHasBegun ==
  ASSUME NEW F, NEW T, NEW G, NEW U, NEW n, Begins(F, T, G, U, n), NEW D, Named(D),
         NEW w \in Occurred(D, U)
  PROVE  LET states == SessionStateAt(F, T, D, CloseTime(T, n))
         IN  w.name \in DOMAIN states /\ w.start <= states[w.name].window.start
<1> DEFINE t == CloseTime(T, n)
           states == SessionStateAt(F, T, D, t)
<1>1. t \in Int /\ ObservedEnd(U) = t
  BY KnownTimes
<1>2. w \in ResolveWindows(D, U[1], t)
  BY <1>1 DEF Occurred, WindowsFor
<1>3. PICK d \in D : \E day \in Int : w = ResolveWindow(d, day)
  BY <1>2, WindowsResolved
<1>4. PICK day \in Int : w = ResolveWindow(d, day)
  BY <1>3
<1>5. Resolvable(d) /\ w.start \in Int
  BY <1>4, WindowTypes DEF Named
<1>6. w.start <= t
  <2>1. w.start < t
    BY <1>2, ResolvedAre
  <2> QED
    BY <1>1, <1>5, <2>1
<1> HIDE DEF t
<1>7. PICK p \in Int : /\ day <= p /\ ResolveWindow(d, p).start <= t
                       /\ ResolveWindow(d, p) \in ResolveWindows(D, t - 2 * DayLength, t + DayLength)
  BY <1>1, <1>4, <1>5, <1>6, BegunLater
<1> DEFINE v == ResolveWindow(d, p)
<1>8. v \in Begun(D, t) /\ v.name = w.name
  BY <1>4, <1>7 DEF Begun, ResolveWindow
<1>9. v.start \in Int /\ w.start <= v.start
  <2>1. v.start \in Int
    BY <1>5, WindowTypes
  <2>2. day < p => w.start < v.start
    BY <1>4, <1>5, DaysInOrder
  <2> QED
    BY <1>4, <1>5, <1>7, <2>1, <2>2
<1> HIDE DEF v, states
<1>10. w.name \in BegunNames(D, t) /\ BegunNames(D, t) = DOMAIN states
  <2>1. BegunNames(D, t) = DOMAIN states
    BY StatesAre DEF states
  <2>2. w.name \in BegunNames(D, t)
    BY <1>8 DEF BegunNames
  <2> QED
    BY <2>1, <2>2
<1> DEFINE c == Current(Begun(D, t), w.name)
<1>11. /\ states[w.name].window = c /\ c \in Begun(D, t) /\ v.start <= c.start
  <2>1. states[w.name].window = c
    <3>1. states[w.name] = StateIn(F, T, D, t, w.name)
      BY <1>10, StateIs DEF states
    <3> QED
      BY <3>1 DEF StateIn
  <2>2. w.name \in DOMAIN SessionStateAt(F, T, D, t)
    BY <1>10 DEF states
  <2>3. c \in Begun(D, t) /\ \A u \in Begun(D, t) : u.name = w.name => u.start <= c.start
    BY <1>1, <2>2, StateOf
  <2> QED
    BY <1>8, <2>1, <2>3
<1>12. c.start \in Int
  <2>1. c \in ResolveWindows(D, t - 2 * DayLength, t + DayLength)
    BY <1>11 DEF Begun
  <2> QED
    BY <2>1, WindowsResolved, WindowTypes DEF Named
<1> HIDE DEF c
<1>13. w.name \in DOMAIN states /\ w.start <= states[w.name].window.start
  BY <1>5, <1>9, <1>10, <1>11, <1>12
<1> QED
  BY <1>13 DEF states, t

\* The sessions whose state is active are those with a window that contains t.
LEMMA ActiveAre ==
  ASSUME NEW F, NEW T, NEW D, Named(D), NEW t \in Int
  PROVE  {n \in DOMAIN SessionStateAt(F, T, D, t) : SessionStateAt(F, T, D, t)[n].active}
           = ActiveSessionsAt(D, t)
<1> DEFINE states == SessionStateAt(F, T, D, t)
           from == t - 2 * DayLength
           to == t + DayLength
<1>1. /\ DOMAIN states = BegunNames(D, t)
      /\ \A n \in DOMAIN states : states[n].active = Contains(Current(Begun(D, t), n), t)
  <2>1. DOMAIN states = BegunNames(D, t)
    BY StatesAre
  <2>2. ASSUME NEW n \in BegunNames(D, t)
        PROVE  SessionStateAt(F, T, D, t)[n].active = Contains(Current(Begun(D, t), n), t)
    <3>1. SessionStateAt(F, T, D, t)[n] = StateIn(F, T, D, t, n)
      BY StateIs
    <3> QED
      BY <3>1 DEF StateIn
  <2> QED
    BY <2>1, <2>2
<1>2. \A n \in DOMAIN states :
        LET c == Current(Begun(D, t), n)
        IN  /\ c \in Begun(D, t) /\ c.name = n
            /\ \A u \in Begun(D, t) : u.name = n => u.start <= c.start
  BY StateOf
<1>3. \A n : n \in ActiveSessionsAt(D, t)
               <=> \E w \in ResolveWindows(D, from, to) : Contains(w, t) /\ n = w.name
  BY DEF ActiveSessionsAt
<1>4. \A w \in Begun(D, t) : /\ w \in ResolveWindows(D, from, to) /\ (w.start <= t \/ w.end <= t)
                             /\ \E d \in D : \E day \in Int : w = ResolveWindow(d, day)
  BY WindowsResolved DEF Begun
<1>5. \A w \in ResolveWindows(D, from, to) : w.start <= t => w \in Begun(D, t) /\ w.name \in BegunNames(D, t)
  BY DEF Begun, BegunNames
<1> HIDE DEF states, from, to
<1>6. ASSUME NEW n \in DOMAIN states, states[n].active PROVE n \in ActiveSessionsAt(D, t)
  BY <1>1, <1>2, <1>3, <1>4, <1>6
<1>7. ASSUME NEW n \in ActiveSessionsAt(D, t) PROVE n \in DOMAIN states /\ states[n].active
  <2>1. PICK w \in ResolveWindows(D, from, to) : Contains(w, t) /\ n = w.name
    BY <1>3
  <2>2. w \in Begun(D, t) /\ n \in DOMAIN states
    BY <1>1, <1>5, <2>1 DEF Contains
  <2> DEFINE c == Current(Begun(D, t), n)
  <2>3. c \in Begun(D, t) /\ c.name = n /\ w.start <= c.start
    BY <1>2, <2>1, <2>2
  <2> HIDE DEF c
  <2>4. PICK d \in D : \E day \in Int : w = ResolveWindow(d, day)
    BY <1>4, <2>2
  <2>5. PICK p \in Int : w = ResolveWindow(d, p)
    BY <2>4
  <2>6. PICK e \in D : \E day \in Int : c = ResolveWindow(e, day)
    BY <1>4, <2>3
  <2>7. PICK q \in Int : c = ResolveWindow(e, q)
    BY <2>6
  <2>8. e.name = n /\ d.name = n
    BY <2>1, <2>3, <2>5, <2>7 DEF ResolveWindow
  <2>9. e = d /\ Resolvable(d)
    BY <2>8 DEF Named
  <2>10. w.start \in Int /\ w.end \in Int /\ c.start \in Int /\ c.end \in Int
    BY <2>5, <2>7, <2>9, WindowTypes
  <2>11. ~(q < p)
    <3> SUFFICES ASSUME q < p PROVE FALSE
      OBVIOUS
    <3>1. c.start < w.start
      BY <2>5, <2>7, <2>9, DaysInOrder
    <3> QED
      BY <2>3, <2>10, <3>1
  <2>12. w.end <= c.end
    <3>1. CASE p < q
      <4>1. w.end < c.end
        BY <2>5, <2>7, <2>9, <3>1, DaysInOrder
      <4> QED
        BY <2>10, <4>1
    <3>2. CASE p = q
      BY <2>5, <2>7, <2>9, <2>10, <3>2
    <3> QED
      BY <2>11, <3>1, <3>2
  <2>13. w.start <= t /\ t < w.end
    BY <2>1 DEF Contains
  <2>14. t < c.end
    BY <2>10, <2>12, <2>13
  <2>15. c.start <= t
    BY <1>4, <2>3, <2>10, <2>14
  <2>16. Contains(c, t)
    BY <2>14, <2>15 DEF Contains
  <2> QED
    BY <1>1, <2>2, <2>16 DEF c
<1>8. \A n : n \in {m \in DOMAIN states : states[m].active} <=> n \in ActiveSessionsAt(D, t)
  BY <1>6, <1>7
<1> QED
  BY <1>8 DEF states

\* The windows a view resolves once name the same sessions.
LEMMA ActiveInView ==
  ASSUME NEW D, \A d \in D : Resolvable(d), NEW T, NEW t \in Int, T[1] \in Int, T[1] <= t,
         ObservedEnd(T) \in Int, t <= ObservedEnd(T)
  PROVE  ActiveSessionsAt(D, t) = {w.name : w \in {w \in ViewWindows(D, T) : Contains(w, t)}}
<1> DEFINE from == t - 2 * DayLength
           to == t + DayLength
           first == T[1] - 2 * DayLength
           last == ObservedEnd(T) + DayLength
<1>1. /\ from \in Int /\ to \in Int /\ first \in Int /\ last \in Int
      /\ from + 2 * DayLength <= t /\ t < to /\ first + 2 * DayLength <= t /\ t < last
  BY TimeAssumption
<1>2. /\ ActiveSessionsAt(D, t) = {w.name : w \in {w \in ResolveWindows(D, from, to) : Contains(w, t)}}
      /\ ViewWindows(D, T) = ResolveWindows(D, first, last)
  BY DEF ActiveSessionsAt, ViewWindows
<1> HIDE DEF from, to, first, last
<1>3. ASSUME NEW w, Contains(w, t)
      PROVE  w \in ResolveWindows(D, from, to) <=> w \in ResolveWindows(D, first, last)
  BY <1>1, <1>3, HoldingAre
<1>4. {w \in ResolveWindows(D, from, to) : Contains(w, t)} = {w \in ViewWindows(D, T) : Contains(w, t)}
  BY <1>2, <1>3
<1> QED
  BY <1>2, <1>4

\* At the close of every bar session_state_at and detect agree: a running session is the
\* completed occurrence from its end on, and never before, if it has bars; and what is
\* running is what active_sessions_at and the view of a market state name.  Overnight
\* sessions are to be over on the date they end on: resolve_windows looks back one date.
THEOREM RunningMeetsCompletedHolds ==
  ASSUME \A d \in Definitions : \A day \in Int : EndsOnDate(d, day)
  PROVE  Spec => []RunningMeetsCompleted
<1>1. LiquidityInv => RunningMeetsCompleted
  <2> SUFFICES ASSUME LiquidityInv, index > 0 PROVE RunningMeetsCompleted
    BY DEF RunningMeetsCompleted
  <2> DEFINE t == CloseTime(opens, index)
             states == SessionStateAt(frame, opens, Definitions, t)
             occurred == Occurred(Definitions, SeenTimes)
  <2>1. Given(frame, opens, config) /\ index \in 1 .. Len(frame)
    BY DEF LiquidityInv, Types, Given
  <2>2. Begins(frame, opens, Seen, SeenTimes, index)
    BY <2>1, KnownFrame DEF Seen, SeenTimes
  <2>3. Named(Definitions)
    BY CalendarAssumption DEF Named, Resolvable, DefinitionType
  <2>4. \A n \in DOMAIN states :
          LET w == states[n].window
          IN  IF states[n].complete /\ states[n].summary # {}
              THEN w \in occurred /\ states[n].summary = {Summary(Seen, Members(SeenTimes, w))}
              ELSE w \notin occurred
    BY <2>2, <2>3, RunningIsOccurred
  <2>5. \A w \in occurred : w.name \in DOMAIN states /\ w.start <= states[w.name].window.start
    BY <2>2, <2>3, OccurredHasBegun
  <2>6. /\ t \in Int /\ opens[1] \in Int /\ opens[1] <= t /\ ObservedEnd(opens) \in Int
        /\ t <= ObservedEnd(opens)
    BY <2>2, KnownTimes
  <2>7. {n \in DOMAIN states : states[n].active} = ActiveSessionsAt(Definitions, t)
    BY <2>3, <2>6, ActiveAre
  <2>8. ActiveSessionsAt(Definitions, t) =
          {w.name : w \in {w \in ViewWindows(Definitions, opens) : Contains(w, t)}}
    BY <2>3, <2>6, ActiveInView DEF Named
  <2> HIDE DEF t, states, occurred
  <2> QED
    BY <2>4, <2>5, <2>7, <2>8 DEF RunningMeetsCompleted, t, states, occurred
<1> QED
  BY <1>1, InvHolds, PTL
=============================================================================
