----------------------------- MODULE Liquidity ------------------------------
(***************************************************************************)
(* LiquidityDetector.analyse (ict/liquidity.py): the levels are built from *)
(* the whole frame, then one walk over its bars admits the levels that     *)
(* have become observable and marks them approached or swept.              *)
(***************************************************************************)
EXTENDS LiquidityLevels

CONSTANTS
  OpenTimes,     \* bound: when the bars of a frame may open
  MaxBars        \* bound: the longest frame considered

ASSUME BoundsAssumption == OpenTimes \subseteq Nat /\ MaxBars \in Nat

VARIABLES
  frame, opens,  \* the bars handed to analyse and when each opened
  config,
  levels,        \* built before the walk
  index,         \* bars already processed
  status,        \* per level: pending, active, approached, swept
  active,        \* the observable, unswept levels
  approached,    \* per level: the bar that first came near it, or None
  sweeps         \* the sweep records

vars == <<frame, opens, config, levels, index, status, active, approached, sweeps>>

Increasing(T) == \A i, k \in DOMAIN T : i < k => T[i] + Duration <= T[k]

Init ==
  /\ \E n \in 0 .. MaxBars :
       /\ opens \in {T \in [1 .. n -> OpenTimes] : Increasing(T)}
       /\ frame \in [1 .. n -> Bars]
  /\ config \in Configs
  /\ levels = LevelsOf(frame, opens, config)
  /\ index = 0
  /\ status = [l \in levels |-> "pending"]
  /\ active = {}
  /\ approached = [l \in levels |-> None]
  /\ sweeps = {}

----------------------------------------------------------------------------
Observable(l, k) == l.confirmed <= CloseTime(opens, k)

\* A mutant: every level is admitted with the first bar.
AdmittedAtOnce(j) == {l \in levels : status[l] = "pending"}

\* The levels that become observable by the close of bar j.
Admitted(j) == {l \in levels : status[l] = "pending" /\ Observable(l, j)}

\* The extreme of bar j lies beyond the level.
Exceeded(l, j) == Distance(l.side, Extreme(frame[j], l.side), l.price) > config.sweepTol

Near(l, j) ==
  /\ config.approachTol # NoTracking
  /\ Distance(l.side, l.price, Extreme(frame[j], l.side)) <= config.approachTol

MakeSweep(l, j) ==
  [level |-> l, bar |-> j, closedBeyond |-> Beyond(l.side, frame[j].close, l.price)]

\* A mutant: a bar that exceeds a level it also comes near leaves it approached.
StatusAfterNear(l, j) ==
  IF l \notin active \cup Admitted(j) THEN status[l]
  ELSE IF Near(l, j) THEN "approached"
  ELSE IF Exceeded(l, j) THEN "swept"
  ELSE IF l \in Admitted(j) THEN "active" ELSE status[l]

\* The status of a level after bar j.
StatusAfter(l, j) ==
  IF l \notin active \cup Admitted(j) THEN status[l]
  ELSE IF Exceeded(l, j) THEN "swept"
  ELSE IF Near(l, j) THEN "approached"
  ELSE IF l \in Admitted(j) THEN "active" ELSE status[l]

\* Swept levels are consumed.
StillActive(j) == {l \in active \cup Admitted(j) : ~Exceeded(l, j)}

\* One bar of the walk: admit, then test every observable, unswept level.
WalkBar ==
  \E j \in DOMAIN frame :
    /\ j = index + 1
    /\ index' = j
    /\ status' = [l \in levels |-> StatusAfter(l, j)]
    /\ active' = StillActive(j)
    /\ approached' = [l \in levels |->
         IF l \in StillActive(j) /\ Near(l, j) /\ approached[l] = None THEN j ELSE approached[l]]
    /\ sweeps' = sweeps \cup
         {MakeSweep(l, j) : l \in {l \in active \cup Admitted(j) : Exceeded(l, j)}}
    /\ UNCHANGED <<frame, opens, config, levels>>

Next == WalkBar

Spec == Init /\ [][Next]_vars

----------------------------------------------------------------------------
\* LiquidityAnalysis.active_at and the status of observable_at, for a decision
\* taken at the close of bar k.
SweptBy(k) == {s.level : s \in {s \in sweeps : s.bar <= k}}

ActiveAt(k) == {l \in levels : Observable(l, k)} \ SweptBy(k)

ObservableStatus(l, k) ==
  IF l \in SweptBy(k) THEN "swept"
  ELSE IF approached[l] \in 1 .. k THEN "approached" ELSE "active"

----------------------------------------------------------------------------
\* "Batch equals streaming replay": the levels of the full frame observable at
\* a bar's close are the levels of the bars closed so far, gaps or not.
LevelsKnowable ==
  index > 0 =>
    {l \in levels : Observable(l, index)} =
      LevelsOf(SubSeq(frame, 1, index), SubSeq(opens, 1, index), config)

\* A level is swept by the first bar closing at or after its confirmation that
\* exceeds it, once, and is not active from then on; an active level was never
\* exceeded while it was observable.
SweptByFirstExceedance ==
  \A l \in levels :
    LET hits == {k \in 1 .. index : Observable(l, k) /\ Exceeded(l, k)}
    IN  IF hits = {} THEN l \notin SweptBy(index) /\ (l \in active <=> status[l] \in {"active", "approached"})
        ELSE /\ {s.bar : s \in {s \in sweeps : s.level = l}} = {Min(hits)}
             /\ l \notin active

\* The status the walk left at a bar is the one observable_at recovers from
\* the dated records of the finished analysis.
StatusRecoverable ==
  \A l \in levels : index > 0 /\ Observable(l, index) => status[l] = ObservableStatus(l, index)

\* Stacked levels fall together: a bar that takes a pair of equal highs has
\* taken both of its swings by then, and one that takes the week's high the
\* high of every day of that week.
NestedSwept ==
  \A s \in sweeps : \A l \in levels :
    /\ l.side = s.level.side
    /\ \/ s.level.kind = "equal" /\ l.kind = "swing" /\ l.from \in {s.level.from, s.level.to}
       \/ s.level.kind = "week" /\ l.kind = "day" /\ s.level.from <= l.from /\ l.to <= s.level.to
    => l \in SweptBy(s.bar)

----------------------------------------------------------------------------
\* The bars a run at the close of the last bar processed sees.
Seen      == SubSeq(frame, 1, index)
SeenTimes == SubSeq(opens, 1, index)

\* session_state_at and detect are separate readings of the same windows: a
\* running session meets its completed occurrence at the window's end, and
\* never before; and what is running is what active_sessions_at names.
RunningMeetsCompleted ==
  index > 0 =>
    LET t == CloseTime(opens, index)
        states == SessionStateAt(frame, opens, Definitions, t)
        occurred == Occurred(Definitions, SeenTimes)
    IN  /\ \A n \in DOMAIN states :
             LET w == states[n].window
             IN  IF states[n].complete /\ states[n].summary # {}
                 THEN w \in occurred /\ states[n].summary = {Summary(Seen, Members(SeenTimes, w))}
                 ELSE w \notin occurred
        /\ \A w \in occurred : w.name \in DOMAIN states /\ w.start <= states[w.name].window.start
        /\ {n \in DOMAIN states : states[n].active} = ActiveSessionsAt(Definitions, t)
        /\ ActiveSessionsAt(Definitions, t) =
             {w.name : w \in {w \in ViewWindows(Definitions, opens) : Contains(w, t)}}
=============================================================================
