------------------------------ MODULE Sessions ------------------------------
(***************************************************************************)
(* Trading sessions and the true daily open (ict/sessions.py,              *)
(* ict/true_daily_open.py).  Sessions are defined in local time; a zone    *)
(* changes its offset once, as it does in spring (after > before) or in    *)
(* autumn.  F is a frame whose bars open at the times T; local dates are   *)
(* numbered, and a local time is counted from the start of date 0.         *)
(***************************************************************************)
EXTENDS Candles, FiniteSetsExt

CONSTANTS
  Duration,      \* how long a bar lasts
  DayLength      \* how long a local day is on the clock

ASSUME TimeAssumption == Duration \in Nat \ {0} /\ DayLength \in Nat \ {0}

ZoneType == [before : Int, after : Int, change : Int]

\* The clocks of a zone change by less than a day.
ShortChange(z) == z.before - z.after < DayLength /\ z.after - z.before < DayLength

DefinitionType == [name : STRING, zone : ZoneType, start : 0 .. DayLength - 1,
                   end : 0 .. DayLength - 1]

CloseTime(T, i) == T[i] + Duration

\* The instant up to which the market has been observed.
ObservedEnd(T) == CloseTime(T, Len(T))

----------------------------------------------------------------------------
\* Boundaries

LocalTime(z, t) == t + (IF t < z.change THEN z.before ELSE z.after)

LocalDate(z, t) == LocalTime(z, t) \div DayLength

\* The instants at which the clocks of the zone show x: none or two on a change.
Readings(z, x) == {t \in {x - z.before, x - z.after} : LocalTime(z, t) = x}

\* _local_to_utc: the first of two readings; a skipped time by the old offset.
ToUtc(z, x) == IF Readings(z, x) = {} THEN x - z.before ELSE Min(Readings(z, x))

Anomaly(z, x) ==
  CASE Readings(z, x) = {} -> "nonexistent"
    [] Cardinality(Readings(z, x)) = 2 -> "ambiguous"
    [] OTHER -> "none"

\* resolve_window: the occurrence of a definition that starts on a local date; an
\* end not after the start is on the next date.
ResolveWindow(d, day) ==
  LET from == day * DayLength + d.start
      to   == (IF d.end <= d.start THEN day + 1 ELSE day) * DayLength + d.end
  IN  [name |-> d.name, day |-> day, start |-> ToUtc(d.zone, from), end |-> ToUtc(d.zone, to),
       anomaly |-> IF Anomaly(d.zone, from) # "none" THEN Anomaly(d.zone, from)
                   ELSE Anomaly(d.zone, to)]

\* resolve_windows: the windows that overlap [from, to), looked for one date beyond
\* either end.
ResolveWindows(definitions, from, to) ==
  UNION {{w \in {ResolveWindow(d, day) :
                   day \in LocalDate(d.zone, from) - 1 .. LocalDate(d.zone, to) + 1} :
            w.end > from /\ w.start < to} : d \in definitions}

\* windows_for: the windows spanning the frame.
WindowsFor(definitions, T) == ResolveWindows(definitions, T[1], ObservedEnd(T))

Contains(w, t) == w.start <= t /\ t < w.end

\* An overnight session is over on the date it ends on, also if the clocks skip its end.
EndsOnDate(d, day) == d.end <= d.start => LocalDate(d.zone, ResolveWindow(d, day).end) = day + 1

----------------------------------------------------------------------------
\* SessionDetector

\* The bars fully contained in a window.
Members(T, w) == {i \in DOMAIN T : w.start <= T[i] /\ CloseTime(T, i) <= w.end}

\* The observed data extends to or past the end of the period.
Complete(T, w) == ObservedEnd(T) >= w.end

\* The first bar of S that reached as far as any bar of S.
Furthest(F, d, S) ==
  Min({i \in S : \A k \in S : ~Beyond(d, Extreme(F[k], d), Extreme(F[i], d))})

\* detect: the completed windows that contain bars.
Occurred(definitions, T) ==
  {w \in WindowsFor(definitions, T) : Complete(T, w) /\ Members(T, w) # {}}

\* What the bars S of a window say about it.
Summary(F, S) ==
  [count |-> Cardinality(S), open |-> F[Min(S)].open, close |-> F[Max(S)].close,
   furthest |-> [d \in Directions |-> Furthest(F, d, S)]]

\* A mutant: the window that started first is kept.
CurrentFirst(W, n) == CHOOSE w \in W : w.name = n /\ \A v \in W : v.name = n => v.start >= w.start

\* A later window replaces an earlier one of the same name.
Current(W, n) == CHOOSE w \in W : w.name = n /\ \A v \in W : v.name = n => v.start <= w.start

\* session_state_at: of every session the window that started last, with what the
\* bars closed by t say about it.
SessionStateAt(F, T, definitions, t) ==
  LET begun == {w \in ResolveWindows(definitions, t - 2 * DayLength, t + DayLength) :
                  w.start <= t \/ w.end <= t}
      seen(w) == {i \in Members(T, w) : CloseTime(T, i) <= t}
  IN  [n \in {w.name : w \in begun} |->
         LET w == Current(begun, n)
         IN  [window |-> w, summary |-> IF seen(w) = {} THEN {} ELSE {Summary(F, seen(w))},
              active |-> Contains(w, t), complete |-> t >= w.end]]

\* active_sessions_at
ActiveSessionsAt(definitions, t) ==
  {w.name : w \in {w \in ResolveWindows(definitions, t - 2 * DayLength, t + DayLength) :
                     Contains(w, t)}}

----------------------------------------------------------------------------
\* TrueDailyOpenDetector: o is its zone and the local time of the open.
DailyOpenType == [zone : ZoneType, open : 0 .. DayLength - 1]

BoundaryFor(o, day) == ToUtc(o.zone, day * DayLength + o.open)

\* The bar that begins exactly at the boundary.
OpensAt(T, o, day, i) == T[i] = BoundaryFor(o, day)

DailyOpensOf(F, T, o) ==
  IF T = <<>> THEN {}
  ELSE LET days == LocalDate(o.zone, T[1]) - 1 .. LocalDate(o.zone, T[Len(T)]) + 1
       IN  {[day |-> x[1], price |-> F[x[2]].open, at |-> BoundaryFor(o, x[1])] :
              x \in {x \in days \X (DOMAIN T) : OpensAt(T, o, x[1], x[2])}}

\* latest_at: the most recent of the opens O observable at t, if there is one.
LatestOpenAt(O, t) ==
  {x \in O : x.at <= t /\ \A y \in O : y.at <= t => y.at <= x.at}

----------------------------------------------------------------------------
\* The calendar sections of a market state (ict/market_state.py).

\* _daily_open_at: whose open it is, and whether that is the date of t.
DailyOpenSection(O, o, t, price) ==
  {[level |-> x, distance |-> price - x.price, current |-> x.day = LocalDate(o.zone, t)] :
     x \in LatestOpenAt(O, t)}

\* _session_at: the sessions of the windows W that contain t, how long they have
\* run, and how long the day of the open has.
SessionSection(W, t, section) ==
  LET live == {w \in W : Contains(w, t)}
  IN  [active |-> {w.name : w \in live}, elapsed |-> {<<w.name, t - w.start>> : w \in live},
       age |-> {t - x.level.at : x \in section}]

\* The windows a view over the whole frame resolves once.
ViewWindows(definitions, T) ==
  ResolveWindows(definitions, T[1] - 2 * DayLength, ObservedEnd(T) + DayLength)
=============================================================================
