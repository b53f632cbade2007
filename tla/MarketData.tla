----------------------------- MODULE MarketData -----------------------------
(***************************************************************************)
(* Where the bars of the higher timeframes come from.  A behaviour is one  *)
(* of two lanes:                                                           *)
(*   "native"  ProductionIngest.run over NativeCandleClient: monthly files *)
(*             of native candles, from the cache or from the provider, are *)
(*             decoded, cut to the window and aggregated into 4H           *)
(*             (data/production_ingest.py, data/dukascopy_candles.py);     *)
(*   "rows"    rows of a provider, with copies and corrections in any      *)
(*             order, go through DataNormalizer (data/normalizer.py).      *)
(* Both hand over a frame of source bars, which resample, coverage_report  *)
(* and the 4H builder read.  The cache outlives the process; the provider  *)
(* publishes candles as time passes.                                       *)
(***************************************************************************)
EXTENDS Normalization

CONSTANTS
  Horizon, MonthLength,  \* the hours there are, and to a month
  Markets,               \* sets of hours in which the market may have traded
  Quote,                 \* the candle of each hour
  Nows,                  \* the hours at which runs may look at the provider
  Starts, Ends,          \* the windows of the runs
  MaxRuns,               \* bound: runs started
  Rows, MaxRows,         \* the rows of the other lane; bound: rows supplied
  NoFile, Torn           \* a cache path without a file; bytes lzma refuses

ASSUME MarketDataAssumption ==
  /\ {Horizon, MonthLength} \subseteq Nat \ {0} /\ MonthLength % DayLength = 0
  /\ \A market \in Markets : market \subseteq 0 .. Horizon - 1
  /\ Quote \in [0 .. Horizon - 1 -> Bars]
  /\ Nows # {} /\ Nows \subseteq 0 .. Horizon /\ Starts \cup Ends \subseteq Nat
  /\ \A row \in Rows : row.at \in Nat
  /\ {MaxRuns, MaxRows} \subseteq Nat

\* NATIVE_PRODUCTION_TIMEFRAMES, in the order they are fetched.
Native == {"1h", "1d"}

Duration(tf) == IF tf = "1h" THEN 1 ELSE DayLength

AllMonths == 0 .. Horizon \div MonthLength

VARIABLES
  lane,
  traded,    \* the hours in which the market trades
  now,       \* the provider's clock
  cache,     \* per month file: NoFile, Torn, or the records in it
  pc,        \* "idle", "fetch", or "done" once run has returned
  window,    \* the arguments of run
  queue,     \* the month files still to be read
  got,       \* per timeframe: the candles decoded so far
  failures,  \* download failures of the run
  frame,     \* the frame handed over
  runs,
  early,     \* history: month files stored before their month was over
  emptied,   \* history: month files a crash left without a byte
  supplied   \* the rows so far

native == <<traded, now, cache, pc, window, queue, got, failures, runs, early, emptied>>
vars == <<lane, native, frame, supplied>>

Nothing == [tf \in Native |-> {}]
NoFrame == [s \in {} |-> Quote[s]]

Init ==
  /\ lane \in {"native", "rows"}
  /\ traded \in (IF lane = "native" THEN Markets ELSE {{}})
  /\ now = Min(Nows)
  /\ cache = [f \in Native \X AllMonths |-> NoFile]
  /\ pc = "idle" /\ window = [start |-> 0, end |-> 0] /\ queue = <<>>
  /\ got = Nothing /\ failures = {} /\ frame = NoFrame /\ runs = 0 /\ early = {}
  /\ emptied = {}
  /\ supplied = <<>>

----------------------------------------------------------------------------
\* The provider.

\* The files of month m, while it is not over, grow with every closed candle.
Opens(tf, m) == {s \in MonthLength * m .. MonthLength * (m + 1) - 1 : s % Duration(tf) = 0}

\* A period in which nothing traded is published as a flat candle without volume.
IsProviderPadding(tf, s) == SlotsOf(Duration(tf), PeriodOf(Duration(tf), s)) \cap traded = {}

\* What the feed answers now; no records is 404, or a body of no bytes.
Payload(tf, m) == {s \in Opens(tf, m) : s + Duration(tf) <= now}

Decode(tf, records) == {s \in records : ~IsProviderPadding(tf, s)}

Tick ==
  /\ lane = "native" /\ now < Max(Nows)
  /\ now' = Min({t \in Nows : t > now})
  /\ UNCHANGED <<lane, traded, cache, pc, window, queue, got, failures, frame, runs, early, emptied, supplied>>

----------------------------------------------------------------------------
\* ProductionIngest.run, one file at a time.

MonthsInWindow(start, end) ==
  IF end <= start THEN {}
  ELSE {m \in AllMonths : m >= start \div MonthLength /\ m * MonthLength < end}

Files(tf, start, end) ==
  LET months == Ascending(MonthsInWindow(start, end)) IN
  [i \in DOMAIN months |-> <<tf, months[i]>>]

Run(start, end) ==
  /\ lane = "native" /\ pc # "fetch" /\ runs < MaxRuns
  /\ pc' = "fetch" /\ runs' = runs + 1
  /\ window' = [start |-> start, end |-> end]
  /\ queue' = Files("1h", start, end) \o Files("1d", start, end)
  /\ got' = Nothing /\ failures' = {} /\ frame' = NoFrame
  /\ UNCHANGED <<lane, traded, now, cache, early, emptied, supplied>>

Reading(f) == pc = "fetch" /\ queue # <<>> /\ Head(queue) = f

ToNextFile ==
  /\ queue' = Tail(queue)
  /\ UNCHANGED <<lane, traded, now, pc, window, frame, runs, emptied, supplied>>

Receive(f, records) == got' = [got EXCEPT ![f[1]] = @ \cup Decode(f[1], records)]

\* _payload_for trusts any file that is there ...
ReadCached(f) ==
  /\ Reading(f) /\ cache[f] \notin {NoFile, Torn}
  /\ Receive(f, cache[f]) /\ ToNextFile
  /\ UNCHANGED <<cache, failures, early>>

\* ... and otherwise stores the answer of the feed, an empty one too, for good.
Download(f) ==
  /\ Reading(f) /\ cache[f] = NoFile
  /\ cache' = [cache EXCEPT ![f] = Payload(f[1], f[2])]
  /\ early' = IF MonthLength * (f[2] + 1) <= now THEN early ELSE early \cup {f}
  /\ Receive(f, Payload(f[1], f[2])) /\ ToNextFile
  /\ UNCHANGED failures

\* A mutant: a file that cannot be had is taken for an empty one.
GiveUpEmpty(f) ==
  /\ Reading(f) /\ cache[f] = NoFile
  /\ cache' = [cache EXCEPT ![f] = {}]
  /\ ToNextFile
  /\ UNCHANGED <<got, failures, early>>

\* Every attempt of _download failed: the month is skipped and reported.
GiveUp(f) ==
  /\ Reading(f) /\ cache[f] = NoFile
  /\ failures' = failures \cup {f}
  /\ ToNextFile
  /\ UNCHANGED <<cache, got, early>>

Abort ==
  /\ pc' = "idle" /\ queue' = <<>> /\ got' = Nothing /\ failures' = {}
  /\ UNCHANGED <<lane, traded, now, window, frame, runs, supplied>>

\* decode_candles raises on a torn file, and nothing catches it.
Refuse(f) ==
  /\ Reading(f) /\ cache[f] = Torn
  /\ Abort
  /\ UNCHANGED <<cache, early, emptied>>

\* The process dies, or write_bytes raises, with the file created in place and
\* none or some of its bytes written.
Cut(f) ==
  /\ Reading(f) /\ cache[f] = NoFile
  /\ \E bytes \in {{}, Torn} :
       /\ cache' = [cache EXCEPT ![f] = bytes]
       /\ emptied' = IF bytes = Torn THEN emptied ELSE emptied \cup {f}
  /\ Abort
  /\ UNCHANGED early

Clip(candles) == {s \in candles : window.start <= s /\ s < window.end}

\* The months are merged and cut to the window; a series without candles is a
\* failure of the run.
Finish ==
  /\ pc = "fetch" /\ queue = <<>>
  /\ pc' = "done"
  /\ got' = [tf \in Native |-> Clip(got[tf])]
  /\ frame' = [s \in Clip(got["1h"]) |-> Quote[s]]
  /\ failures' = failures \cup {<<tf, NoFile>> : tf \in {t \in Native : Clip(got[t]) = {}}}
  /\ UNCHANGED <<lane, traded, now, cache, window, queue, runs, early, emptied, supplied>>

----------------------------------------------------------------------------
\* The provider of the other lane supplies one more row, and the rows so far
\* are normalised.
Supply(row) ==
  /\ lane = "rows" /\ Len(supplied) < MaxRows
  /\ supplied' = Append(supplied, row)
  /\ frame' = FrameOf(Normalize(supplied'))
  /\ UNCHANGED <<lane, native>>

Next ==
  \/ Tick
  \/ \E s \in Starts, e \in Ends : Run(s, e)
  \/ \E f \in Native \X AllMonths :
       ReadCached(f) \/ Download(f) \/ GiveUp(f) \/ Refuse(f) \/ Cut(f)
  \/ Finish
  \/ \E row \in Rows : Supply(row)

Spec == Init /\ [][Next]_vars

----------------------------------------------------------------------------
HandedOver == pc = "done" \/ lane = "rows"

\* "Never three-hours-called-four": whatever was lost on the way (a month that
\* could not be had, a file cut by a crash or cached while its month still grew,
\* padding, the edge of the window), a 4H bar is made of four hours in which the
\* market traded, and is the bar the complete series would have given.
H4FromFourTraded ==
  pc = "done" =>
    LET h4 == BuildH4(frame)
        complete == [s \in traded |-> Quote[s]] IN
    \A p \in DOMAIN h4 :
      /\ SlotsOf(HoursPerH4, p) \subseteq traded
      /\ h4[p] = Aggregate(HoursPerH4, complete, p)

\* A run that reports no failure has every native candle of its window, except
\* in month files that were stored while their month still grew, or that a crash
\* left empty: any other loss (a download that failed, a torn file, a run that was
\* cut short) leaves nothing behind that hides a month from this run.
SuccessMeansComplete ==
  pc = "done" /\ failures = {} =>
    \A f \in Native \X MonthsInWindow(window.start, window.end) :
      f \notin early \cup emptied =>
        Clip(Decode(f[1], Opens(f[1], f[2]))) \subseteq got[f[1]]

\* Four pieces of code account for the same bars: the resampler keeps the
\* periods the coverage report finds eligible, the 4H builder emits those it
\* finds complete, with the bars of the resampler, both explain absences alike,
\* and what they miss lies in the gaps the normaliser reports.
AccountsAgree ==
  HandedOver /\ DOMAIN frame # {} =>
    LET H == HoursPerH4
        report == CoverageReport(H, frame)
        bars == Resample(H, frame)
        h4 == BuildH4(frame)
        gaps == DetectGaps(frame)
        absent == UNION {g.start .. g.end - 1 : g \in gaps} IN
    /\ DOMAIN bars = {p \in DOMAIN report : ProductionEligible(report[p])}
    /\ DOMAIN h4 = {p \in DOMAIN report : report[p].quality = "complete"}
    /\ \A p \in DOMAIN h4 : h4[p] = bars[p]
    /\ \A p \in DOMAIN report :
         /\ (Disposition(frame, p) = "withheld_market_closed") = (report[p].quality = "market_gap")
         /\ (WindowCause(frame, p) = "none") = (p \in DOMAIN h4)
         /\ report[p].missing = Cardinality(SlotsOf(H, p) \cap absent)
         /\ report[p].longest = LongestRun(SlotsOf(H, p) \cap absent)
    /\ absent = Extent(frame) \ DOMAIN frame
    /\ \A g \in gaps : g.bar_count = Cardinality(g.start .. g.end - 1)
    /\ \A g, h \in gaps : g = h \/ g.end < h.start \/ h.end < g.start

\* What a decision on a bar may know of a higher timeframe is settled when the
\* bar closes.  The frame that ends with the bar drops the periods at its edges,
\* the bars it has are those of every longer frame, and it gives the bar, as
\* well as every bar before it, the context the longer frame gives.
ContextsSettled ==
  HandedOver =>
    \A e \in DOMAIN frame :
      LET known == Before(frame, e + 1) IN
      /\ \A n \in {HoursPerH4, DayLength} :
           LET soon == Resample(n, known)
               late == Resample(n, frame) IN
           /\ \A p \in DOMAIN soon : p \in DOMAIN late /\ soon[p] = late[p]
           /\ \A s \in DOMAIN known : Context(n, soon, s) = Context(n, late, s)
      /\ \A p \in DOMAIN BuildH4(known) :
           p \in DOMAIN BuildH4(frame) /\ BuildH4(known)[p] = BuildH4(frame)[p]

\* Whatever the order of the rows, a slot has the last copy supplied for it; an
\* invalid last copy takes the bar away, however good the copies before it were.
\* The frame is in order and has no slot twice.
LastCopyWins ==
  LET rows == Normalize(supplied)
      copies(s) == {i \in DOMAIN supplied : supplied[i].at \div GridStep = s}
      last == {Max(copies(supplied[i].at \div GridStep)) : i \in DOMAIN supplied} IN
  /\ \A i, j \in DOMAIN rows : i < j => rows[i].slot < rows[j].slot
  /\ ToSet(rows) = {[slot |-> supplied[i].at \div GridStep, bar |-> supplied[i].bar] :
                      i \in {k \in last : WellFormed(supplied[k].bar)}}
=============================================================================
