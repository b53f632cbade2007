------------------------------ MODULE Backfill ------------------------------
(***************************************************************************)
(* The tick backfill (data/backfill.py): a window is cut into UTC days, a   *)
(* pool of workers obtains the hourly payloads of one day at a time, from   *)
(* the raw cache or from the feed with retries, and the day's outcomes are  *)
(* gathered in the order of the hours.  The cache outlives the process.     *)
(*                                                                         *)
(* An instant is a number of ticks of the clock; hour h begins at           *)
(* h * HourLength.  A payload is what telling it apart needs: Empty (zero   *)
(* bytes, a closed market), Body (what the feed has for the hour) or Torn   *)
(* (some, not all, of those bytes, which lzma refuses).                     *)
(***************************************************************************)
EXTENDS Integers, FiniteSets

CONSTANTS
  Hours,              \* the hours the windows fall in
  HourLength, DayLength,
  WorkerChoices,      \* the values of max_workers
  MaxRetries,
  ClosedHours,        \* hours the feed never has ticks for
  LateHours,          \* hours the feed answers 404 for until it publishes them
  MaxRuns,            \* bound: runs started
  NoFile, Empty, Torn, Body

ASSUME BackfillAssumption ==
  /\ Hours \subseteq Nat /\ IsFiniteSet(Hours)
  /\ HourLength \in Nat \ {0} /\ DayLength \in Nat \ {0}
  /\ DayLength % HourLength = 0
  /\ WorkerChoices \subseteq Nat \ {0}
  /\ MaxRetries \in Nat /\ MaxRuns \in Nat
  /\ NoFile \notin {Empty, Torn, Body}
  /\ Empty # Torn /\ Empty # Body /\ Torn # Body

Payloads == {Empty, Torn, Body}

VARIABLES
  feed,      \* per hour: what the feed answers
  cache,     \* per hour: NoFile or the bytes of the cached file
  pc,        \* "idle", "run", or "done" once run has returned its result
  window,    \* the arguments of run and of the constructor
  cursor,    \* the start of the day being processed
  job,       \* per hour: where its _payload_for stands
  result,    \* the BackfillResult so far
  consumed,  \* history: the raw entries of every run that returned
  runs,      \* runs started
  damaged    \* history: a crash or an I/O error has happened

vars == <<feed, cache, pc, window, cursor, job, result, consumed, runs, damaged>>

----------------------------------------------------------------------------
\* hours_in_window: from the hour the start falls in, up to the end.
HoursIn(start, end) ==
  {h \in Hours : start \div HourLength <= h /\ h * HourLength < end}

Earlier(a, b) == IF a < b THEN a ELSE b

\* A mutant: slices of a day's length, wherever the window starts.
SliceEndAnywhere(start, end) == Earlier(start + DayLength, end)

\* _day_slices: a slice ends at the next UTC midnight, or with the window.
SliceEnd(start, end) == Earlier((start \div DayLength + 1) * DayLength, end)

Slice == HoursIn(cursor, SliceEnd(cursor, window.end))

----------------------------------------------------------------------------
NoJob  == [step |-> "none", attempt |-> 0, payload |-> Empty]
Job(s) == [NoJob EXCEPT !.step = s]
Outcome(p) == [step |-> "done", attempt |-> 0, payload |-> p]

NoJobs == [h \in Hours |-> NoJob]
Submitted(hs) == [h \in Hours |-> IF h \in hs THEN Job("queued") ELSE NoJob]

At(s) == {h \in Hours : job[h].step = s}

Running  == At("get") \cup At("sleep") \cup At("store") \cup At("writing")
Returned == At("done") \cup At("failed")

NoResult == [raw |-> {}, failures |-> {}, decoded |-> {}, requested |-> 0, empty |-> 0]

Init ==
  /\ feed = [h \in Hours |-> IF h \in ClosedHours \cup LateHours THEN Empty ELSE Body]
  /\ cache = [h \in Hours |-> NoFile]
  /\ pc = "idle" /\ window = [start |-> 0, end |-> 0, workers |-> 1]
  /\ cursor = 0 /\ job = NoJobs /\ result = NoResult
  /\ consumed = {} /\ runs = 0 /\ damaged = FALSE

\* TickBackfill.run: the first day is submitted.
Run(start, end, workers) ==
  /\ pc # "run" /\ runs < MaxRuns /\ start < end
  /\ pc' = "run" /\ runs' = runs + 1
  /\ window' = [start |-> start, end |-> end, workers |-> workers]
  /\ cursor' = start
  /\ job' = Submitted(HoursIn(start, SliceEnd(start, end)))
  /\ result' = NoResult
  /\ UNCHANGED <<feed, cache, consumed, damaged>>

----------------------------------------------------------------------------
\* _payload_for and _download, in a worker.

Becomes(h, j) ==
  /\ job' = [job EXCEPT ![h] = j]
  /\ UNCHANGED <<feed, pc, window, cursor, result, consumed, runs>>

\* A free worker takes the next hour.  With max_workers 1 there is no pool: an
\* exception leaves the loop before the next hour is begun.
MayTake(h) ==
  /\ pc = "run" /\ h \in At("queued")
  /\ \A g \in At("queued") : h <= g
  /\ Cardinality(Running) < window.workers
  /\ window.workers = 1 => At("raised") = {}

IsCached(h) == cache[h] # NoFile

Read(h) ==
  /\ MayTake(h) /\ IsCached(h)
  /\ Becomes(h, Outcome(cache[h]))
  /\ UNCHANGED <<cache, damaged>>

Miss(h) ==
  /\ MayTake(h) /\ ~IsCached(h)
  /\ Becomes(h, Job("get"))
  /\ UNCHANGED <<cache, damaged>>

\* The feed answers: 404 and an empty body are both the empty payload.
Answer(h) ==
  /\ h \in At("get")
  /\ Becomes(h, [step |-> "store", attempt |-> 0, payload |-> feed[h]])
  /\ UNCHANGED <<cache, damaged>>

\* A mutant: the attempt is not counted.
RetryForever(h) ==
  /\ h \in At("get")
  /\ Becomes(h, [job[h] EXCEPT !.step = "sleep"])
  /\ UNCHANGED <<cache, damaged>>

\* A reset, a timeout or an error status: one more attempt after a pause ...
Retry(h) ==
  /\ h \in At("get") /\ job[h].attempt < MaxRetries
  /\ Becomes(h, [step |-> "sleep", attempt |-> job[h].attempt + 1, payload |-> Empty])
  /\ UNCHANGED <<cache, damaged>>

Wake(h) ==
  /\ h \in At("sleep")
  /\ Becomes(h, [job[h] EXCEPT !.step = "get"])
  /\ UNCHANGED <<cache, damaged>>

\* A mutant: an hour that cannot be had is taken for a closed market.
GiveUpEmpty(h) ==
  /\ h \in At("get") /\ job[h].attempt = MaxRetries
  /\ Becomes(h, [step |-> "store", attempt |-> 0, payload |-> Empty])
  /\ UNCHANGED <<cache, damaged>>

\* ... or, after the last one, an error that is returned.
GiveUp(h) ==
  /\ h \in At("get") /\ job[h].attempt = MaxRetries
  /\ Becomes(h, Job("failed"))
  /\ UNCHANGED <<cache, damaged>>

\* A mutant: an empty payload is not worth a file.
StoreNonEmpty(h) ==
  /\ h \in At("store")
  /\ IF cache[h] = NoFile /\ job[h].payload # Empty
     THEN /\ cache' = [cache EXCEPT ![h] = Empty]
          /\ Becomes(h, [job[h] EXCEPT !.step = "writing"])
     ELSE /\ Becomes(h, Outcome(job[h].payload))
          /\ UNCHANGED cache
  /\ UNCHANGED damaged

\* write_bytes opens the file, which creates it with no bytes in it, unless
\* there is one; the payload is returned in both cases.
Store(h) ==
  /\ h \in At("store")
  /\ IF cache[h] = NoFile
     THEN /\ cache' = [cache EXCEPT ![h] = Empty]
          /\ Becomes(h, [job[h] EXCEPT !.step = "writing"])
     ELSE /\ Becomes(h, Outcome(job[h].payload))
          /\ UNCHANGED cache
  /\ UNCHANGED damaged

WriteSome(h) ==
  /\ h \in At("writing") /\ cache[h] = Empty /\ job[h].payload = Body
  /\ cache' = [cache EXCEPT ![h] = Torn]
  /\ Becomes(h, job[h])
  /\ UNCHANGED damaged

WriteRest(h) ==
  /\ h \in At("writing")
  /\ cache' = [cache EXCEPT ![h] = job[h].payload]
  /\ Becomes(h, Outcome(job[h].payload))
  /\ UNCHANGED damaged

\* Reading, mkdir and write_bytes are outside of the try: an OSError of theirs
\* is raised in the caller, and a file already opened stays as it is.
IOFails(h) ==
  /\ \/ MayTake(h) /\ IsCached(h)
     \/ h \in At("store") \cup At("writing")
  /\ Becomes(h, Job("raised"))
  /\ damaged' = TRUE
  /\ UNCHANGED cache

----------------------------------------------------------------------------
\* _process_day and run, in the calling thread.

\* The outcomes are read in the order of the hours, so the exception surfaces
\* once every earlier hour has returned ...
Surfaces == \E h \in At("raised") : \A g \in Slice : g < h => g \in Returned

\* ... the hours nobody has begun are cancelled ...
Cancel ==
  /\ pc = "run" /\ Surfaces /\ At("queued") # {}
  /\ job' = [h \in Hours |-> IF h \in At("queued") THEN Job("cancelled") ELSE job[h]]
  /\ UNCHANGED <<feed, cache, pc, window, cursor, result, consumed, runs, damaged>>

Abandon ==
  /\ pc' = "idle" /\ job' = NoJobs /\ result' = NoResult
  /\ UNCHANGED <<feed, cache, window, cursor, consumed, runs>>

\* ... and it leaves run when those under way have ended.
Raise ==
  /\ pc = "run" /\ Surfaces /\ At("queued") = {} /\ Running = {}
  /\ Abandon
  /\ UNCHANGED damaged

\* The process dies.
Crash ==
  /\ pc = "run"
  /\ Abandon
  /\ damaged' = TRUE

Holding(p) == {h \in At("done") : job[h].payload = p}

\* The day's outcomes join the result: failed downloads and payloads that do
\* not decode are failures; an empty payload is counted.
Gathered ==
  [raw       |-> result.raw \cup {<<h, job[h].payload>> : h \in At("done")},
   failures  |-> result.failures \cup {<<h, "download">> : h \in At("failed")}
                                 \cup {<<h, "decode">> : h \in Holding(Torn)},
   decoded   |-> result.decoded \cup Holding(Body),
   requested |-> result.requested + Cardinality(Slice),
   empty     |-> result.empty + Cardinality(Holding(Empty))]

DayReturned == pc = "run" /\ Slice \subseteq Returned

NextDay ==
  LET next == SliceEnd(cursor, window.end) IN
  /\ DayReturned /\ next < window.end
  /\ result' = Gathered
  /\ cursor' = next
  /\ job' = Submitted(HoursIn(next, SliceEnd(next, window.end)))
  /\ UNCHANGED <<feed, cache, pc, window, consumed, runs, damaged>>

Finish ==
  /\ DayReturned /\ SliceEnd(cursor, window.end) = window.end
  /\ result' = Gathered
  /\ consumed' = consumed \cup Gathered.raw
  /\ pc' = "done" /\ job' = NoJobs
  /\ UNCHANGED <<feed, cache, window, cursor, runs, damaged>>

----------------------------------------------------------------------------
\* The feed publishes an hour it had answered 404 for.
Publish(h) ==
  /\ h \in LateHours /\ feed[h] = Empty
  /\ feed' = [feed EXCEPT ![h] = Body]
  /\ UNCHANGED <<cache, pc, window, cursor, job, result, consumed, runs, damaged>>

Instants == {h * HourLength + i : h \in Hours, i \in 0 .. HourLength}

\* What a run does by itself.
Work ==
  \/ \E h \in Hours :
       \/ Read(h) \/ Miss(h) \/ Answer(h) \/ Retry(h) \/ Wake(h) \/ GiveUp(h)
       \/ Store(h) \/ WriteSome(h) \/ WriteRest(h) \/ IOFails(h)
  \/ Cancel \/ Raise \/ NextDay \/ Finish

Next ==
  \/ \E s, e \in Instants, w \in WorkerChoices : Run(s, e, w)
  \/ Work
  \/ Crash
  \/ \E h \in Hours : Publish(h)

Spec == Init /\ [][Next]_vars

\* The threads of a run get to run: requests have a timeout, sleeps end, and
\* the operating system schedules whoever is ready.  Nothing is assumed of the
\* feed, of the callers of run, or of which thread goes first.
FairSpec == Spec /\ WF_vars(Work)

----------------------------------------------------------------------------
Steps == {"none", "queued", "get", "sleep", "store", "writing", "done",
          "failed", "raised", "cancelled"}

JobType == [step : Steps, attempt : 0 .. MaxRetries, payload : Payloads]

WindowType == [start : Nat, end : Nat, workers : Nat]

ResultType == [raw : SUBSET (Hours \X Payloads),
               failures : SUBSET (Hours \X {"download", "decode"}),
               decoded : SUBSET Hours, requested : Nat, empty : Nat]

TypeOK ==
  /\ feed \in [Hours -> {Empty, Body}]
  /\ cache \in [Hours -> Payloads \cup {NoFile}]
  /\ pc \in {"idle", "run", "done"}
  /\ window \in WindowType
  /\ cursor \in Nat
  /\ job \in [Hours -> JobType]
  /\ result \in ResultType
  /\ consumed \subseteq Hours \X Payloads
  /\ runs \in 0 .. MaxRuns /\ damaged \in BOOLEAN

RawHours == {e[1] : e \in result.raw}
FailedDownloads == {h \in Hours : <<h, "download">> \in result.failures}
FailedDecodes   == {h \in Hours : <<h, "decode">> \in result.failures}

\* A run that returns has asked for every hour of its window once, though days
\* and workers share them out, and accounts for each: an error, or a raw entry
\* that was decoded, found empty or refused by the decoder.
EveryHourAccounted ==
  pc = "done" =>
    /\ RawHours \cup FailedDownloads = HoursIn(window.start, window.end)
    /\ RawHours \cap FailedDownloads = {}
    /\ result.requested = Cardinality(HoursIn(window.start, window.end))
    /\ Cardinality(RawHours) =
         Cardinality(result.decoded) + result.empty + Cardinality(FailedDecodes)

\* "re-running a backfill re-reads bytes rather than re-fetching them, which is
\* what makes a repeat run byte-identical": whatever the feed publishes, and
\* whichever runs crash in between, two runs never return different bytes for
\* an hour.
RepeatIdentical ==
  \A a, b \in consumed : a[1] = b[1] => a = b

\* While no run was interrupted, an hour that is counted as empty is one the
\* feed said to be empty: errors never look like a closed market.
EmptyMeansClosed ==
  pc = "done" /\ ~damaged =>
    \A h \in RawHours \ (ClosedHours \cup LateHours) : <<h, Empty>> \notin result.raw

\* Whatever the feed answers, a run returns or raises: retries are bounded, and
\* neither the pool nor the gathering of its outcomes waits for ever.
RunEnds == pc = "run" ~> pc # "run"

\* docs/financial-ai/DATA_PROOF.md: the cache is "what makes a repeat run
\* byte-identical and a long backfill restartable".  Restarted after a crash,
\* a run that returns without failures has the ticks of every hour that has any.
RestartLosesNothing ==
  pc = "done" /\ result.failures = {} =>
    \A h \in RawHours \ (ClosedHours \cup LateHours) : <<h, Empty>> \notin result.raw
=============================================================================
