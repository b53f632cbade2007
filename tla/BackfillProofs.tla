--------------------------- MODULE BackfillProofs ---------------------------
(***************************************************************************)
(* What the backfill promises for every set of hours, every number of       *)
(* workers, retries and runs.                                               *)
(***************************************************************************)
EXTENDS Backfill, FiniteSetTheorems, TLAPS

\* Slices are finite sets of hours, so counting them yields a number.
LEMMA CountedHours ==
  ASSUME NEW S \in SUBSET Hours
  PROVE  Cardinality(S) \in Nat
  BY BackfillAssumption, FS_Subset, FS_CardinalityType

\* The next midnight of an instant is an instant.
LEMMA SliceEndType ==
  ASSUME NEW a \in Nat, NEW b \in Nat
  PROVE  SliceEnd(a, b) \in Nat
<1>1. a \div DayLength \in Nat
  BY BackfillAssumption, SMT
<1>2. (a \div DayLength + 1) * DayLength \in Nat
  BY <1>1, BackfillAssumption, SMT
<1> QED
  BY <1>2 DEF SliceEnd, Earlier

LEMMA InstantsType == Instants \subseteq Nat
<1> SUFFICES ASSUME NEW h \in Hours, NEW i \in 0 .. HourLength
             PROVE  h * HourLength + i \in Nat
  BY DEF Instants
<1>1. h \in Nat /\ HourLength \in Nat
  BY BackfillAssumption
<1> QED
  BY <1>1

LEMMA JobTypes ==
  /\ NoJob \in JobType
  /\ \A s \in Steps : Job(s) \in JobType
  /\ \A p \in Payloads : Outcome(p) \in JobType
<1>1. NoJob \in JobType
  BY BackfillAssumption, SMT DEF NoJob, JobType, Steps, Payloads
<1>2. ASSUME NEW s \in Steps PROVE Job(s) \in JobType
  BY BackfillAssumption, SMT DEF NoJob, Job, JobType, Payloads
<1>3. ASSUME NEW p \in Payloads PROVE Outcome(p) \in JobType
  BY BackfillAssumption DEF Outcome, JobType, Steps
<1> QED
  BY <1>1, <1>2, <1>3

LEMMA SubmittedType ==
  ASSUME NEW S
  PROVE  Submitted(S) \in [Hours -> JobType] /\ NoJobs \in [Hours -> JobType]
  BY JobTypes DEF Submitted, NoJobs, Steps

\* A day's outcomes make a result of the right type.
LEMMA GatheredType ==
  ASSUME job \in [Hours -> JobType], result \in ResultType
  PROVE  Gathered \in ResultType
<1>1. Cardinality(Slice) \in Nat /\ Cardinality(Holding(Empty)) \in Nat
  BY CountedHours DEF Slice, HoursIn, Holding, At
<1>2. result.raw \cup {<<h, job[h].payload>> : h \in At("done")} \in SUBSET (Hours \X Payloads)
  BY DEF ResultType, JobType, At
<1>3. result.failures \cup {<<h, "download">> : h \in At("failed")}
        \cup {<<h, "decode">> : h \in Holding(Torn)} \in SUBSET (Hours \X {"download", "decode"})
  BY DEF ResultType, At, Holding
<1>4. result.decoded \cup Holding(Body) \in SUBSET Hours
  BY DEF ResultType, At, Holding
<1>5. /\ result.requested + Cardinality(Slice) \in Nat
      /\ result.empty + Cardinality(Holding(Empty)) \in Nat
  BY <1>1 DEF ResultType
<1> QED
  BY <1>2, <1>3, <1>4, <1>5 DEF Gathered, ResultType

----------------------------------------------------------------------------
LEMMA TypeInit == Init => TypeOK
<1> SUFFICES ASSUME Init PROVE TypeOK
  OBVIOUS
<1>1. feed \in [Hours -> {Empty, Body}] /\ cache \in [Hours -> Payloads \cup {NoFile}]
  BY DEF Init
<1>2. result \in ResultType
  BY DEF Init, NoResult, ResultType
<1>3. job \in [Hours -> JobType]
  BY SubmittedType DEF Init
<1>4. window \in WindowType
  BY DEF Init, WindowType
<1>5. runs \in 0 .. MaxRuns
  BY BackfillAssumption DEF Init
<1> QED
  BY <1>1, <1>2, <1>3, <1>4, <1>5 DEF Init, TypeOK

\* A worker that moves an hour on leaves everything well typed, as long as the
\* hour's new job and the cache are.
LEMMA BecomesType ==
  ASSUME TypeOK, NEW h \in Hours, NEW j \in JobType, Becomes(h, j),
         cache' \in [Hours -> Payloads \cup {NoFile}], damaged' \in BOOLEAN
  PROVE  TypeOK'
  BY DEF Becomes, TypeOK

LEMMA TypeStep == TypeOK /\ [Next]_vars => TypeOK'
<1> SUFFICES ASSUME TypeOK, [Next]_vars PROVE TypeOK'
  OBVIOUS
<1>h. ASSUME NEW h \in Hours
      PROVE  job[h] \in JobType /\ feed[h] \in Payloads /\ cache[h] \in Payloads \cup {NoFile}
  BY DEF TypeOK, Payloads
<1>1. ASSUME NEW s \in Instants, NEW e \in Instants, NEW w \in WorkerChoices, Run(s, e, w)
      PROVE  TypeOK'
  <2>1. window' \in WindowType /\ cursor' \in Nat
    BY <1>1, InstantsType, BackfillAssumption DEF Run, WindowType
  <2>2. job' \in [Hours -> JobType] /\ result' \in ResultType
    BY <1>1, SubmittedType DEF Run, NoResult, ResultType
  <2>3. runs' \in 0 .. MaxRuns
    BY <1>1, BackfillAssumption DEF Run, TypeOK
  <2> QED
    BY <1>1, <2>1, <2>2, <2>3 DEF Run, TypeOK
<1>2. ASSUME NEW h \in Hours, Read(h) PROVE TypeOK'
  <2>1. cache[h] \in Payloads
    BY <1>2, <1>h DEF Read, IsCached
  <2> QED
    BY <2>1, <1>2, JobTypes, BecomesType DEF Read, TypeOK
<1>3. ASSUME NEW h \in Hours, Miss(h) PROVE TypeOK'
  BY <1>3, JobTypes, BecomesType DEF Miss, TypeOK, Steps
<1>4. ASSUME NEW h \in Hours, Answer(h) PROVE TypeOK'
  <2>1. [step |-> "store", attempt |-> 0, payload |-> feed[h]] \in JobType
    BY <1>h, BackfillAssumption DEF JobType, Steps
  <2> QED
    BY <2>1, <1>4, BecomesType DEF Answer, TypeOK
<1>5. ASSUME NEW h \in Hours, Retry(h) PROVE TypeOK'
  <2>1. [step |-> "sleep", attempt |-> job[h].attempt + 1, payload |-> Empty] \in JobType
    BY <1>h, <1>5, BackfillAssumption DEF Retry, JobType, Steps, Payloads
  <2> QED
    BY <2>1, <1>5, BecomesType DEF Retry, TypeOK
<1>6. ASSUME NEW h \in Hours, Wake(h) PROVE TypeOK'
  <2>1. [job[h] EXCEPT !.step = "get"] \in JobType
    BY <1>h DEF JobType, Steps
  <2> QED
    BY <2>1, <1>6, BecomesType DEF Wake, TypeOK
<1>7. ASSUME NEW h \in Hours, GiveUp(h) PROVE TypeOK'
  BY <1>7, JobTypes, BecomesType DEF GiveUp, TypeOK, Steps
<1>8. ASSUME NEW h \in Hours, Store(h) PROVE TypeOK'
  <2>1. /\ [job[h] EXCEPT !.step = "writing"] \in JobType
        /\ Outcome(job[h].payload) \in JobType
    BY <1>h, JobTypes DEF JobType, Steps
  <2>2. cache' \in [Hours -> Payloads \cup {NoFile}] /\ damaged' \in BOOLEAN
    BY <1>8 DEF Store, TypeOK, Payloads
  <2> QED
    BY <2>1, <2>2, <1>8, BecomesType DEF Store
<1>9. ASSUME NEW h \in Hours, WriteSome(h) PROVE TypeOK'
  <2>1. cache' \in [Hours -> Payloads \cup {NoFile}] /\ damaged' \in BOOLEAN
    BY <1>9 DEF WriteSome, TypeOK, Payloads
  <2> QED
    BY <2>1, <1>9, <1>h, BecomesType DEF WriteSome
<1>10. ASSUME NEW h \in Hours, WriteRest(h) PROVE TypeOK'
  <2>1. job[h].payload \in Payloads
    BY <1>h DEF JobType
  <2>2. cache' \in [Hours -> Payloads \cup {NoFile}] /\ damaged' \in BOOLEAN
    BY <2>1, <1>10 DEF WriteRest, TypeOK
  <2> QED
    BY <2>1, <2>2, <1>10, JobTypes, BecomesType DEF WriteRest
<1>11. ASSUME NEW h \in Hours, IOFails(h) PROVE TypeOK'
  BY <1>11, JobTypes, BecomesType DEF IOFails, TypeOK, Steps
<1>12. ASSUME Cancel PROVE TypeOK'
  <2>1. job' \in [Hours -> JobType]
    BY <1>12, JobTypes DEF Cancel, TypeOK, Steps
  <2> QED
    BY <2>1, <1>12 DEF Cancel, TypeOK
<1>13. ASSUME Raise \/ Crash PROVE TypeOK'
  <2>1. job' \in [Hours -> JobType] /\ result' \in ResultType
    BY <1>13, SubmittedType DEF Raise, Crash, Abandon, NoResult, ResultType
  <2> QED
    BY <2>1, <1>13 DEF Raise, Crash, Abandon, TypeOK
<1>14. ASSUME NextDay PROVE TypeOK'
  <2>1. cursor' \in Nat
    BY <1>14, SliceEndType DEF NextDay, TypeOK, WindowType
  <2>2. job' \in [Hours -> JobType] /\ result' \in ResultType
    BY <1>14, SubmittedType, GatheredType DEF NextDay, TypeOK
  <2> QED
    BY <2>1, <2>2, <1>14 DEF NextDay, TypeOK
<1>15. ASSUME Finish PROVE TypeOK'
  <2>1. job' \in [Hours -> JobType] /\ result' \in ResultType
    BY <1>15, SubmittedType, GatheredType DEF Finish, TypeOK
  <2>2. consumed' \subseteq Hours \X Payloads
    BY <1>15, GatheredType DEF Finish, TypeOK, ResultType
  <2> QED
    BY <2>1, <2>2, <1>15 DEF Finish, TypeOK
<1>16. ASSUME NEW h \in Hours, Publish(h) PROVE TypeOK'
  BY <1>16 DEF Publish, TypeOK
<1>17. ASSUME UNCHANGED vars PROVE TypeOK'
  BY <1>17 DEF vars, TypeOK
<1> QED
  BY <1>1, <1>2, <1>3, <1>4, <1>5, <1>6, <1>7, <1>8, <1>9, <1>10, <1>11, <1>12,
     <1>13, <1>14, <1>15, <1>16, <1>17 DEF Next, Work

\* Whatever the hours, the workers, the retries and the runs, every variable
\* keeps its type.
THEOREM BackfillTypeCorrect == Spec => []TypeOK
  BY TypeInit, TypeStep, PTL DEF Spec

----------------------------------------------------------------------------
(***************************************************************************)
(* Why repeated runs agree.  A run takes an hour's bytes from the cache, or *)
(* puts them there before it returns them, and a file that is complete is   *)
(* never opened again: so every raw entry anybody ever returned is still in *)
(* the cache.                                                              *)
(***************************************************************************)

\* An hour is asked of the feed only while it has no file.
MissesUncached ==
  \A h \in Hours : job[h].step \in {"get", "sleep", "store"} => cache[h] = NoFile

\* What a worker returns is what the cache holds.
DoneCached ==
  \A h \in Hours : job[h].step = "done" => cache[h] = job[h].payload

\* What a run returned is in the cache, complete.
Settled ==
  \A e \in consumed \cup result.raw :
     cache[e[1]] = e[2] /\ job[e[1]].step # "writing"

CacheInv == MissesUncached /\ DoneCached /\ Settled

LEMMA CacheInit == Init => CacheInv
  BY DEF Init, NoJobs, NoJob, NoResult, CacheInv, MissesUncached, DoneCached, Settled

\* The entries of a result, present and past, are hours with their payloads.
LEMMA EntryTypes ==
  ASSUME TypeOK, NEW e \in consumed \cup result.raw
  PROVE  e[1] \in Hours /\ e[2] \in Payloads
  BY DEF TypeOK, ResultType

LEMMA Moved ==
  ASSUME TypeOK, NEW h \in Hours, NEW j, Becomes(h, j)
  PROVE  /\ job'[h] = j
         /\ \A g \in Hours \ {h} : job'[g] = job[g]
         /\ consumed' = consumed /\ result' = result
  BY DEF Becomes, TypeOK

\* A worker that leaves the cache alone, and neither begins to write nor claims
\* bytes the cache does not hold, disturbs nothing.
LEMMA QuietMove ==
  ASSUME TypeOK, CacheInv, NEW h \in Hours, NEW j, Becomes(h, j), UNCHANGED cache,
         j.step # "writing",
         j.step \in {"get", "sleep", "store"} => cache[h] = NoFile,
         j.step = "done" => cache[h] = j.payload
  PROVE  CacheInv'
<1>1. MissesUncached' /\ DoneCached'
  BY Moved DEF CacheInv, MissesUncached, DoneCached
<1>2. Settled'
  BY Moved, EntryTypes DEF CacheInv, Settled
<1> QED
  BY <1>1, <1>2 DEF CacheInv

\* A worker that writes to the file of an hour no result has an entry of.
LEMMA WritingMove ==
  ASSUME TypeOK, CacheInv, NEW h \in Hours, NEW j, NEW p, Becomes(h, j),
         cache' = [cache EXCEPT ![h] = p],
         cache[h] = NoFile \/ job[h].step = "writing",
         j.step \notin {"get", "sleep", "store"},
         j.step = "done" => p = j.payload
  PROVE  CacheInv'
<1>1. /\ cache'[h] = p
      /\ \A g \in Hours \ {h} : cache'[g] = cache[g]
  BY DEF TypeOK
<1>2. MissesUncached' /\ DoneCached'
  BY <1>1, Moved DEF CacheInv, MissesUncached, DoneCached
<1>3. \A e \in consumed \cup result.raw : e[1] # h
  BY EntryTypes, BackfillAssumption DEF CacheInv, Settled, Payloads
<1>4. Settled'
  BY <1>1, <1>3, Moved, EntryTypes DEF CacheInv, Settled
<1> QED
  BY <1>2, <1>4 DEF CacheInv

\* The jobs a run starts with, and the ones left when none is under way, hold
\* nothing: only the entries matter then.
LEMMA FreshJobs ==
  ASSUME NEW hs, job' \in {Submitted(hs), NoJobs}
  PROVE  \A h \in Hours : job'[h].step \in {"none", "queued"}
  BY DEF Submitted, NoJobs, Job, NoJob

LEMMA GatheredSettled ==
  ASSUME TypeOK, CacheInv, NEW e \in Gathered.raw
  PROVE  cache[e[1]] = e[2] /\ e[1] \in Hours
<1>1. CASE e \in result.raw
  BY <1>1, EntryTypes DEF CacheInv, Settled
<1>2. CASE \E h \in At("done") : e = <<h, job[h].payload>>
  BY <1>2 DEF CacheInv, DoneCached, At
<1> QED
  BY <1>1, <1>2 DEF Gathered

LEMMA CacheStep == TypeOK /\ CacheInv /\ [Next]_vars => CacheInv'
<1> SUFFICES ASSUME TypeOK, CacheInv, [Next]_vars PROVE CacheInv'
  OBVIOUS
<1>1. ASSUME NEW s \in Instants, NEW e \in Instants, NEW w \in WorkerChoices, Run(s, e, w)
      PROVE  CacheInv'
  <2>1. \A h \in Hours : job'[h].step \in {"none", "queued"}
    BY <1>1, FreshJobs DEF Run
  <2>2. consumed' = consumed /\ result'.raw = {} /\ cache' = cache
    BY <1>1 DEF Run, NoResult
  <2> QED
    BY <2>1, <2>2, EntryTypes DEF CacheInv, MissesUncached, DoneCached, Settled
<1>2. ASSUME NEW h \in Hours, Read(h) PROVE CacheInv'
  BY <1>2, QuietMove DEF Read, Outcome
<1>3. ASSUME NEW h \in Hours, Miss(h) PROVE CacheInv'
  BY <1>3, QuietMove DEF Miss, IsCached, Job, NoJob
<1>4. ASSUME NEW h \in Hours, Answer(h) PROVE CacheInv'
  <2>1. cache[h] = NoFile
    BY <1>4 DEF Answer, At, CacheInv, MissesUncached
  <2> QED
    BY <2>1, <1>4, QuietMove DEF Answer
<1>5. ASSUME NEW h \in Hours, Retry(h) PROVE CacheInv'
  <2>1. cache[h] = NoFile
    BY <1>5 DEF Retry, At, CacheInv, MissesUncached
  <2> QED
    BY <2>1, <1>5, QuietMove DEF Retry
<1>6. ASSUME NEW h \in Hours, Wake(h) PROVE CacheInv'
  <2>1. cache[h] = NoFile
    BY <1>6 DEF Wake, At, CacheInv, MissesUncached
  <2>2. [job[h] EXCEPT !.step = "get"].step = "get"
    BY DEF TypeOK, JobType
  <2> QED
    BY <2>1, <2>2, <1>6, QuietMove DEF Wake
<1>7. ASSUME NEW h \in Hours, GiveUp(h) PROVE CacheInv'
  BY <1>7, QuietMove DEF GiveUp, Job, NoJob
<1>8. ASSUME NEW h \in Hours, Store(h) PROVE CacheInv'
  <2>1. cache[h] = NoFile
    BY <1>8 DEF Store, At, CacheInv, MissesUncached
  <2>2. [job[h] EXCEPT !.step = "writing"].step = "writing"
    BY DEF TypeOK, JobType
  <2> QED
    BY <2>1, <2>2, <1>8, WritingMove DEF Store
<1>9. ASSUME NEW h \in Hours, WriteSome(h) PROVE CacheInv'
  BY <1>9, WritingMove DEF WriteSome, At
<1>10. ASSUME NEW h \in Hours, WriteRest(h) PROVE CacheInv'
  BY <1>10, WritingMove DEF WriteRest, At, Outcome
<1>11. ASSUME NEW h \in Hours, IOFails(h) PROVE CacheInv'
  BY <1>11, QuietMove DEF IOFails, Job, NoJob
<1>12. ASSUME Cancel PROVE CacheInv'
  <2>1. \A h \in Hours : job'[h] = job[h] \/ job'[h].step = "cancelled"
    BY <1>12 DEF Cancel, Job, NoJob
  <2>2. consumed' = consumed /\ result' = result /\ cache' = cache
    BY <1>12 DEF Cancel
  <2> QED
    BY <2>1, <2>2, EntryTypes DEF CacheInv, MissesUncached, DoneCached, Settled
<1>13. ASSUME Raise \/ Crash PROVE CacheInv'
  <2>1. \A h \in Hours : job'[h].step \in {"none", "queued"}
    BY <1>13, FreshJobs DEF Raise, Crash, Abandon
  <2>2. consumed' = consumed /\ result'.raw = {} /\ cache' = cache
    BY <1>13 DEF Raise, Crash, Abandon, NoResult
  <2> QED
    BY <2>1, <2>2, EntryTypes DEF CacheInv, MissesUncached, DoneCached, Settled
<1>14. ASSUME NextDay PROVE CacheInv'
  <2>1. \A h \in Hours : job'[h].step \in {"none", "queued"}
    BY <1>14, FreshJobs DEF NextDay
  <2>2. consumed' = consumed /\ result' = Gathered /\ cache' = cache
    BY <1>14 DEF NextDay
  <2> QED
    BY <2>1, <2>2, EntryTypes, GatheredSettled
    DEF CacheInv, MissesUncached, DoneCached, Settled
<1>15. ASSUME Finish PROVE CacheInv'
  <2>1. \A h \in Hours : job'[h].step \in {"none", "queued"}
    BY <1>15, FreshJobs DEF Finish
  <2>2. /\ consumed' = consumed \cup Gathered.raw
        /\ result' = Gathered /\ cache' = cache
    BY <1>15 DEF Finish
  <2> QED
    BY <2>1, <2>2, EntryTypes, GatheredSettled
    DEF CacheInv, MissesUncached, DoneCached, Settled
<1>16. ASSUME NEW h \in Hours, Publish(h) PROVE CacheInv'
  BY <1>16 DEF Publish, CacheInv, MissesUncached, DoneCached, Settled
<1>17. ASSUME UNCHANGED vars PROVE CacheInv'
  BY <1>17 DEF vars, CacheInv, MissesUncached, DoneCached, Settled
<1> QED
  BY <1>1, <1>2, <1>3, <1>4, <1>5, <1>6, <1>7, <1>8, <1>9, <1>10, <1>11, <1>12,
     <1>13, <1>14, <1>15, <1>16, <1>17 DEF Next, Work

\* Two backfills never return different bytes for an hour, in whatever order
\* they ran, whatever crashed in between and whatever the feed published.
THEOREM RepeatIdenticalHolds == Spec => []RepeatIdentical
<1>1. TypeOK /\ CacheInv => RepeatIdentical
  <2> SUFFICES ASSUME TypeOK, CacheInv, NEW a \in consumed, NEW b \in consumed, a[1] = b[1]
               PROVE  a = b
    BY DEF RepeatIdentical
  <2>1. a[2] = b[2]
    BY DEF CacheInv, Settled
  <2> QED
    BY <2>1 DEF TypeOK
<1> QED
  BY <1>1, TypeInit, TypeStep, CacheInit, CacheStep, PTL DEF Spec

----------------------------------------------------------------------------
(***************************************************************************)
(* Why an undisturbed run never takes an error for a closed market: a file  *)
(* is empty while it is being written, and no write is under way when a run *)
(* ends, because a job belongs to the day being processed and a day ends    *)
(* when all of its jobs have returned.                                     *)
(***************************************************************************)

Quiet == ClosedHours \cup LateHours

\* Jobs belong to the day being processed.
JobsInSlice ==
  \A h \in Hours : job[h].step # "none" => pc = "run" /\ h \in Slice

\* An hour with ticks is empty neither at the feed nor, but for the moment its
\* file is being written, in the cache.
TicksKept ==
  \A h \in Hours \ Quiet :
    /\ feed[h] = Body
    /\ ~damaged =>
         /\ job[h].step \in {"store", "writing"} => job[h].payload = Body
         /\ cache[h] = Empty => job[h].step = "writing"

LEMMA SliceInit == Init => JobsInSlice
  BY DEF Init, JobsInSlice, NoJobs, NoJob

LEMMA SubmittedSlice ==
  ASSUME NEW hs, NEW h \in Hours, Submitted(hs)[h].step # "none"
  PROVE  h \in hs
  BY DEF Submitted, NoJob

LEMMA SliceStep == TypeOK /\ JobsInSlice /\ [Next]_vars => JobsInSlice'
<1> SUFFICES ASSUME TypeOK, JobsInSlice, [Next]_vars PROVE JobsInSlice'
  OBVIOUS
<1>1. ASSUME NEW s \in Instants, NEW e \in Instants, NEW w \in WorkerChoices, Run(s, e, w)
      PROVE  JobsInSlice'
  <2>1. Slice' = HoursIn(s, SliceEnd(s, e)) /\ pc' = "run"
    BY <1>1 DEF Run, Slice, HoursIn, SliceEnd, Earlier
  <2> QED
    BY <1>1, <2>1, SubmittedSlice DEF Run, JobsInSlice
<1>2. ASSUME NEW h \in Hours, NEW j, Becomes(h, j), job[h].step # "none" PROVE JobsInSlice'
  <2>1. Slice' = Slice /\ pc' = pc
    BY <1>2 DEF Becomes, Slice, HoursIn, SliceEnd, Earlier
  <2> QED
    BY <1>2, <2>1, Moved DEF JobsInSlice
<1>3. ASSUME NEW h \in Hours,
             Read(h) \/ Miss(h) \/ Answer(h) \/ Retry(h) \/ Wake(h) \/ GiveUp(h)
      PROVE  JobsInSlice'
  BY <1>2, <1>3 DEF Read, Miss, MayTake, Answer, Retry, Wake, GiveUp, At
<1>4. ASSUME NEW h \in Hours, Store(h) \/ WriteSome(h) \/ WriteRest(h) \/ IOFails(h)
      PROVE  JobsInSlice'
  BY <1>2, <1>4 DEF Store, WriteSome, WriteRest, IOFails, MayTake, At
<1>5. ASSUME Cancel PROVE JobsInSlice'
  <2>1. Slice' = Slice /\ pc' = pc
    BY <1>5 DEF Cancel, Slice, HoursIn, SliceEnd, Earlier
  <2>2. \A h \in Hours : job'[h] = job[h] \/ job[h].step = "queued"
    BY <1>5 DEF Cancel, At
  <2> QED
    BY <2>1, <2>2 DEF JobsInSlice
<1>6. ASSUME Raise \/ Crash \/ Finish PROVE JobsInSlice'
  BY <1>6 DEF Raise, Crash, Abandon, Finish, NoJobs, NoJob, JobsInSlice
<1>7. ASSUME NextDay PROVE JobsInSlice'
  <2> DEFINE next == SliceEnd(cursor, window.end)
  <2>1. /\ job' = Submitted(HoursIn(next, SliceEnd(next, window.end)))
        /\ cursor' = next /\ window' = window /\ pc' = "run"
    BY <1>7 DEF NextDay, DayReturned
  <2>2. Slice' = HoursIn(next, SliceEnd(next, window.end))
    <3> HIDE DEF next
    <3> QED
      BY <2>1 DEF Slice, HoursIn, SliceEnd, Earlier
  <2> QED
    BY <2>1, <2>2, SubmittedSlice DEF JobsInSlice
<1>8. ASSUME (\E h \in Hours : Publish(h)) \/ UNCHANGED vars PROVE JobsInSlice'
  BY <1>8 DEF Publish, vars, JobsInSlice, Slice, HoursIn, SliceEnd, Earlier
<1> QED
  BY <1>1, <1>3, <1>4, <1>5, <1>6, <1>7, <1>8 DEF Next, Work

LEMMA TicksInit == Init => TicksKept
  BY BackfillAssumption DEF Init, TicksKept, Quiet, NoJobs, NoJob

\* The jobs are dropped when no hour is being written.
LEMMA TicksDropped ==
  ASSUME TypeOK, TicksKept, NEW hs, job' \in {Submitted(hs), NoJobs},
         damaged' \/ \A h \in Hours : job[h].step # "writing",
         UNCHANGED <<feed, cache>>, damaged => damaged'
  PROVE  TicksKept'
  BY FreshJobs DEF TicksKept

\* A worker leaves the feed and the other hours alone.
LEMMA TicksMoved ==
  ASSUME TypeOK, TicksKept, NEW h \in Hours, NEW j, Becomes(h, j),
         \A g \in Hours \ {h} : cache'[g] = cache[g],
         damaged => damaged',
         h \notin Quiet /\ ~damaged' =>
           /\ j.step \in {"store", "writing"} => j.payload = Body
           /\ cache'[h] = Empty => j.step = "writing"
  PROVE  TicksKept'
<1>1. feed' = feed
  BY DEF Becomes
<1> QED
  BY <1>1, Moved DEF TicksKept

LEMMA TicksStep == TypeOK /\ JobsInSlice /\ TicksKept /\ [Next]_vars => TicksKept'
<1> SUFFICES ASSUME TypeOK, JobsInSlice, TicksKept, [Next]_vars PROVE TicksKept'
  OBVIOUS
<1>1. ASSUME NEW s \in Instants, NEW e \in Instants, NEW w \in WorkerChoices, Run(s, e, w)
      PROVE  TicksKept'
  <2>1. \A h \in Hours : job[h].step # "writing"
    BY <1>1 DEF Run, JobsInSlice
  <2> QED
    BY <1>1, <2>1, TicksDropped DEF Run
<1>2. ASSUME NEW h \in Hours, Read(h) \/ Miss(h) \/ GiveUp(h) PROVE TicksKept'
  BY <1>2, TicksMoved
  DEF Read, Miss, MayTake, GiveUp, At, Outcome, Job, NoJob, TicksKept, Becomes
<1>3. ASSUME NEW h \in Hours, Answer(h) PROVE TicksKept'
  BY <1>3, TicksMoved DEF Answer, At, TicksKept
<1>4. ASSUME NEW h \in Hours, Retry(h) PROVE TicksKept'
  BY <1>4, TicksMoved DEF Retry, At, TicksKept
<1>5. ASSUME NEW h \in Hours, Wake(h) PROVE TicksKept'
  <2>1. [job[h] EXCEPT !.step = "get"].step = "get"
    BY DEF TypeOK, JobType
  <2> QED
    BY <2>1, <1>5, TicksMoved DEF Wake, At, TicksKept
<1>6. ASSUME NEW h \in Hours, Store(h) PROVE TicksKept'
  <2>1. /\ [job[h] EXCEPT !.step = "writing"].step = "writing"
        /\ [job[h] EXCEPT !.step = "writing"].payload = job[h].payload
    BY DEF TypeOK, JobType
  <2>2. job[h].step = "store" /\ (damaged' <=> damaged)
    BY <1>6 DEF Store, At
  <2>3. \A g \in Hours \ {h} : cache'[g] = cache[g]
    BY <1>6 DEF Store, TypeOK
  <2>4. CASE cache[h] = NoFile
    BY <2>1, <2>2, <2>3, <2>4, <1>6, TicksMoved DEF Store, TicksKept
  <2>5. CASE cache[h] # NoFile
    BY <2>2, <2>3, <2>5, <1>6, TicksMoved DEF Store, TicksKept, Outcome
  <2> QED
    BY <2>4, <2>5
<1>7. ASSUME NEW h \in Hours, WriteSome(h) \/ WriteRest(h) PROVE TicksKept'
  <2>1. job[h].step = "writing" /\ (damaged' <=> damaged)
    BY <1>7 DEF WriteSome, WriteRest, At
  <2>2. /\ \A g \in Hours \ {h} : cache'[g] = cache[g]
        /\ cache'[h] \in {Torn, job[h].payload}
    BY <1>7 DEF WriteSome, WriteRest, TypeOK
  <2>3. Becomes(h, job[h]) \/ Becomes(h, Outcome(job[h].payload))
    BY <1>7 DEF WriteSome, WriteRest
  <2> QED
    BY <2>1, <2>2, <2>3, TicksMoved, BackfillAssumption DEF TicksKept, Outcome
<1>8. ASSUME NEW h \in Hours, IOFails(h) PROVE TicksKept'
  BY <1>8, TicksMoved DEF IOFails
<1>9. ASSUME Cancel PROVE TicksKept'
  <2>1. ASSUME NEW h \in Hours
        PROVE  \/ job'[h] = job[h]
               \/ job'[h].step = "cancelled" /\ job[h].step = "queued"
    <3>1. Job("cancelled").step = "cancelled"
      BY DEF Job, NoJob
    <3>2. CASE h \in At("queued")
      BY <1>9, <3>1, <3>2 DEF Cancel, At
    <3>3. CASE h \notin At("queued")
      BY <1>9, <3>3 DEF Cancel
    <3> QED
      BY <3>2, <3>3
  <2> QED
    BY <2>1, <1>9 DEF Cancel, TicksKept
<1>10. ASSUME Raise \/ Crash PROVE TicksKept'
  <2>1. damaged' \/ \A h \in Hours : job[h].step # "writing"
    BY <1>10 DEF Raise, Crash, Running, At
  <2> QED
    BY <2>1, <1>10, TicksDropped DEF Raise, Crash, Abandon
<1>11. ASSUME NextDay \/ Finish PROVE TicksKept'
  <2>1. \A h \in Hours : job[h].step # "writing"
    BY <1>11 DEF NextDay, Finish, DayReturned, Returned, At, JobsInSlice
  <2> QED
    BY <2>1, <1>11, TicksDropped DEF NextDay, Finish
<1>12. ASSUME NEW h \in Hours, Publish(h) PROVE TicksKept'
  BY <1>12 DEF Publish, TicksKept, Quiet, TypeOK
<1>13. ASSUME UNCHANGED vars PROVE TicksKept'
  BY <1>13 DEF vars, TicksKept
<1> QED
  BY <1>1, <1>2, <1>3, <1>4, <1>5, <1>6, <1>7, <1>8, <1>9, <1>10, <1>11, <1>12,
     <1>13 DEF Next, Work

\* As long as no run was interrupted, an hour counted as empty is one the feed
\* had nothing for.
THEOREM EmptyMeansClosedHolds == Spec => []EmptyMeansClosed
<1>1. TypeOK /\ CacheInv /\ JobsInSlice /\ TicksKept => EmptyMeansClosed
  <2> SUFFICES ASSUME TypeOK, CacheInv, TicksKept, ~damaged,
                      NEW h \in Hours \ Quiet, <<h, Empty>> \in result.raw
               PROVE  FALSE
    BY DEF EmptyMeansClosed, RawHours, TypeOK, ResultType, Quiet
  <2>1. cache[h] = Empty /\ job[h].step # "writing"
    BY DEF CacheInv, Settled
  <2> QED
    BY <2>1 DEF TicksKept
<1> QED
  BY <1>1, TypeInit, TypeStep, CacheInit, CacheStep, SliceInit, SliceStep, TicksInit,
     TicksStep, PTL DEF Spec

----------------------------------------------------------------------------
(***************************************************************************)
(* Why the days of a window account for all of it: they end at midnights,   *)
(* which no hour contains, so the hours of a day follow those of the days   *)
(* before it, without one twice or left out.                                *)
(***************************************************************************)

LEMMA Multiples ==
  ASSUME NEW a \in Nat, NEW b \in Nat, NEW L \in Nat \ {0}
  PROVE  (a * L < b * L <=> a < b) /\ (a * L) \div L = a
<1>1. CASE a < b
  <2>1. PICK d \in Nat \ {0} : b = a + d
    <3>1. b - a \in Nat \ {0} /\ b = a + (b - a)
      BY <1>1
    <3> QED
      BY <3>1
  <2>2. d * L >= 1 /\ b * L = a * L + d * L
    BY <2>1
  <2> QED
    BY <1>1, <2>2, SMT
<1>2. CASE b <= a
  <2>1. PICK d \in Nat : a = b + d
    <3>1. a - b \in Nat /\ a = b + (a - b)
      BY <1>2
    <3> QED
      BY <3>1
  <2>2. d * L >= 0 /\ a * L = b * L + d * L
    BY <2>1
  <2> QED
    BY <1>2, <2>2, SMT
<1> QED
  BY <1>1, <1>2

\* A midnight inside the window is the end of an hour.
LEMMA NextMidnight ==
  ASSUME NEW c \in Nat, NEW e \in Nat, c < e
  PROVE  /\ SliceEnd(c, e) \in Nat /\ c < SliceEnd(c, e) /\ SliceEnd(c, e) <= e
         /\ SliceEnd(c, e) < e => \E k \in Nat : SliceEnd(c, e) = k * HourLength
<1> DEFINE q == c \div DayLength
           m == DayLength \div HourLength
<1>1. DayLength \in Nat \ {0} /\ HourLength \in Nat \ {0}
  BY BackfillAssumption
<1>2. q \in Nat /\ c < (q + 1) * DayLength
  BY <1>1
<1>3. m \in Nat /\ DayLength = m * HourLength
  BY <1>1, BackfillAssumption
<1> HIDE DEF q, m
<1>4. (q + 1) * m \in Nat /\ (q + 1) * DayLength = ((q + 1) * m) * HourLength
  BY <1>1, <1>2, <1>3
<1>5. SliceEnd(c, e) = IF (q + 1) * DayLength < e THEN (q + 1) * DayLength ELSE e
  BY DEF SliceEnd, Earlier, q
<1>6. (q + 1) * DayLength \in Nat
  BY <1>1, <1>2
<1> QED
  BY <1>2, <1>4, <1>5, <1>6

\* The hours up to the end of an hour and those from it on.
LEMMA HoursSplit ==
  ASSUME NEW s \in Nat, NEW k \in Nat, NEW e \in Nat, s <= k * HourLength, k * HourLength <= e
  PROVE  /\ HoursIn(s, k * HourLength) \cup HoursIn(k * HourLength, e) = HoursIn(s, e)
         /\ HoursIn(s, k * HourLength) \cap HoursIn(k * HourLength, e) = {}
<1> DEFINE c == k * HourLength
           q == s \div HourLength
<1>1. HourLength \in Nat \ {0} /\ Hours \subseteq Nat /\ c \in Nat
  BY BackfillAssumption
<1>2. c \div HourLength = k
  BY <1>1, Multiples
<1>3. q \in Nat /\ q * HourLength <= s
  BY <1>1
<1>4. q <= k
  BY <1>1, <1>3, Multiples
<1>5. \A h \in Hours : h * HourLength \in Nat /\ (h * HourLength < c <=> h < k)
  BY <1>1, Multiples
<1> HIDE DEF c, q
<1>6. /\ HoursIn(s, c) = {h \in Hours : q <= h /\ h < k}
      /\ HoursIn(c, e) = {h \in Hours : k <= h /\ h * HourLength < e}
      /\ HoursIn(s, e) = {h \in Hours : q <= h /\ h * HourLength < e}
  BY <1>2, <1>5 DEF HoursIn, q
<1>7. c <= e
  BY DEF c
<1>8. \A h \in Hours : h < k => h * HourLength < e
  BY <1>1, <1>5, <1>7
<1>9. k \in Nat /\ \A h \in Hours : h \in Nat /\ (h < k \/ k <= h)
  BY <1>1
<1>10. \A h \in Hours : k <= h => q <= h /\ ~(h < k)
  BY <1>3, <1>4, <1>9
<1>11. /\ HoursIn(s, c) \cup HoursIn(c, e) = HoursIn(s, e)
       /\ HoursIn(s, c) \cap HoursIn(c, e) = {}
  BY <1>6, <1>8, <1>9, <1>10
<1> QED
  BY <1>11 DEF c

LEMMA CountedApart ==
  ASSUME NEW A \in SUBSET Hours, NEW B \in SUBSET Hours, A \cap B = {}
  PROVE  Cardinality(A \cup B) = Cardinality(A) + Cardinality(B)
<1>1. IsFiniteSet(A) /\ IsFiniteSet(B)
  BY BackfillAssumption, FS_Subset
<1>2. Cardinality(A \cap B) = 0
  BY FS_EmptySet
<1>3. Cardinality(A \cup B) = Cardinality(A) + Cardinality(B) - Cardinality(A \cap B)
  BY <1>1, FS_Union
<1>4. Cardinality(A) \in Nat /\ Cardinality(B) \in Nat
  BY CountedHours
<1> QED
  BY <1>2, <1>3, <1>4

\* What the result says of a set of hours.
AccountsFor(S) ==
  /\ RawHours \cup FailedDownloads = S
  /\ RawHours \cap FailedDownloads = {}
  /\ result.decoded \cup FailedDecodes \subseteq RawHours
  /\ result.requested = Cardinality(S)
  /\ Cardinality(RawHours) =
       Cardinality(result.decoded) + result.empty + Cardinality(FailedDecodes)

\* The hours of the days before the one being processed.
Covered == IF cursor = window.start THEN {} ELSE HoursIn(window.start, cursor)

DaysCovered ==
  /\ pc = "run" =>
       /\ window.start <= cursor /\ cursor < window.end
       /\ cursor = window.start \/ \E k \in Nat : cursor = k * HourLength
       /\ AccountsFor(Covered)
  /\ pc = "done" => AccountsFor(HoursIn(window.start, window.end))

LEMMA CoveredGrows ==
  ASSUME TypeOK, DaysCovered, pc = "run"
  PROVE  /\ HoursIn(window.start, SliceEnd(cursor, window.end)) = Covered \cup Slice
         /\ Covered \cap Slice = {}
<1> DEFINE n == SliceEnd(cursor, window.end)
<1>1. window.start \in Nat /\ window.end \in Nat /\ cursor \in Nat
  BY DEF TypeOK, WindowType
<1>2. n \in Nat /\ cursor < n
  BY <1>1, NextMidnight DEF DaysCovered
<1> HIDE DEF n
<1>3. CASE cursor = window.start
  BY <1>3 DEF Covered, Slice, n
<1>4. CASE cursor # window.start
  <2>1. PICK k \in Nat : cursor = k * HourLength
    BY <1>4 DEF DaysCovered
  <2> QED
    BY <1>1, <1>2, <1>4, <2>1, HoursSplit DEF DaysCovered, Covered, Slice, n
<1> QED
  BY <1>3, <1>4 DEF n

LEMMA GatheredAccounts ==
  ASSUME TypeOK, JobsInSlice, DayReturned, AccountsFor(Covered), Covered \cap Slice = {},
         result' = Gathered, NEW S, S = Covered \cup Slice
  PROVE  AccountsFor(S)'
<1> DEFINE D == At("done")
           F == At("failed")
<1>1. /\ D \cup F = Slice /\ D \cap F = {}
      /\ D \in SUBSET Hours /\ F \in SUBSET Hours
  BY DEF DayReturned, Returned, At, JobsInSlice, Slice, HoursIn
<1>2. /\ D = Holding(Empty) \cup Holding(Torn) \cup Holding(Body)
      /\ Holding(Empty) \cap Holding(Torn) = {} /\ Holding(Empty) \cap Holding(Body) = {}
      /\ Holding(Torn) \cap Holding(Body) = {}
  BY BackfillAssumption DEF Holding, At, TypeOK, JobType, Payloads
<1>3. /\ Gathered.raw = result.raw \cup {<<h, job[h].payload>> : h \in D}
      /\ Gathered.failures = result.failures \cup {<<h, "download">> : h \in F}
                                             \cup {<<h, "decode">> : h \in Holding(Torn)}
      /\ Gathered.decoded = result.decoded \cup Holding(Body)
      /\ Gathered.requested = result.requested + Cardinality(Slice)
      /\ Gathered.empty = result.empty + Cardinality(Holding(Empty))
  BY DEF Gathered
<1>4. RawHours' = RawHours \cup D
  <2>1. RawHours' = {e[1] : e \in Gathered.raw}
    BY DEF RawHours
  <2>2. \A e \in Gathered.raw : e[1] \in RawHours \cup D
    BY <1>3 DEF RawHours
  <2>3. ASSUME NEW h \in D PROVE h \in RawHours'
    <3>1. <<h, job[h].payload>> \in Gathered.raw
      BY <1>3
    <3> QED
      BY <2>1, <3>1
  <2>4. RawHours \subseteq RawHours'
    BY <1>3, <2>1 DEF RawHours
  <2> QED
    BY <2>1, <2>2, <2>3, <2>4
<1>5. FailedDownloads' = FailedDownloads \cup F
  BY <1>1, <1>3 DEF FailedDownloads
<1>6. FailedDecodes' = FailedDecodes \cup Holding(Torn)
  BY <1>1, <1>2, <1>3 DEF FailedDecodes
<1>7. /\ RawHours \in SUBSET Hours /\ FailedDownloads \in SUBSET Hours
      /\ FailedDecodes \in SUBSET Hours /\ result.decoded \in SUBSET Hours
      /\ Covered \in SUBSET Hours /\ Slice \in SUBSET Hours
      /\ result.requested \in Nat /\ result.empty \in Nat
  BY DEF RawHours, FailedDownloads, FailedDecodes, TypeOK, ResultType, Covered, Slice, HoursIn
<1> HIDE DEF D, F
<1>8. /\ RawHours \cap D = {} /\ RawHours \cap F = {} /\ FailedDownloads \cap D = {}
      /\ result.decoded \cap Holding(Body) = {} /\ FailedDecodes \cap Holding(Torn) = {}
  BY <1>1, <1>2 DEF AccountsFor
<1>9. /\ RawHours' \cup FailedDownloads' = S /\ RawHours' \cap FailedDownloads' = {}
      /\ result'.decoded \cup FailedDecodes' \subseteq RawHours'
  BY <1>1, <1>2, <1>3, <1>4, <1>5, <1>6, <1>8 DEF AccountsFor
<1>10. result'.requested = Cardinality(S)
  BY <1>3, <1>7, CountedApart, CountedHours DEF AccountsFor
<1>11. Cardinality(RawHours') = Cardinality(RawHours) + Cardinality(D)
  BY <1>1, <1>4, <1>7, <1>8, CountedApart
<1>12. /\ Cardinality(result'.decoded) = Cardinality(result.decoded) + Cardinality(Holding(Body))
       /\ Cardinality(FailedDecodes') = Cardinality(FailedDecodes) + Cardinality(Holding(Torn))
  BY <1>1, <1>2, <1>3, <1>6, <1>7, <1>8, CountedApart
<1>13. Cardinality(D) = Cardinality(Holding(Empty)) + Cardinality(Holding(Torn))
                          + Cardinality(Holding(Body))
  <2> DEFINE E == Holding(Empty) \cup Holding(Torn)
  <2>1. /\ E \in SUBSET Hours /\ E \cap Holding(Body) = {} /\ D = E \cup Holding(Body)
        /\ Holding(Empty) \in SUBSET Hours /\ Holding(Torn) \in SUBSET Hours
        /\ Holding(Body) \in SUBSET Hours
    BY <1>1, <1>2
  <2>2. Cardinality(E) = Cardinality(Holding(Empty)) + Cardinality(Holding(Torn))
    BY <1>2, <2>1, CountedApart
  <2> HIDE DEF E
  <2> QED
    BY <2>1, <2>2, CountedApart
<1>14. /\ Cardinality(RawHours) \in Nat /\ Cardinality(D) \in Nat
       /\ Cardinality(result.decoded) \in Nat /\ Cardinality(FailedDecodes) \in Nat
       /\ Cardinality(Holding(Empty)) \in Nat /\ Cardinality(Holding(Torn)) \in Nat
       /\ Cardinality(Holding(Body)) \in Nat
  BY <1>1, <1>2, <1>7, CountedHours
<1>15. result'.empty = result.empty + Cardinality(Holding(Empty))
  BY <1>3
<1>16. Cardinality(RawHours') =
         Cardinality(result'.decoded) + result'.empty + Cardinality(FailedDecodes')
  BY <1>7, <1>11, <1>12, <1>13, <1>14, <1>15 DEF AccountsFor
<1> QED
  BY <1>9, <1>10, <1>16 DEF AccountsFor

LEMMA DaysInit == Init => DaysCovered
  BY DEF Init, DaysCovered

\* Nothing but the result, the window and the cursor matters.
LEMMA SameDays ==
  ASSUME DaysCovered, UNCHANGED <<pc, window, cursor, result>>
  PROVE  DaysCovered'
BY DEF DaysCovered, AccountsFor, Covered, RawHours, FailedDownloads, FailedDecodes, HoursIn

LEMMA DaysStep == TypeOK /\ JobsInSlice /\ DaysCovered /\ [Next]_vars => DaysCovered'
<1> SUFFICES ASSUME TypeOK, JobsInSlice, DaysCovered, [Next]_vars PROVE DaysCovered'
  OBVIOUS
<1>1. ASSUME NEW s \in Instants, NEW e \in Instants, NEW w \in WorkerChoices, Run(s, e, w)
      PROVE  DaysCovered'
  <2>1. /\ pc' = "run" /\ window' = [start |-> s, end |-> e, workers |-> w] /\ cursor' = s
        /\ result' = NoResult /\ s < e
    BY <1>1 DEF Run
  <2>2. s \in Nat /\ e \in Nat
    BY InstantsType
  <2>3. Covered' = {} /\ RawHours' = {} /\ FailedDownloads' = {} /\ FailedDecodes' = {}
    BY <2>1 DEF Covered, RawHours, FailedDownloads, FailedDecodes, NoResult
  <2>4. AccountsFor(Covered)'
    BY <2>1, <2>3, FS_EmptySet DEF AccountsFor, NoResult
  <2> QED
    BY <2>1, <2>2, <2>4 DEF DaysCovered
<1>2. ASSUME NEW h \in Hours,
             Read(h) \/ Miss(h) \/ Answer(h) \/ Retry(h) \/ Wake(h) \/ GiveUp(h)
               \/ Store(h) \/ WriteSome(h) \/ WriteRest(h) \/ IOFails(h)
      PROVE  DaysCovered'
  <2>1. UNCHANGED <<pc, window, cursor, result>>
    BY <1>2 DEF Read, Miss, Answer, Retry, Wake, GiveUp, Store, WriteSome, WriteRest, IOFails, Becomes
  <2> QED
    BY <2>1, SameDays
<1>3. CASE Cancel \/ (\E h \in Hours : Publish(h)) \/ UNCHANGED vars
  BY <1>3, SameDays DEF Cancel, Publish, vars
<1>4. CASE Raise \/ Crash
  BY <1>4 DEF Raise, Crash, Abandon, DaysCovered
<1>5. ASSUME DayReturned
      PROVE  /\ HoursIn(window.start, SliceEnd(cursor, window.end)) = Covered \cup Slice
             /\ pc = "run" /\ window.start <= cursor /\ cursor < window.end
             /\ result' = Gathered =>
                  \A S : S = Covered \cup Slice => AccountsFor(S)'
  BY <1>5, CoveredGrows, GatheredAccounts DEF DayReturned, DaysCovered
<1>6. CASE NextDay
  <2> DEFINE n == SliceEnd(cursor, window.end)
  <2>1. /\ DayReturned /\ n < window.end /\ cursor' = n /\ result' = Gathered
        /\ UNCHANGED <<window, pc>>
    BY <1>6 DEF NextDay
  <2>2. /\ window.start \in Nat /\ cursor \in Nat /\ window.end \in Nat
        /\ window.start <= cursor /\ cursor < window.end
    BY <1>5, <2>1 DEF TypeOK, WindowType
  <2>3. n \in Nat /\ cursor < n /\ \E k \in Nat : n = k * HourLength
    BY <2>1, <2>2, NextMidnight
  <2> HIDE DEF n
  <2>4. Covered' = HoursIn(window.start, n)
    BY <2>1, <2>2, <2>3 DEF Covered, HoursIn
  <2>5. HoursIn(window.start, n) = Covered \cup Slice
    BY <1>5, <2>1 DEF n
  <2>6. PICK S : S = Covered \cup Slice
    OBVIOUS
  <2>7. AccountsFor(S)' /\ S = Covered'
    BY <1>5, <2>1, <2>4, <2>5, <2>6
  <2>8. AccountsFor(Covered)'
    BY <2>7 DEF AccountsFor
  <2> QED
    BY <1>5, <2>1, <2>2, <2>3, <2>8 DEF DaysCovered
<1>7. CASE Finish
  <2>1. /\ DayReturned /\ SliceEnd(cursor, window.end) = window.end /\ pc' = "done"
        /\ result' = Gathered /\ window' = window
    BY <1>7 DEF Finish
  <2>2. PICK S : S = Covered \cup Slice
    OBVIOUS
  <2>3. HoursIn(window.start, window.end)' = HoursIn(window.start, window.end)
    BY <2>1 DEF HoursIn
  <2>4. AccountsFor(S)' /\ S = HoursIn(window.start, window.end)'
    BY <1>5, <2>1, <2>2, <2>3
  <2>5. AccountsFor(HoursIn(window.start, window.end))'
    BY <2>4 DEF AccountsFor
  <2> QED
    BY <2>1, <2>5 DEF DaysCovered
<1> QED
  BY <1>1, <1>2, <1>3, <1>4, <1>6, <1>7 DEF Next, Work

\* Whatever the window, the days and the workers, a run that returns accounts
\* for each hour of the window once.
THEOREM EveryHourAccountedHolds == Spec => []EveryHourAccounted
<1>1. DaysCovered => EveryHourAccounted
  BY DEF DaysCovered, AccountsFor, EveryHourAccounted
<1> QED
  BY <1>1, TypeInit, TypeStep, SliceInit, SliceStep, DaysInit, DaysStep, PTL DEF Spec
=============================================================================
