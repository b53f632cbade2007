------------------------------- MODULE Ingest -------------------------------
(***************************************************************************)
(* One run after another over the same data root (storage/parquet_store.py,*)
(* storage/manifest.py), of two pipelines:                                 *)
(*   "ingest"    IngestPipeline.run fetches every requested series from a  *)
(*               provider (data/ingest.py);                                *)
(*   "backfill"  RealDataPipeline.run backfills every requested symbol and *)
(*               derives its higher timeframes from the 1-minute series    *)
(*               (data/realdata.py).                                       *)
(* A series is normalized and written as one Parquet file per year; then a *)
(* manifest records what was written.  Files outlive the process; the      *)
(* result being assembled does not.  A file's bytes are a content, and its *)
(* SHA-256 is that content.                                                *)
(***************************************************************************)
EXTENDS Integers, FiniteSets, FiniteSetsExt, Sequences, SequencesExt

CONSTANTS
  Symbols,
  Stack,              \* the base timeframe and DERIVED_TIMEFRAMES
  Years,
  Versions,           \* dataset versions
  Contents,           \* what a year of candles may serialise to
  IngestRequests,     \* the sets of series callers ask an ingest for
  BackfillRequests,   \* the sets of symbols they ask a backfill for
  OverwriteChoices,   \* the values of the overwrite flag they pass
  MaxRuns,            \* bound: runs started
  NoFile, Partial     \* a path without a file; a file not written to its end

ASSUME IngestAssumption ==
  /\ Stack \in Seq(ToSet(Stack)) /\ Len(Stack) > 0 /\ IsInjective(Stack)
  /\ Symbols \cap (Symbols \X ToSet(Stack)) = {}   \* a symbol is not a series
  /\ Years \subseteq Nat /\ IsFiniteSet(Years)
  /\ IngestRequests \subseteq SUBSET (Symbols \X ToSet(Stack))
  /\ BackfillRequests \subseteq SUBSET Symbols
  /\ OverwriteChoices \subseteq BOOLEAN
  /\ MaxRuns \in Nat
  /\ NoFile # Partial
  /\ {NoFile, Partial} \cap Contents = {}

Pairs == Symbols \X ToSet(Stack)               \* the (symbol, timeframe) series

Paths == Pairs \X Years                       \* partition_path

VARIABLES
  disk,       \* per partition path: NoFile, Partial or the file's content
  manifests,  \* per dataset version: NoFile, Partial or the manifest
  pc,         \* what the running pipeline does next
  request,    \* the arguments of run
  todo,       \* the units not begun yet
  unit,       \* the series left of the unit at hand, the one being written first
  chunk,      \* its years still to write, with their content
  written,    \* its PartitionInfos so far
  provenance, \* the series of the symbol at hand that are written
  result,     \* the IngestResult or RealDataResult
  runs,       \* runs started
  damaged     \* history: a crash or an I/O error has happened

vars == <<disk, manifests, pc, request, todo, unit, chunk, written, provenance,
          result, runs, damaged>>

\* failures names a series, or a symbol when all of its series fail together; the
\* hours a backfill could not download change nothing in the run and are left out.
NoResult  == [partitions |-> {}, reports |-> {}, datasets |-> {}, failures |-> {}]
NoRequest == [pipeline |-> "ingest", pairs |-> {}, version |-> NoFile, overwrite |-> FALSE]
NoChunk   == [y \in {} |-> NoFile]

Init ==
  /\ disk = [p \in Paths |-> NoFile]
  /\ manifests = [v \in Versions |-> NoFile]
  /\ pc = "idle" /\ request = NoRequest
  /\ todo = {} /\ unit = <<>> /\ chunk = NoChunk /\ written = {} /\ provenance = {}
  /\ result = NoResult
  /\ runs = 0
  /\ damaged = FALSE

----------------------------------------------------------------------------
\* IngestPipeline.run and RealDataPipeline.run

\* What one try block covers: a series, or all the timeframes of a symbol.
IngestUnits(pairs) == {<<p>> : p \in pairs}
BackfillUnits(symbols) == {[i \in DOMAIN Stack |-> <<s, Stack[i]>>] : s \in symbols}

Run(pipeline, units, version, overwrite) ==
  /\ pc = "idle" /\ runs < MaxRuns
  /\ runs' = runs + 1
  /\ pc' = "unit"
  /\ request' = [pipeline |-> pipeline, pairs |-> UNION {ToSet(u) : u \in units},
                 version |-> version, overwrite |-> overwrite]
  /\ todo' = units
  /\ result' = NoResult
  /\ UNCHANGED <<disk, manifests, unit, chunk, written, provenance, damaged>>

\* The process forgets the unit at hand.
DropUnit == unit' = <<>> /\ chunk' = NoChunk /\ written' = {} /\ provenance' = {}

\* How a failure names what failed: the series, or the symbol.
Culprit(u) == IF request.pipeline = "ingest" THEN Head(u) ELSE Head(u)[1]

\* An exception inside the try block: recorded, the next unit is tried.
UnitFails ==
  /\ result' = [result EXCEPT !.failures = @ \cup {Culprit(unit)}]
  /\ pc' = "unit"
  /\ DropUnit
  /\ UNCHANGED <<manifests, request, todo, runs>>

\* fetch, or the backfill, and normalize return one chunk per calendar year that
\* has bars; a backfill without bars is a failure ...
Fetch(u, c) ==
  /\ pc = "unit" /\ u \in todo
  /\ request.pipeline = "backfill" => DOMAIN c # {}
  /\ todo' = todo \ {u}
  /\ unit' = u
  /\ chunk' = c
  /\ pc' = "write"
  /\ UNCHANGED <<disk, manifests, request, written, provenance, result, runs, damaged>>

\* ... and so is an exception.
FetchFails(u) ==
  /\ pc = "unit" /\ u \in todo
  /\ todo' = todo \ {u}
  /\ result' = [result EXCEPT !.failures = @ \cup {Culprit(u)}]
  /\ UNCHANGED <<disk, manifests, pc, request, unit, chunk, written, provenance, runs, damaged>>

----------------------------------------------------------------------------
\* ParquetCandleStore.write: the years in ascending order.

Path == <<Head(unit), Min(DOMAIN chunk)>>

\* A mutant: an existing partition is replaced without being asked to.
CollidesNever == FALSE

\* ImmutableWriteError is raised for the next year.
Collides == disk[Path] # NoFile /\ ~request.overwrite

RefusePartition ==
  /\ pc = "write" /\ DOMAIN chunk # {}
  /\ Collides
  /\ UnitFails
  /\ UNCHANGED <<disk, damaged>>

BeginPartition ==
  /\ pc = "write" /\ DOMAIN chunk # {}
  /\ ~Collides
  /\ disk' = [disk EXCEPT ![Path] = Partial]
  /\ pc' = "writing"
  /\ UNCHANGED <<manifests, request, todo, unit, chunk, written, provenance, result, runs, damaged>>

\* to_parquet returns, the file is hashed and its PartitionInfo appended.
EndPartition ==
  /\ pc = "writing"
  /\ disk' = [disk EXCEPT ![Path] = chunk[Path[2]]]
  /\ written' = written \cup {[path |-> Path, sha256 |-> chunk[Path[2]]]}
  /\ chunk' = [y \in DOMAIN chunk \ {Path[2]} |-> chunk[y]]
  /\ pc' = "write"
  /\ UNCHANGED <<manifests, request, todo, unit, provenance, result, runs, damaged>>

\* to_parquet raises half way (a full disk); the library may or may not remove
\* the file it had begun.
PartitionFails ==
  /\ pc = "writing"
  /\ \E left \in {NoFile, Partial} : disk' = [disk EXCEPT ![Path] = left]
  /\ UnitFails
  /\ damaged' = TRUE

SeriesWritten == pc = "write" /\ DOMAIN chunk = {}

\* write returned: the series' partitions and its report join the result.
Record ==
  /\ result' = [partitions |-> result.partitions \cup written,
                 reports    |-> result.reports \cup {Head(unit)},
                 datasets   |-> result.datasets,
                 failures   |-> result.failures]
  /\ chunk' = NoChunk /\ written' = {}

PairDone ==
  /\ SeriesWritten /\ request.pipeline = "ingest"
  /\ Record
  /\ unit' = <<>> /\ pc' = "unit"
  /\ UNCHANGED <<disk, manifests, request, todo, provenance, runs, damaged>>

----------------------------------------------------------------------------
\* _materialise_symbol: each series joins the result as soon as it is written,
\* its provenance only when the symbol is through.

\* A mutant: the provenance joins the result with the series.
SeriesDoneAtOnce ==
  /\ SeriesWritten /\ request.pipeline = "backfill"
  /\ result' = [result EXCEPT !.partitions = @ \cup written, !.reports = @ \cup {Head(unit)},
                            !.datasets = @ \cup {Head(unit)}]
  /\ chunk' = NoChunk /\ written' = {}
  /\ unit' = Tail(unit) /\ pc' = "derive"
  /\ UNCHANGED <<disk, manifests, request, todo, provenance, runs, damaged>>

SeriesDone ==
  /\ SeriesWritten /\ request.pipeline = "backfill"
  /\ Record
  /\ provenance' = provenance \cup {Head(unit)}
  /\ unit' = Tail(unit) /\ pc' = "derive"
  /\ UNCHANGED <<disk, manifests, request, todo, runs, damaged>>

\* The years of the base series, which the derived ones are cut from.
BaseYears == {e.path[2] : e \in {x \in result.partitions : x.path[1] = <<Head(unit)[1], Stack[1]>>}}

\* resample and normalize return what there is of the next timeframe ...
Derive(c) ==
  /\ pc = "derive" /\ unit # <<>>
  /\ DOMAIN c # {} /\ DOMAIN c \subseteq BaseYears
  /\ chunk' = c /\ pc' = "write"
  /\ UNCHANGED <<disk, manifests, request, todo, unit, written, provenance, result, runs, damaged>>

\* ... or no bar at all.
DeriveNothing ==
  /\ pc = "derive" /\ unit # <<>>
  /\ result' = [result EXCEPT !.failures = @ \cup {Head(unit)}]
  /\ unit' = Tail(unit)
  /\ UNCHANGED <<disk, manifests, pc, request, todo, chunk, written, provenance, runs, damaged>>

\* provenance.extend, once _materialise_symbol has returned.
SymbolDone ==
  /\ pc = "derive" /\ unit = <<>>
  /\ result' = [result EXCEPT !.datasets = @ \cup provenance]
  /\ provenance' = {} /\ pc' = "unit"
  /\ UNCHANGED <<disk, manifests, request, todo, unit, chunk, written, runs, damaged>>

----------------------------------------------------------------------------
\* _write_manifest and ManifestStore.write, once no unit is left.

Finished == pc = "unit" /\ todo = {}

NothingIngested == result.partitions = {} /\ result.reports = {}

Stop ==
  /\ pc' = "idle"
  /\ request' = NoRequest /\ result' = NoResult /\ todo' = {}
  /\ DropUnit

SkipManifest ==
  /\ Finished /\ NothingIngested
  /\ Stop
  /\ UNCHANGED <<disk, manifests, runs, damaged>>

\* FileExistsError leaves run.
RefuseManifest ==
  /\ Finished /\ ~NothingIngested
  /\ manifests[request.version] # NoFile /\ ~request.overwrite
  /\ Stop
  /\ UNCHANGED <<disk, manifests, runs, damaged>>

BeginManifest ==
  /\ Finished /\ ~NothingIngested
  /\ manifests[request.version] = NoFile \/ request.overwrite
  /\ manifests' = [manifests EXCEPT ![request.version] = Partial]
  /\ pc' = "manifest"
  /\ UNCHANGED <<disk, request, todo, unit, chunk, written, provenance, result, runs, damaged>>

EndManifest ==
  /\ pc = "manifest"
  /\ manifests' = [manifests EXCEPT ![request.version] = result]
  /\ Stop
  /\ UNCHANGED <<disk, runs, damaged>>

\* The process dies between any two steps.
Crash ==
  /\ pc # "idle"
  /\ damaged' = TRUE
  /\ Stop
  /\ UNCHANGED <<disk, manifests, runs>>

Chunks == UNION {[ys -> Contents] : ys \in SUBSET Years}

\* What the process does by itself once run was called.
Work ==
  \/ \E u \in todo : (\E c \in Chunks : Fetch(u, c)) \/ FetchFails(u)
  \/ RefusePartition \/ BeginPartition \/ EndPartition \/ PartitionFails
  \/ PairDone \/ SeriesDone \/ SymbolDone
  \/ (\E c \in Chunks : Derive(c)) \/ DeriveNothing
  \/ SkipManifest \/ RefuseManifest \/ BeginManifest \/ EndManifest

Next ==
  \/ \E v \in Versions, o \in OverwriteChoices :
       \/ \E ps \in IngestRequests : Run("ingest", IngestUnits(ps), v, o)
       \/ \E ss \in BackfillRequests : Run("backfill", BackfillUnits(ss), v, o)
  \/ Work
  \/ Crash

Spec == Init /\ [][Next]_vars

----------------------------------------------------------------------------
\* ManifestStore.verify: the entries whose file is missing or changed.
Problems(m) == {e \in m.partitions : disk[e.path] # e.sha256}

Recorded(v) == manifests[v] \notin {NoFile, Partial}

Intact(v) == Recorded(v) /\ Problems(manifests[v]) = {}

Listed(v) == IF Recorded(v) THEN {e.path : e \in manifests[v].partitions} ELSE {}

----------------------------------------------------------------------------
\* A manifest verifies the moment it is complete, and accounts for every series
\* of the request exactly once: with a report, and for a backfill provenance, when
\* its unit went through, among the failures, itself or its symbol, when it did not.
ManifestFaithful ==
  [][\A v \in Versions : manifests'[v] # manifests[v] /\ Recorded(v)' =>
       LET m == manifests'[v]
           through == IF request.pipeline = "ingest" THEN m.reports ELSE m.datasets IN
       /\ Intact(v)'
       /\ through \subseteq m.reports /\ m.reports \subseteq request.pairs
       /\ \A p \in request.pairs : p \in through <=> {p, p[1]} \cap m.failures = {}
       /\ \A e \in m.partitions : e.path[1] \in m.reports]_vars

\* A published dataset stops verifying only while a run that was told to
\* overwrite is writing: neither a crash, nor a failed or refused pair, nor a
\* run of another version changes its bytes or its manifest.
OnlyOverwriteInvalidates ==
  [][\A v \in Versions :
       Intact(v) => Intact(v)' \/ (request.overwrite /\ pc \in {"unit", "write"})]_vars

\* The docstring of ingest.py: "make sure nothing lands on disk without
\* provenance".  Whenever no run is active, every file is listed in a manifest
\* (crashes and I/O errors aside).
NothingWithoutProvenance ==
  pc = "idle" /\ ~damaged =>
    \A p \in Paths : disk[p] # NoFile => \E v \in Versions : p \in Listed(v)
=============================================================================
