---------------------------- MODULE IngestProofs ----------------------------
(***************************************************************************)
(* Proofs about Ingest: what a manifest says is true the moment it is      *)
(* written, and stays so until someone overwrites.                         *)
(***************************************************************************)
EXTENDS Ingest, WellFoundedInduction, TLAPS

----------------------------------------------------------------------------
\* The inductive invariant

Entries == [path : Paths, sha256 : Contents]

Types ==
  /\ disk \in [Paths -> Contents \cup {NoFile, Partial}]
  /\ DOMAIN manifests = Versions
  /\ \A v \in Versions : Recorded(v) => manifests[v].partitions \subseteq Entries
  /\ request \in [pipeline : {"ingest", "backfill"}, pairs : SUBSET Pairs,
                  version : Versions \cup {NoFile}, overwrite : BOOLEAN]
  /\ pc # "idle" => request.version \in Versions
  /\ todo \subseteq Seq(Pairs) /\ unit \in Seq(Pairs) /\ chunk \in Chunks
  /\ written \subseteq Entries /\ provenance \subseteq Pairs
  /\ result \in [partitions : SUBSET Entries, reports : SUBSET Pairs,
                 datasets : SUBSET Pairs, failures : SUBSET (Pairs \cup Symbols)]

\* What the position of the pipeline says of the unit at hand.
Positions ==
  /\ pc \in {"idle", "unit", "write", "writing", "derive", "manifest"}
  /\ pc \in {"write", "writing"} => unit # <<>>
  /\ pc \notin {"write", "writing"} => written = {}
  /\ pc \in {"idle", "unit", "manifest"} => unit = <<>> /\ provenance = {}
  /\ pc = "writing" => DOMAIN chunk # {} /\ disk[Path] = Partial
  /\ pc = "manifest" => todo = {} /\ manifests[request.version] = Partial
  /\ pc = "derive" => request.pipeline = "backfill"
  /\ request.pipeline = "ingest" => provenance = {} /\ result.failures \subseteq Pairs

\* What fails together has one key.
KeyIn(pipeline, p) == IF pipeline = "ingest" THEN p ELSE p[1]

Key(p) == KeyIn(request.pipeline, p)

Waiting == UNION {ToSet(u) : u \in todo}

AtHand == ToSet(unit) \cup provenance

\* The units are made of different series, those at hand belong together.
UnitsApart ==
  /\ \A u \in todo : u # <<>> /\ IsInjective(u) /\ \A p \in ToSet(u) : Key(p) = Culprit(u)
  /\ \A u, w \in todo : Culprit(u) = Culprit(w) => u = w
  /\ IsInjective(unit) /\ ToSet(unit) \cap provenance = {}
  /\ \A p, q \in AtHand : Key(p) = Key(q)
  /\ \A u \in todo, p \in AtHand : Key(p) # Culprit(u)

Through == IF request.pipeline = "ingest" THEN result.reports ELSE result.datasets

Fails(p) == {p, Key(p)} \cap result.failures # {}

\* Every series of the request waits, is at hand, went through or failed.
Accounts ==
  /\ Waiting \cup AtHand \cup Through \subseteq request.pairs
  /\ \A p \in request.pairs : p \in Waiting \cup AtHand \cup Through \/ Fails(p)
  /\ \A p \in Waiting \cup AtHand \cup Through : ~Fails(p)
  /\ \A p \in Waiting \cup AtHand, q \in Through : Key(p) # Key(q)

\* What is reported is on disk, under its own path.
OnDisk ==
  /\ provenance \cup result.datasets \subseteq result.reports
  /\ result.reports \subseteq request.pairs
  /\ result.reports \cap (Waiting \cup ToSet(unit)) = {}
  /\ \A e \in result.partitions : e.path[1] \in result.reports /\ disk[e.path] = e.sha256
  /\ \A e \in written : /\ e.path[1] = Head(unit) /\ e.path[2] \notin DOMAIN chunk
                        /\ disk[e.path] = e.sha256

IngestInv == Types /\ Positions /\ UnitsApart /\ Accounts /\ OnDisk

----------------------------------------------------------------------------
\* Sequences of different elements, and the first of some years

LEMMA HeadAndTail ==
  ASSUME NEW S, NEW u \in Seq(S), u # <<>>, IsInjective(u)
  PROVE  /\ Head(u) \in S /\ Head(u) \in ToSet(u)
         /\ Tail(u) \in Seq(S) /\ IsInjective(Tail(u))
         /\ ToSet(Tail(u)) = ToSet(u) \ {Head(u)}
<1>1. /\ Head(u) \in S /\ Tail(u) \in Seq(S)
      /\ Len(u) \in Nat \ {0} /\ DOMAIN u = 1 .. Len(u) /\ Head(u) = u[1]
      /\ DOMAIN Tail(u) = 1 .. Len(u) - 1
      /\ \A i \in 1 .. Len(u) - 1 : Tail(u)[i] = u[i + 1]
  OBVIOUS
<1>2. IsInjective(Tail(u))
  BY <1>1 DEF IsInjective
<1>3. Head(u) \in ToSet(u)
  BY <1>1 DEF ToSet
<1>4. \A x \in ToSet(Tail(u)) : x \in ToSet(u) /\ x # Head(u)
  BY <1>1 DEF ToSet, IsInjective
<1>5. ASSUME NEW x \in ToSet(u), x # Head(u) PROVE x \in ToSet(Tail(u))
  <2>1. PICK i \in DOMAIN u : x = u[i]
    BY DEF ToSet
  <2>2. i - 1 \in 1 .. Len(u) - 1 /\ x = Tail(u)[i - 1]
    BY <1>1, <1>5, <2>1
  <2> QED
    BY <1>1, <2>2 DEF ToSet
<1> QED
  BY <1>1, <1>2, <1>3, <1>4, <1>5

LEMMA FirstYear ==
  ASSUME NEW Y \in SUBSET Years, Y # {}
  PROVE  Min(Y) \in Y
<1>1. Y \in SUBSET Nat
  BY IngestAssumption
<1>2. IsWellFoundedOn(OpToRel(<, Nat), Nat)
  BY NatLessThanWellFounded
<1>3. PICK x \in Y : \A y \in Y : ~(<<y, x>> \in OpToRel(<, Nat))
  BY <1>1, <1>2, WFMin
<1>4. \A y \in Y : ~(y < x)
  BY <1>1, <1>3 DEF OpToRel
<1>5. \A y \in Y : x <= y
  BY <1>1, <1>4
<1> QED
  BY <1>5 DEF Min

\* Where the next year goes.
LEMMA PathKnown ==
  ASSUME Types, unit # <<>>, DOMAIN chunk # {}
  PROVE  /\ Head(unit) \in Pairs /\ Path \in Paths
         /\ Path[1] = Head(unit) /\ Path[2] \in DOMAIN chunk
         /\ chunk[Path[2]] \in Contents
<1>1. DOMAIN chunk \in SUBSET Years /\ \A y \in DOMAIN chunk : chunk[y] \in Contents
  BY DEF Types, Chunks
<1>2. Min(DOMAIN chunk) \in DOMAIN chunk
  BY <1>1, FirstYear
<1>3. Head(unit) \in Pairs
  BY DEF Types
<1> QED
  BY <1>1, <1>2, <1>3 DEF Path, Paths

\* A key of one series is no other series.
LEMMA Keys ==
  /\ Pairs \cap Symbols = {}
  /\ \A p \in Pairs : p[1] \in Symbols
BY IngestAssumption DEF Pairs

----------------------------------------------------------------------------
\* Init and the steps

LEMMA InvInit == Init => IngestInv
<1> SUFFICES ASSUME Init PROVE IngestInv
  OBVIOUS
<1>1. NoChunk \in Chunks
  BY DEF NoChunk, Chunks
<1>2. ToSet(<<>>) = {} /\ IsInjective(<<>>)
  BY DEF ToSet, IsInjective
<1>3. Types
  BY <1>1 DEF Init, Types, NoResult, NoRequest, Recorded
<1>4. Positions
  BY DEF Init, Positions, NoRequest, NoResult
<1> QED
  BY <1>2, <1>3, <1>4 DEF Init, IngestInv, UnitsApart, Accounts, OnDisk, AtHand, Waiting,
     Through, NoResult, NoRequest

\* The units of a request, whatever the pipeline.
LEMMA UnitsOfARequest ==
  ASSUME NEW pipeline, NEW units,
         \/ pipeline = "ingest" /\ \E ps \in IngestRequests : units = IngestUnits(ps)
         \/ pipeline = "backfill" /\ \E ss \in BackfillRequests : units = BackfillUnits(ss)
  PROVE  /\ units \subseteq Seq(Pairs)
         /\ \A u \in units : u # <<>> /\ IsInjective(u)
                              /\ \A p \in ToSet(u) : KeyIn(pipeline, p) = KeyIn(pipeline, Head(u))
         /\ \A u, w \in units : KeyIn(pipeline, Head(u)) = KeyIn(pipeline, Head(w)) => u = w
<1>1. CASE pipeline = "ingest"
  <2>1. PICK ps \in IngestRequests : units = IngestUnits(ps)
    BY <1>1
  <2>2. ps \subseteq Pairs
    BY <2>1, IngestAssumption DEF Pairs
  <2>3. ASSUME NEW p \in ps
        PROVE  /\ <<p>> \in Seq(Pairs) /\ <<p>> # <<>> /\ IsInjective(<<p>>)
               /\ ToSet(<<p>>) = {p} /\ Head(<<p>>) = p
    BY <2>2 DEF IsInjective, ToSet
  <2>4. \A u \in units : \E p \in ps : u = <<p>>
    BY <2>1 DEF IngestUnits
  <2>5. \A p : KeyIn(pipeline, p) = p
    BY <1>1 DEF KeyIn
  <2>6. \A u \in units : u \in Seq(Pairs) /\ u # <<>> /\ IsInjective(u) /\ ToSet(u) = {Head(u)} /\ u = <<Head(u)>>
    BY <2>3, <2>4
  <2> QED
    BY <2>5, <2>6
<1>2. CASE pipeline = "backfill"
  <2> DEFINE U(s) == [i \in DOMAIN Stack |-> <<s, Stack[i]>>]
  <2>1. PICK ss \in BackfillRequests : units = BackfillUnits(ss)
    BY <1>2
  <2>2. units = {U(s) : s \in ss} /\ ss \subseteq Symbols
    BY <2>1, IngestAssumption DEF BackfillUnits
  <2>3. /\ Len(Stack) \in Nat \ {0} /\ DOMAIN Stack = 1 .. Len(Stack)
        /\ \A i \in DOMAIN Stack : Stack[i] \in ToSet(Stack)
        /\ \A i, j \in DOMAIN Stack : Stack[i] = Stack[j] => i = j
    BY IngestAssumption DEF IsInjective
  <2>4. ASSUME NEW s \in ss
        PROVE  /\ U(s) \in Seq(Pairs) /\ U(s) # <<>> /\ IsInjective(U(s))
               /\ Head(U(s))[1] = s /\ \A p \in ToSet(U(s)) : p[1] = s
    <3>1. DOMAIN U(s) = 1 .. Len(Stack) /\ \A i \in 1 .. Len(Stack) : U(s)[i] = <<s, Stack[i]>>
      BY <2>3
    <3>2. U(s) \in Seq(Pairs)
      BY <2>2, <2>3 DEF Pairs
    <3>3. Len(U(s)) = Len(Stack)
      BY <2>3, <3>1, <3>2
    <3>4. U(s) # <<>>
      BY <2>3, <3>3
    <3>5. IsInjective(U(s))
      BY <2>3 DEF IsInjective
    <3>6. Head(U(s)) = U(s)[1]
      BY <3>2, <3>4
    <3>7. Head(U(s))[1] = s
      BY <2>3, <3>1, <3>6
    <3> HIDE DEF U
    <3> QED
      BY <2>3, <3>1, <3>2, <3>4, <3>5, <3>7 DEF ToSet
  <2>5. \A p : KeyIn(pipeline, p) = p[1]
    BY <1>2 DEF KeyIn
  <2> HIDE DEF U
  <2>6. \A u \in units : /\ u \in Seq(Pairs) /\ u # <<>> /\ IsInjective(u) /\ u = U(Head(u)[1])
                        /\ \A p \in ToSet(u) : p[1] = Head(u)[1]
    BY <2>2, <2>4
  <2> QED
    BY <2>5, <2>6
<1> QED
  BY <1>1, <1>2

LEMMA RunStep ==
  ASSUME IngestInv, NEW v \in Versions, NEW o \in OverwriteChoices, NEW pipeline, NEW units,
         \/ pipeline = "ingest" /\ \E ps \in IngestRequests : units = IngestUnits(ps)
         \/ pipeline = "backfill" /\ \E ss \in BackfillRequests : units = BackfillUnits(ss),
         Run(pipeline, units, v, o)
  PROVE  IngestInv'
<1> DEFINE K(p) == KeyIn(pipeline, p)
<1>2. /\ units \subseteq Seq(Pairs)
      /\ \A u \in units : u # <<>> /\ IsInjective(u) /\ \A p \in ToSet(u) : K(p) = K(Head(u))
      /\ \A u, w \in units : K(Head(u)) = K(Head(w)) => u = w
  BY UnitsOfARequest
<1>3. /\ (\A p : Key(p) = K(p))' /\ (\A u : Culprit(u) = K(Head(u)))'
  BY DEF Run, Key, Culprit, KeyIn
<1> HIDE DEF K
<1>4. /\ unit' = <<>> /\ provenance' = {} /\ written' = {} /\ todo' = units
      /\ result' = NoResult /\ pc' = "unit"
      /\ request' = [pipeline |-> pipeline, pairs |-> UNION {ToSet(u) : u \in units},
                     version |-> v, overwrite |-> o]
  BY DEF Run, IngestInv, Positions
<1>5. UNION {ToSet(u) : u \in units} \subseteq Pairs
  BY <1>2 DEF ToSet
<1>6. ToSet(<<>>) = {} /\ IsInjective(<<>>)
  BY DEF ToSet, IsInjective
<1>7. Types'
  BY <1>2, <1>4, <1>5, IngestAssumption DEF Run, IngestInv, Types, Recorded, NoResult
<1>8. Positions'
  BY <1>4 DEF Positions, NoResult
<1>9. UnitsApart'
  BY <1>2, <1>3, <1>4, <1>6 DEF UnitsApart, AtHand
<1>10. Accounts' /\ OnDisk'
  BY <1>4, <1>6 DEF Accounts, OnDisk, Waiting, AtHand, Through, Fails, NoResult
<1> QED
  BY <1>7, <1>8, <1>9, <1>10 DEF IngestInv

\* A series is never mistaken for what names another one's failure.
LEMMA KeyOfKey ==
  ASSUME Types
  PROVE  /\ \A p, q \in Pairs : p = Key(q) => Key(p) = Key(q)
         /\ request.pipeline = "backfill" => \A p \in Pairs : Key(p) \in Symbols /\ Key(p) \notin Pairs
         /\ \A u : Culprit(u) = Key(Head(u))
         /\ \A p \in Pairs : Key(p) \in Pairs \cup Symbols
         /\ request.pipeline = "ingest" => \A p : Key(p) = p
BY Keys DEF Key, KeyIn, Culprit, Types

\* The unit at hand, while it is written.
LEMMA UnitAtHand ==
  ASSUME IngestInv, unit # <<>>
  PROVE  /\ Head(unit) \in Pairs /\ Head(unit) \in AtHand /\ Head(unit) \in request.pairs
         /\ Head(unit) \notin result.reports
         /\ Tail(unit) \in Seq(Pairs) /\ IsInjective(Tail(unit))
         /\ ToSet(Tail(unit)) = ToSet(unit) \ {Head(unit)} /\ Head(unit) \in ToSet(unit)
         /\ \A p \in AtHand : Key(p) = Culprit(unit)
         /\ \A u \in todo : Culprit(unit) # Culprit(u)
         /\ \A p \in Waiting \cup Through : Key(p) # Culprit(unit)
<1>1. /\ Head(unit) \in Pairs /\ Head(unit) \in ToSet(unit)
      /\ Tail(unit) \in Seq(Pairs) /\ IsInjective(Tail(unit))
      /\ ToSet(Tail(unit)) = ToSet(unit) \ {Head(unit)}
  BY HeadAndTail DEF IngestInv, Types, UnitsApart
<1>2. Head(unit) \in AtHand /\ Culprit(unit) = Key(Head(unit))
  BY <1>1, KeyOfKey DEF AtHand, IngestInv
<1>3. Head(unit) \in request.pairs /\ Head(unit) \notin result.reports
  BY <1>1, <1>2 DEF IngestInv, Accounts, OnDisk
<1>4. /\ \A p \in AtHand : Key(p) = Culprit(unit)
      /\ \A u \in todo : Culprit(unit) # Culprit(u)
  BY <1>2 DEF IngestInv, UnitsApart
<1>5. \A p \in Waiting : Key(p) # Culprit(unit)
  BY <1>4 DEF IngestInv, UnitsApart, Waiting
<1>6. \A p \in Through : Key(p) # Culprit(unit)
  BY <1>2 DEF IngestInv, Accounts
<1> QED
  BY <1>1, <1>2, <1>3, <1>4, <1>5, <1>6

\* No file reported so far is the next one to be written.
LEMMA PathFresh ==
  ASSUME IngestInv, unit # <<>>, DOMAIN chunk # {}
  PROVE  \A e \in result.partitions \cup written : e.path \in Paths /\ e.path # Path
<1>1. Path[1] = Head(unit) /\ Path[2] \in DOMAIN chunk
  BY PathKnown DEF IngestInv
<1>2. Head(unit) \notin result.reports
  BY UnitAtHand
<1> QED
  BY <1>1, <1>2 DEF IngestInv, OnDisk, Types, Entries

LEMMA SameAccounts ==
  ASSUME IngestInv, UNCHANGED <<request, todo, unit, provenance, result>>
  PROVE  UnitsApart' /\ Accounts'
BY DEF IngestInv, UnitsApart, Accounts, Waiting, AtHand, Through, Fails, Key, Culprit

LEMMA BeginPartitionStep == IngestInv /\ BeginPartition => IngestInv'
<1> SUFFICES ASSUME IngestInv, BeginPartition PROVE IngestInv'
  OBVIOUS
<1>1. unit # <<>> /\ DOMAIN chunk # {}
  BY DEF IngestInv, Positions, BeginPartition
<1>2. Path \in Paths /\ Path' = Path
  BY <1>1, PathKnown DEF IngestInv, BeginPartition, Path
<1>3. \A e \in result.partitions \cup written : e.path \in Paths /\ e.path # Path
  BY <1>1, PathFresh
<1>4. disk \in [Paths -> Contents \cup {NoFile, Partial}] /\ disk' = [disk EXCEPT ![Path] = Partial]
  BY DEF IngestInv, Types, BeginPartition
<1>5. Types'
  BY <1>2, <1>4 DEF IngestInv, Types, BeginPartition, Recorded
<1>6. Positions'
  BY <1>1, <1>2, <1>4 DEF IngestInv, Positions, BeginPartition
<1>7. UnitsApart' /\ Accounts'
  BY SameAccounts DEF BeginPartition
<1>8. OnDisk'
  BY <1>3, <1>4 DEF IngestInv, OnDisk, BeginPartition, Waiting
<1> QED
  BY <1>5, <1>6, <1>7, <1>8 DEF IngestInv

LEMMA EndPartitionStep == IngestInv /\ EndPartition => IngestInv'
<1> SUFFICES ASSUME IngestInv, EndPartition PROVE IngestInv'
  OBVIOUS
<1>1. unit # <<>> /\ DOMAIN chunk # {}
  BY DEF IngestInv, Positions, EndPartition
<1> DEFINE c == chunk[Path[2]]
<1>2. /\ Path \in Paths /\ Path[1] = Head(unit) /\ Path[2] \in DOMAIN chunk
      /\ c \in Contents
  BY <1>1, PathKnown DEF IngestInv
<1>3. \A e \in result.partitions \cup written : e.path \in Paths /\ e.path # Path
  BY <1>1, PathFresh
<1>4. /\ disk \in [Paths -> Contents \cup {NoFile, Partial}] /\ disk' = [disk EXCEPT ![Path] = c]
      /\ written' = written \cup {[path |-> Path, sha256 |-> c]}
      /\ chunk' = [y \in DOMAIN chunk \ {Path[2]} |-> chunk[y]]
  BY DEF IngestInv, Types, EndPartition
<1> HIDE DEF c
<1>5. chunk' \in Chunks
  <2>1. PICK ys \in SUBSET Years : chunk \in [ys -> Contents]
    BY DEF IngestInv, Types, Chunks
  <2>2. ys \ {Path[2]} \in SUBSET Years /\ chunk' \in [ys \ {Path[2]} -> Contents]
    BY <1>4, <2>1
  <2> QED
    BY <2>2 DEF Chunks
<1>6. written' \subseteq Entries
  BY <1>2, <1>4 DEF IngestInv, Types, Entries
<1>7. Types'
  BY <1>2, <1>4, <1>5, <1>6 DEF IngestInv, Types, EndPartition, Recorded
<1>8. Positions'
  BY <1>1 DEF IngestInv, Positions, EndPartition
<1>9. UnitsApart' /\ Accounts'
  BY SameAccounts DEF EndPartition
<1>10. \A e \in written' : /\ e.path[1] = Head(unit) /\ e.path[2] \notin DOMAIN chunk'
                          /\ disk'[e.path] = e.sha256
  BY <1>2, <1>3, <1>4 DEF IngestInv, OnDisk
<1>11. OnDisk'
  BY <1>3, <1>4, <1>10 DEF IngestInv, OnDisk, EndPartition, Waiting
<1> QED
  BY <1>7, <1>8, <1>9, <1>11 DEF IngestInv

\* A unit that fails: what it wrote is lost to the result, what others did is not.
LEMMA UnitFailsStep ==
  ASSUME IngestInv, UnitFails, unit # <<>>,
         disk' \in [Paths -> Contents \cup {NoFile, Partial}],
         \A e \in result.partitions : disk'[e.path] = disk[e.path]
  PROVE  IngestInv'
<1> DEFINE k == Culprit(unit)
<1>1. /\ unit' = <<>> /\ chunk' = NoChunk /\ written' = {} /\ provenance' = {} /\ pc' = "unit"
      /\ UNCHANGED <<manifests, request, todo>>
      /\ result' = [result EXCEPT !.failures = @ \cup {k}]
  BY DEF UnitFails, DropUnit
<1>2. /\ k = Key(Head(unit)) /\ k \in Pairs \cup Symbols
      /\ request.pipeline = "ingest" => k \in Pairs
      /\ \A p \in Pairs : Key(p) # k => p # k
  BY UnitAtHand, KeyOfKey DEF IngestInv
<1>3. /\ \A p \in AtHand : Key(p) = k
      /\ \A p \in Waiting \cup Through : Key(p) # k
  BY UnitAtHand
<1> HIDE DEF k
<1>4. /\ result' \in [partitions : SUBSET Entries, reports : SUBSET Pairs,
                      datasets : SUBSET Pairs, failures : SUBSET (Pairs \cup Symbols)]
      /\ result'.failures = result.failures \cup {k}
      /\ result'.partitions = result.partitions /\ result'.reports = result.reports
      /\ result'.datasets = result.datasets
  BY <1>1, <1>2 DEF IngestInv, Types
<1>5. ToSet(<<>>) = {} /\ IsInjective(<<>>) /\ NoChunk \in Chunks
  BY DEF ToSet, IsInjective, NoChunk, Chunks
<1>6. /\ Waiting' = Waiting /\ AtHand' = {} /\ Through' = Through
      /\ \A p : Key(p)' = Key(p) /\ \A u : Culprit(u)' = Culprit(u)
  BY <1>1, <1>4, <1>5 DEF Waiting, AtHand, Through, Key, Culprit
<1>7. \A p : Fails(p)' <=> Fails(p) \/ p = k \/ Key(p) = k
  BY <1>4, <1>6 DEF Fails
<1>8. Types'
  BY <1>1, <1>4, <1>5 DEF IngestInv, Types, Positions, Recorded
<1>9. Positions'
  BY <1>1, <1>2, <1>4 DEF IngestInv, Positions
<1>10. UnitsApart'
  BY <1>1, <1>5, <1>6 DEF IngestInv, UnitsApart
<1>11. Waiting \cup Through \subseteq Pairs
  BY DEF IngestInv, Accounts, Types
<1>12. Accounts'
  BY <1>1, <1>2, <1>3, <1>6, <1>7, <1>11 DEF IngestInv, Accounts
<1>13. OnDisk'
  BY <1>1, <1>4, <1>5, <1>6 DEF IngestInv, OnDisk
<1> QED
  BY <1>8, <1>9, <1>10, <1>12, <1>13 DEF IngestInv

\* A run that ends, whichever way, leaves nothing but files behind.
LEMMA StopStep ==
  ASSUME IngestInv, Stop, UNCHANGED disk, DOMAIN manifests' = Versions,
         (\A v \in Versions : Recorded(v) => manifests[v].partitions \subseteq Entries)'
  PROVE  IngestInv'
<1>1. ToSet(<<>>) = {} /\ IsInjective(<<>>) /\ NoChunk \in Chunks
  BY DEF ToSet, IsInjective, NoChunk, Chunks
<1>2. Types'
  BY <1>1 DEF IngestInv, Types, Stop, DropUnit, NoRequest, NoResult
<1>3. Positions'
  BY DEF Positions, Stop, DropUnit, NoRequest, NoResult
<1> QED
  BY <1>1, <1>2, <1>3 DEF IngestInv, UnitsApart, Accounts, OnDisk, AtHand, Waiting, Through,
     NoResult, NoRequest, Stop, DropUnit

\* The pipeline takes a unit from those that wait.
LEMMA TakeUnit ==
  ASSUME IngestInv, NEW u \in todo
  PROVE  /\ u \in Seq(Pairs) /\ u # <<>> /\ IsInjective(u)
         /\ ToSet(u) \subseteq Waiting /\ ToSet(u) \subseteq Pairs
         /\ Head(u) \in ToSet(u) /\ Head(u) \in Pairs
         /\ \A p \in ToSet(u) : Key(p) = Culprit(u)
         /\ \A w \in todo \ {u} : Culprit(w) # Culprit(u)
         /\ \A w \in todo \ {u} : \A p \in ToSet(w) : Key(p) # Culprit(u)
         /\ Waiting = ToSet(u) \cup UNION {ToSet(w) : w \in todo \ {u}}
<1>1. u \in Seq(Pairs) /\ u # <<>> /\ IsInjective(u)
  BY DEF IngestInv, Types, UnitsApart
<1>2. Head(u) \in ToSet(u) /\ Head(u) \in Pairs
  BY <1>1, HeadAndTail
<1>3. ToSet(u) \subseteq Waiting /\ ToSet(u) \subseteq Pairs
  BY <1>1 DEF Waiting, ToSet
<1>4. /\ \A p \in ToSet(u) : Key(p) = Culprit(u)
      /\ \A w \in todo \ {u} : Culprit(w) # Culprit(u)
  BY DEF IngestInv, UnitsApart
<1>5. \A w \in todo \ {u} : \A p \in ToSet(w) : Key(p) # Culprit(u)
  BY <1>4 DEF IngestInv, UnitsApart
<1>6. Waiting = ToSet(u) \cup UNION {ToSet(w) : w \in todo \ {u}}
  BY DEF Waiting
<1> QED
  BY <1>1, <1>2, <1>3, <1>4, <1>5, <1>6

LEMMA FetchStep ==
  ASSUME IngestInv, NEW u \in todo, NEW c \in Chunks, Fetch(u, c)
  PROVE  IngestInv'
<1> DEFINE rest == UNION {ToSet(w) : w \in todo \ {u}}
<1>1. /\ u \in Seq(Pairs) /\ u # <<>> /\ IsInjective(u)
      /\ \A p \in ToSet(u) : Key(p) = Culprit(u)
      /\ \A w \in todo \ {u} : Culprit(w) # Culprit(u)
      /\ Waiting = rest \cup ToSet(u)
  BY TakeUnit
<1>2. \A p \in rest : Key(p) # Culprit(u)
  BY TakeUnit
<1>3. /\ pc = "unit" /\ pc' = "write" /\ unit' = u /\ todo' = todo \ {u} /\ chunk' = c
      /\ UNCHANGED <<disk, manifests, request, written, provenance, result>>
  BY DEF Fetch
<1>4. unit = <<>> /\ provenance = {} /\ written = {}
  BY <1>3 DEF IngestInv, Positions
<1>5. ToSet(<<>>) = {}
  BY DEF ToSet
<1>6. /\ Waiting' = rest /\ AtHand' = ToSet(u) /\ AtHand = {} /\ Through' = Through
      /\ \A p : Key(p)' = Key(p) /\ Fails(p)' = Fails(p)
      /\ \A w : Culprit(w)' = Culprit(w)
  BY <1>3, <1>4, <1>5 DEF Waiting, AtHand, Through, Fails, Key, Culprit
<1> HIDE DEF rest
<1>7. Types'
  BY <1>1, <1>3 DEF IngestInv, Types, Recorded
<1>8. Positions'
  BY <1>1, <1>3, <1>4 DEF IngestInv, Positions
<1>9. UnitsApart'
  BY <1>1, <1>3, <1>4, <1>6 DEF IngestInv, UnitsApart
<1>10. Accounts'
  BY <1>1, <1>3, <1>6 DEF IngestInv, Accounts
<1>11. OnDisk'
  BY <1>1, <1>3, <1>4, <1>6 DEF IngestInv, OnDisk
<1> QED
  BY <1>7, <1>8, <1>9, <1>10, <1>11 DEF IngestInv

LEMMA FetchFailsStep ==
  ASSUME IngestInv, NEW u \in todo, FetchFails(u)
  PROVE  IngestInv'
<1> DEFINE rest == UNION {ToSet(w) : w \in todo \ {u}}
           k == Culprit(u)
<1>1. /\ \A p \in ToSet(u) : Key(p) = k
      /\ Head(u) \in ToSet(u) /\ Head(u) \in Pairs
      /\ Waiting = rest \cup ToSet(u)
  BY TakeUnit
<1>2. \A p \in rest : Key(p) # k
  BY TakeUnit
<1>3. /\ k \in Pairs \cup Symbols
      /\ request.pipeline = "ingest" => k \in Pairs
      /\ \A p \in Pairs : Key(p) # k => p # k
  BY <1>1, KeyOfKey DEF IngestInv
<1>4. /\ pc = "unit" /\ todo' = todo \ {u}
      /\ result' = [result EXCEPT !.failures = @ \cup {k}]
      /\ UNCHANGED <<disk, manifests, pc, request, unit, chunk, written, provenance>>
  BY DEF FetchFails
<1>5. unit = <<>> /\ provenance = {} /\ written = {}
  BY <1>4 DEF IngestInv, Positions
<1>6. \A p \in Through : Key(p) # k
  BY <1>1 DEF IngestInv, Accounts
<1> HIDE DEF k
<1>7. /\ result' \in [partitions : SUBSET Entries, reports : SUBSET Pairs,
                      datasets : SUBSET Pairs, failures : SUBSET (Pairs \cup Symbols)]
      /\ result'.failures = result.failures \cup {k}
      /\ result'.partitions = result.partitions /\ result'.reports = result.reports
      /\ result'.datasets = result.datasets
  BY <1>3, <1>4 DEF IngestInv, Types
<1>8. ToSet(<<>>) = {}
  BY DEF ToSet
<1>9. /\ Waiting' = rest /\ AtHand = {} /\ AtHand' = {} /\ Through' = Through
      /\ \A p : Key(p)' = Key(p) /\ \A w : Culprit(w)' = Culprit(w)
  BY <1>4, <1>5, <1>7, <1>8 DEF Waiting, AtHand, Through, Key, Culprit
<1>10. \A p : Fails(p)' <=> Fails(p) \/ p = k \/ Key(p) = k
  BY <1>7, <1>9 DEF Fails
<1> HIDE DEF rest
<1>11. Types'
  BY <1>4, <1>7 DEF IngestInv, Types, Recorded
<1>12. Positions'
  BY <1>3, <1>4, <1>5, <1>7 DEF IngestInv, Positions
<1>13. UnitsApart'
  BY <1>4, <1>9 DEF IngestInv, UnitsApart
<1>14. Waiting \cup Through \subseteq Pairs
  BY DEF IngestInv, Accounts, Types
<1>15. Accounts'
  BY <1>1, <1>2, <1>3, <1>4, <1>6, <1>9, <1>10, <1>14 DEF IngestInv, Accounts
<1>16. OnDisk'
  BY <1>1, <1>4, <1>5, <1>7, <1>8, <1>9 DEF IngestInv, OnDisk
<1> QED
  BY <1>11, <1>12, <1>13, <1>15, <1>16 DEF IngestInv

\* The series at hand joins the result.
LEMMA Recording ==
  ASSUME IngestInv, SeriesWritten, Record, UNCHANGED <<disk, request>>
  PROVE  /\ unit # <<>> /\ NoChunk \in Chunks
         /\ result' \in [partitions : SUBSET Entries, reports : SUBSET Pairs,
                         datasets : SUBSET Pairs, failures : SUBSET (Pairs \cup Symbols)]
         /\ result'.reports = result.reports \cup {Head(unit)}
         /\ result'.datasets = result.datasets /\ result'.failures = result.failures
         /\ \A p : Key(p)' = Key(p) /\ Fails(p)' = Fails(p) /\ Culprit(p)' = Culprit(p)
         /\ \A e \in result'.partitions : e.path[1] \in result'.reports /\ disk'[e.path] = e.sha256
<1>1. unit # <<>> /\ NoChunk \in Chunks
  BY DEF SeriesWritten, IngestInv, Positions, NoChunk, Chunks
<1>2. Head(unit) \in Pairs
  BY <1>1, UnitAtHand
<1>3. /\ result' \in [partitions : SUBSET Entries, reports : SUBSET Pairs,
                      datasets : SUBSET Pairs, failures : SUBSET (Pairs \cup Symbols)]
      /\ result'.partitions = result.partitions \cup written
      /\ result'.reports = result.reports \cup {Head(unit)}
      /\ result'.datasets = result.datasets /\ result'.failures = result.failures
  BY <1>2 DEF Record, IngestInv, Types
<1>4. \A p : Key(p)' = Key(p) /\ Fails(p)' = Fails(p) /\ Culprit(p)' = Culprit(p)
  BY <1>3 DEF Key, Fails, Culprit
<1>5. \A e \in result'.partitions : e.path[1] \in result'.reports /\ disk'[e.path] = e.sha256
  BY <1>3 DEF IngestInv, OnDisk
<1> QED
  BY <1>1, <1>3, <1>4, <1>5

LEMMA PairDoneStep == IngestInv /\ PairDone => IngestInv'
<1> SUFFICES ASSUME IngestInv, PairDone PROVE IngestInv'
  OBVIOUS
<1>1. /\ SeriesWritten /\ Record /\ request.pipeline = "ingest" /\ pc = "write"
      /\ unit' = <<>> /\ pc' = "unit" /\ chunk' = NoChunk /\ written' = {}
      /\ UNCHANGED <<disk, manifests, request, todo, provenance>>
  BY DEF PairDone, SeriesWritten, Record
<1>2. /\ unit # <<>> /\ NoChunk \in Chunks
      /\ result' \in [partitions : SUBSET Entries, reports : SUBSET Pairs,
                      datasets : SUBSET Pairs, failures : SUBSET (Pairs \cup Symbols)]
      /\ result'.reports = result.reports \cup {Head(unit)}
      /\ result'.datasets = result.datasets /\ result'.failures = result.failures
      /\ \A p : Key(p)' = Key(p) /\ Fails(p)' = Fails(p) /\ Culprit(p)' = Culprit(p)
      /\ \A e \in result'.partitions : e.path[1] \in result'.reports /\ disk'[e.path] = e.sha256
  BY <1>1, Recording
<1>3. /\ Head(unit) \in AtHand /\ Head(unit) \in request.pairs
      /\ \A p \in AtHand : Key(p) = Culprit(unit)
      /\ \A p \in Waiting \cup Through : Key(p) # Culprit(unit)
      /\ Culprit(unit) = Key(Head(unit)) /\ \A p : Key(p) = p
  BY <1>1, <1>2, UnitAtHand, KeyOfKey DEF IngestInv
<1>4. AtHand = {Head(unit)} /\ provenance = {}
  BY <1>1, <1>3 DEF IngestInv, Positions
<1>5. ToSet(<<>>) = {} /\ IsInjective(<<>>)
  BY DEF ToSet, IsInjective
<1>6. /\ Waiting' = Waiting /\ AtHand' = {} /\ Through = result.reports
      /\ Through' = Through \cup {Head(unit)}
  BY <1>1, <1>2, <1>4, <1>5 DEF Waiting, AtHand, Through
<1>7. Types'
  BY <1>1, <1>2 DEF IngestInv, Types, Recorded
<1>8. Positions'
  BY <1>1, <1>2, <1>4 DEF IngestInv, Positions
<1>9. UnitsApart'
  BY <1>1, <1>2, <1>5, <1>6 DEF IngestInv, UnitsApart
<1>10. Accounts'
  BY <1>1, <1>2, <1>3, <1>4, <1>6 DEF IngestInv, Accounts
<1>11. OnDisk'
  BY <1>1, <1>2, <1>3, <1>4, <1>5, <1>6 DEF IngestInv, OnDisk
<1> QED
  BY <1>7, <1>8, <1>9, <1>10, <1>11 DEF IngestInv

LEMMA SeriesDoneStep == IngestInv /\ SeriesDone => IngestInv'
<1> SUFFICES ASSUME IngestInv, SeriesDone PROVE IngestInv'
  OBVIOUS
<1>1. /\ SeriesWritten /\ Record /\ request.pipeline = "backfill" /\ pc = "write"
      /\ unit' = Tail(unit) /\ pc' = "derive" /\ chunk' = NoChunk /\ written' = {}
      /\ provenance' = provenance \cup {Head(unit)}
      /\ UNCHANGED <<disk, manifests, request, todo>>
  BY DEF SeriesDone, SeriesWritten, Record
<1>2. /\ unit # <<>> /\ NoChunk \in Chunks
      /\ result' \in [partitions : SUBSET Entries, reports : SUBSET Pairs,
                      datasets : SUBSET Pairs, failures : SUBSET (Pairs \cup Symbols)]
      /\ result'.reports = result.reports \cup {Head(unit)}
      /\ result'.datasets = result.datasets /\ result'.failures = result.failures
      /\ \A p : Key(p)' = Key(p) /\ Fails(p)' = Fails(p) /\ Culprit(p)' = Culprit(p)
      /\ \A e \in result'.partitions : e.path[1] \in result'.reports /\ disk'[e.path] = e.sha256
  BY <1>1, Recording
<1>3. /\ Head(unit) \in Pairs /\ Head(unit) \in AtHand /\ Head(unit) \in request.pairs
      /\ Tail(unit) \in Seq(Pairs) /\ IsInjective(Tail(unit))
      /\ ToSet(Tail(unit)) = ToSet(unit) \ {Head(unit)} /\ Head(unit) \in ToSet(unit)
  BY <1>2, UnitAtHand
<1>4. /\ Waiting' = Waiting /\ AtHand' = AtHand /\ Through' = Through
  BY <1>1, <1>2, <1>3 DEF Waiting, AtHand, Through
<1>5. Head(unit) \notin Waiting
  BY <1>2, <1>3, UnitAtHand
<1>6. Types'
  BY <1>1, <1>2, <1>3 DEF IngestInv, Types, Positions, Recorded
<1>7. Positions'
  BY <1>1, <1>2 DEF IngestInv, Positions
<1>8. UnitsApart'
  BY <1>1, <1>2, <1>3, <1>4 DEF IngestInv, UnitsApart
<1>9. Accounts'
  BY <1>1, <1>2, <1>4 DEF IngestInv, Accounts
<1>10. OnDisk'
  BY <1>1, <1>2, <1>3, <1>4, <1>5 DEF IngestInv, OnDisk
<1> QED
  BY <1>6, <1>7, <1>8, <1>9, <1>10 DEF IngestInv

LEMMA DeriveStep == ASSUME IngestInv, NEW c \in Chunks, Derive(c) PROVE IngestInv'
<1>1. /\ pc = "derive" /\ pc' = "write" /\ unit # <<>> /\ chunk' = c
      /\ UNCHANGED <<disk, manifests, request, todo, unit, written, provenance, result>>
  BY DEF Derive
<1>2. written = {}
  BY <1>1 DEF IngestInv, Positions
<1>3. Types' /\ Positions'
  BY <1>1, <1>2 DEF IngestInv, Types, Positions, Recorded
<1>4. UnitsApart' /\ Accounts'
  BY <1>1, SameAccounts
<1>5. OnDisk'
  BY <1>1, <1>2 DEF IngestInv, OnDisk, Waiting
<1> QED
  BY <1>3, <1>4, <1>5 DEF IngestInv

LEMMA DeriveNothingStep == IngestInv /\ DeriveNothing => IngestInv'
<1> SUFFICES ASSUME IngestInv, DeriveNothing PROVE IngestInv'
  OBVIOUS
<1> DEFINE h == Head(unit)
<1>1. /\ pc = "derive" /\ unit # <<>> /\ unit' = Tail(unit)
      /\ result' = [result EXCEPT !.failures = @ \cup {h}]
      /\ UNCHANGED <<disk, manifests, pc, request, todo, chunk, written, provenance>>
  BY DEF DeriveNothing
<1>2. request.pipeline = "backfill" /\ written = {}
  BY <1>1 DEF IngestInv, Positions
<1>3. /\ h \in Pairs /\ h \in AtHand /\ h \in ToSet(unit)
      /\ Tail(unit) \in Seq(Pairs) /\ IsInjective(Tail(unit))
      /\ ToSet(Tail(unit)) = ToSet(unit) \ {h}
      /\ \A p \in Waiting \cup Through : Key(p) # Culprit(unit)
      /\ \A p \in AtHand : Key(p) = Culprit(unit)
  BY <1>1, UnitAtHand
<1>4. \A p \in Pairs : Key(p) # h
  BY <1>2, <1>3, KeyOfKey DEF IngestInv
<1> HIDE DEF h
<1>5. /\ result' \in [partitions : SUBSET Entries, reports : SUBSET Pairs,
                      datasets : SUBSET Pairs, failures : SUBSET (Pairs \cup Symbols)]
      /\ result'.failures = result.failures \cup {h}
      /\ result'.partitions = result.partitions /\ result'.reports = result.reports
      /\ result'.datasets = result.datasets
  BY <1>1, <1>3 DEF IngestInv, Types
<1>6. /\ Waiting' = Waiting /\ AtHand' = (ToSet(unit) \ {h}) \cup provenance
      /\ AtHand' = AtHand \ {h} /\ Through' = Through
      /\ \A p : Key(p)' = Key(p) /\ Culprit(p)' = Culprit(p)
  BY <1>1, <1>3, <1>5 DEF Waiting, AtHand, Through, Key, Culprit, IngestInv, UnitsApart
<1>7. \A p : Fails(p)' <=> Fails(p) \/ p = h \/ Key(p) = h
  BY <1>5, <1>6 DEF Fails
<1>8. Types'
  BY <1>1, <1>3, <1>5 DEF IngestInv, Types, Recorded
<1>9. Positions'
  BY <1>1, <1>2, <1>5 DEF IngestInv, Positions
<1>10. UnitsApart'
  BY <1>1, <1>3, <1>6 DEF IngestInv, UnitsApart
<1>11. Waiting \cup AtHand \cup Through \subseteq Pairs /\ h \notin Waiting \cup Through
  BY <1>3 DEF IngestInv, Accounts, Types
<1>12. Accounts'
  BY <1>1, <1>4, <1>6, <1>7, <1>11 DEF IngestInv, Accounts
<1>13. OnDisk'
  BY <1>1, <1>2, <1>3, <1>5, <1>6 DEF IngestInv, OnDisk
<1> QED
  BY <1>8, <1>9, <1>10, <1>12, <1>13 DEF IngestInv

LEMMA SymbolDoneStep == IngestInv /\ SymbolDone => IngestInv'
<1> SUFFICES ASSUME IngestInv, SymbolDone PROVE IngestInv'
  OBVIOUS
<1>1. /\ pc = "derive" /\ pc' = "unit" /\ unit = <<>> /\ provenance' = {}
      /\ result' = [result EXCEPT !.datasets = @ \cup provenance]
      /\ UNCHANGED <<disk, manifests, request, todo, unit, chunk, written>>
  BY DEF SymbolDone
<1>2. request.pipeline = "backfill" /\ written = {}
  BY <1>1 DEF IngestInv, Positions
<1>3. /\ result' \in [partitions : SUBSET Entries, reports : SUBSET Pairs,
                      datasets : SUBSET Pairs, failures : SUBSET (Pairs \cup Symbols)]
      /\ result'.datasets = result.datasets \cup provenance
      /\ result'.partitions = result.partitions /\ result'.reports = result.reports
      /\ result'.failures = result.failures
  BY <1>1 DEF IngestInv, Types
<1>4. ToSet(<<>>) = {}
  BY DEF ToSet
<1>5. /\ Waiting' = Waiting /\ AtHand = provenance /\ AtHand' = {}
      /\ Through' = Through \cup AtHand
      /\ \A p : Key(p)' = Key(p) /\ Fails(p)' = Fails(p) /\ Culprit(p)' = Culprit(p)
  BY <1>1, <1>2, <1>3, <1>4 DEF Waiting, AtHand, Through, Fails, Key, Culprit
<1>6. \A p \in Waiting, q \in AtHand : Key(p) # Key(q)
  BY DEF IngestInv, UnitsApart, Waiting
<1>7. Types'
  BY <1>1, <1>3 DEF IngestInv, Types, Recorded
<1>8. Positions'
  BY <1>1, <1>2, <1>3 DEF IngestInv, Positions
<1>9. UnitsApart'
  BY <1>1, <1>4, <1>5 DEF IngestInv, UnitsApart
<1>10. Accounts'
  BY <1>1, <1>5, <1>6 DEF IngestInv, Accounts
<1>11. OnDisk'
  BY <1>1, <1>2, <1>3, <1>4, <1>5 DEF IngestInv, OnDisk
<1> QED
  BY <1>7, <1>8, <1>9, <1>10, <1>11 DEF IngestInv

LEMMA BeginManifestStep == IngestInv /\ BeginManifest => IngestInv'
<1> SUFFICES ASSUME IngestInv, BeginManifest PROVE IngestInv'
  OBVIOUS
<1>1. /\ pc = "unit" /\ todo = {} /\ pc' = "manifest"
      /\ manifests' = [manifests EXCEPT ![request.version] = Partial]
      /\ UNCHANGED <<disk, request, todo, unit, chunk, written, provenance, result>>
  BY DEF BeginManifest, Finished
<1>2. Types'
  BY <1>1 DEF IngestInv, Types, Recorded
<1>3. Positions'
  BY <1>1 DEF IngestInv, Types, Positions
<1>4. UnitsApart' /\ Accounts'
  BY <1>1, SameAccounts
<1>5. OnDisk'
  BY <1>1 DEF IngestInv, OnDisk, Waiting
<1> QED
  BY <1>2, <1>3, <1>4, <1>5 DEF IngestInv

LEMMA InvStep == IngestInv /\ [Next]_vars => IngestInv'
<1> SUFFICES ASSUME IngestInv, [Next]_vars PROVE IngestInv'
  OBVIOUS
<1>1. ASSUME NEW v \in Versions, NEW o \in OverwriteChoices, NEW ps \in IngestRequests,
             Run("ingest", IngestUnits(ps), v, o)
      PROVE  IngestInv'
  BY <1>1, RunStep
<1>2. ASSUME NEW v \in Versions, NEW o \in OverwriteChoices, NEW ss \in BackfillRequests,
             Run("backfill", BackfillUnits(ss), v, o)
      PROVE  IngestInv'
  BY <1>2, RunStep
<1>3. ASSUME NEW u \in todo, NEW c \in Chunks, Fetch(u, c) PROVE IngestInv'
  BY <1>3, FetchStep
<1>4. ASSUME NEW u \in todo, FetchFails(u) PROVE IngestInv'
  BY <1>4, FetchFailsStep
<1>5. CASE RefusePartition
  <2>1. unit # <<>> /\ UnitFails /\ disk' = disk
    BY <1>5 DEF RefusePartition, IngestInv, Positions
  <2> QED
    BY <2>1, UnitFailsStep DEF IngestInv, Types
<1>6. CASE BeginPartition
  BY <1>6, BeginPartitionStep
<1>7. CASE EndPartition
  BY <1>7, EndPartitionStep
<1>8. CASE PartitionFails
  <2>1. unit # <<>> /\ DOMAIN chunk # {} /\ UnitFails
    BY <1>8 DEF PartitionFails, IngestInv, Positions
  <2>2. PICK left \in {NoFile, Partial} : disk' = [disk EXCEPT ![Path] = left]
    BY <1>8 DEF PartitionFails
  <2>3. disk' \in [Paths -> Contents \cup {NoFile, Partial}]
    BY <2>2 DEF IngestInv, Types
  <2>4. \A e \in result.partitions : disk'[e.path] = disk[e.path]
    BY <2>1, <2>2, PathFresh DEF IngestInv, Types
  <2> QED
    BY <2>1, <2>3, <2>4, UnitFailsStep
<1>9. CASE PairDone
  BY <1>9, PairDoneStep
<1>10. CASE SeriesDone
  BY <1>10, SeriesDoneStep
<1>11. CASE SymbolDone
  BY <1>11, SymbolDoneStep
<1>12. ASSUME NEW c \in Chunks, Derive(c) PROVE IngestInv'
  BY <1>12, DeriveStep
<1>13. CASE DeriveNothing
  BY <1>13, DeriveNothingStep
<1>14. CASE SkipManifest \/ RefuseManifest \/ Crash
  <2>1. Stop /\ UNCHANGED <<disk, manifests>>
    BY <1>14 DEF SkipManifest, RefuseManifest, Crash
  <2> QED
    BY <2>1, StopStep DEF IngestInv, Types, Recorded
<1>15. CASE BeginManifest
  BY <1>15, BeginManifestStep
<1>16. CASE EndManifest
  <2>1. Stop /\ disk' = disk /\ manifests' = [manifests EXCEPT ![request.version] = result]
    BY <1>16 DEF EndManifest
  <2> QED
    BY <2>1, StopStep DEF IngestInv, Types, Recorded
<1>17. CASE UNCHANGED vars
  <2>1. UnitsApart' /\ Accounts'
    BY <1>17, SameAccounts DEF vars
  <2>2. Types' /\ Positions' /\ OnDisk'
    BY <1>17 DEF vars, IngestInv, Types, Recorded, Positions, OnDisk, Path, Waiting
  <2> QED
    BY <2>1, <2>2 DEF IngestInv
<1> QED
  BY <1>1, <1>2, <1>3, <1>4, <1>5, <1>6, <1>7, <1>8, <1>9, <1>10, <1>11, <1>12, <1>13, <1>14,
     <1>15, <1>16, <1>17 DEF Next, Work

LEMMA InvHolds == Spec => []IngestInv
<1>1. Init => IngestInv
  BY InvInit
<1>2. IngestInv /\ [Next]_vars => IngestInv'
  BY InvStep
<1> QED
  BY <1>1, <1>2, PTL DEF Spec

----------------------------------------------------------------------------
\* The theorems

\* A step that completes a manifest leaves it true: the files it lists have the
\* bytes it records, and each series of the request is accounted for.
LEMMA CompletedTruly ==
  ASSUME IngestInv, [Next]_vars, NEW v \in Versions, manifests'[v] # manifests[v], Recorded(v)'
  PROVE  LET m == manifests'[v]
             through == IF request.pipeline = "ingest" THEN m.reports ELSE m.datasets IN
         /\ Intact(v)'
         /\ through \subseteq m.reports /\ m.reports \subseteq request.pairs
         /\ \A p \in request.pairs : p \in through <=> {p, p[1]} \cap m.failures = {}
         /\ \A e \in m.partitions : e.path[1] \in m.reports
<1>1. EndManifest
  <2>1. CASE BeginManifest
    BY <2>1 DEF BeginManifest, Recorded, IngestInv, Types
  <2>2. CASE UNCHANGED manifests
    BY <2>2
  <2>3. BeginManifest \/ EndManifest \/ UNCHANGED manifests
    BY DEF Next, Work, vars, Run, Fetch, FetchFails, RefusePartition, BeginPartition, EndPartition,
       PartitionFails, UnitFails, PairDone, SeriesDone, SymbolDone, Derive, DeriveNothing,
       SkipManifest, RefuseManifest, Crash
  <2> QED
    BY <2>1, <2>2, <2>3
<1>2. /\ manifests'[v] = result /\ disk' = disk
      /\ pc = "manifest" /\ todo = {} /\ unit = <<>> /\ provenance = {}
  BY <1>1 DEF EndManifest, IngestInv, Types, Positions
<1>3. Waiting = {} /\ AtHand = {}
  BY <1>2 DEF Waiting, AtHand, ToSet
<1>4. Intact(v)'
  BY <1>2 DEF Intact, Problems, IngestInv, OnDisk, Recorded
<1>5. /\ Through \subseteq result.reports /\ result.reports \subseteq request.pairs
      /\ \A e \in result.partitions : e.path[1] \in result.reports
  BY DEF Through, IngestInv, OnDisk
<1>6. \A p \in request.pairs : p \in Through <=> ~Fails(p)
  BY <1>3 DEF IngestInv, Accounts
<1>7. \A p \in request.pairs : Fails(p) <=> {p, p[1]} \cap result.failures # {}
  BY Keys DEF Fails, Key, KeyIn, IngestInv, Types, Positions
<1> QED
  BY <1>2, <1>4, <1>5, <1>6, <1>7 DEF Through

\* Whatever fails, is refused or dies on the way, in both pipelines, a manifest
\* verifies the moment it is complete and accounts for every series once.
THEOREM ManifestFaithfulHolds == Spec => ManifestFaithful
<1>1. IngestInv /\ [Next]_vars =>
        \A v \in Versions : manifests'[v] # manifests[v] /\ Recorded(v)' =>
          LET m == manifests'[v]
              through == IF request.pipeline = "ingest" THEN m.reports ELSE m.datasets IN
          /\ Intact(v)'
          /\ through \subseteq m.reports /\ m.reports \subseteq request.pairs
          /\ \A p \in request.pairs : p \in through <=> {p, p[1]} \cap m.failures = {}
          /\ \A e \in m.partitions : e.path[1] \in m.reports
  BY CompletedTruly
<1> QED
  BY <1>1, InvHolds, PTL DEF Spec, ManifestFaithful

\* A file or a manifest changes only where there was none, or a torn one, or on
\* demand.
LEMMA FilesChange ==
  ASSUME IngestInv, [Next]_vars
  PROVE  \/ UNCHANGED <<disk, manifests>>
         \/ \E p, x : /\ disk' = [disk EXCEPT ![p] = x] /\ UNCHANGED manifests
                      /\ disk[p] \in {NoFile, Partial} \/ (request.overwrite /\ pc = "write")
         \/ \E w, x : /\ manifests' = [manifests EXCEPT ![w] = x] /\ UNCHANGED disk
                      /\ manifests[w] \in {NoFile, Partial} \/ (request.overwrite /\ pc = "unit")
<1>1. CASE BeginPartition
  BY <1>1 DEF BeginPartition, Collides
<1>2. CASE EndPartition
  BY <1>2 DEF EndPartition, IngestInv, Positions
<1>3. CASE PartitionFails
  BY <1>3 DEF PartitionFails, UnitFails, IngestInv, Positions
<1>4. CASE BeginManifest
  BY <1>4 DEF BeginManifest, Finished
<1>5. CASE EndManifest
  BY <1>5 DEF EndManifest, IngestInv, Positions
<1>6. \/ BeginPartition \/ EndPartition \/ PartitionFails \/ BeginManifest \/ EndManifest
      \/ UNCHANGED <<disk, manifests>>
  BY DEF Next, Work, vars, Run, Fetch, FetchFails, RefusePartition, UnitFails, PairDone, SeriesDone,
     SymbolDone, Derive, DeriveNothing, SkipManifest, RefuseManifest, Crash
<1> QED
  BY <1>1, <1>2, <1>3, <1>4, <1>5, <1>6

\* A published dataset stops verifying only while a run told to overwrite writes.
THEOREM OnlyOverwriteInvalidatesHolds == Spec => OnlyOverwriteInvalidates
<1>1. IngestInv /\ [Next]_vars =>
        \A v \in Versions :
          Intact(v) => Intact(v)' \/ (request.overwrite /\ pc \in {"unit", "write"})
  <2> SUFFICES ASSUME IngestInv, [Next]_vars, NEW v \in Versions, Intact(v)
               PROVE  Intact(v)' \/ (request.overwrite /\ pc \in {"unit", "write"})
    OBVIOUS
  <2>1. /\ manifests[v] \notin {NoFile, Partial}
        /\ \A e \in manifests[v].partitions : disk[e.path] = e.sha256 /\ e.sha256 \in Contents
    BY DEF Intact, Problems, Recorded, IngestInv, Types, Entries
  <2>2. \A e \in manifests[v].partitions : disk[e.path] \notin {NoFile, Partial}
    BY <2>1, IngestAssumption
  <2>3. ASSUME manifests'[v] = manifests[v],
               \A e \in manifests[v].partitions : disk'[e.path] = disk[e.path]
        PROVE  Intact(v)'
    BY <2>1, <2>3 DEF Intact, Problems, Recorded
  <2>4. CASE UNCHANGED <<disk, manifests>>
    BY <2>3, <2>4
  <2>5. ASSUME NEW p, NEW x, disk' = [disk EXCEPT ![p] = x], UNCHANGED manifests,
               disk[p] \in {NoFile, Partial}
        PROVE  Intact(v)'
    <3>1. \A e \in manifests[v].partitions : e.path \in DOMAIN disk /\ e.path # p
      BY <2>2, <2>5 DEF IngestInv, Types, Intact, Entries
    <3> QED
      BY <3>1, <2>3, <2>5
  <2>6. ASSUME NEW w, NEW x, manifests' = [manifests EXCEPT ![w] = x], UNCHANGED disk,
               manifests[w] \in {NoFile, Partial}
        PROVE  Intact(v)'
    <3>1. manifests'[v] = manifests[v]
      BY <2>1, <2>6 DEF IngestInv, Types
    <3> QED
      BY <3>1, <2>3, <2>6
  <2> QED
    BY <2>4, <2>5, <2>6, FilesChange
<1> QED
  BY <1>1, InvHolds, PTL DEF Spec, OnlyOverwriteInvalidates
=============================================================================
