SPECIFICATION Spec
CONSTANTS
  s1 = s1
  s2 = s2
  v1 = v1
  v2 = v2
  c1 = c1
  NoFile = NoFile
  Partial = Partial
  Symbols = {s1, s2}
  Stack <- MCStack
  Years = {1, 2}
  Versions = {v1, v2}
  Contents = {c1}
  IngestRequests <- MCIngestRequests
  BackfillRequests <- MCBackfillRequests
  OverwriteChoices = {FALSE}
  MaxRuns = 2
INVARIANTS
  NothingWithoutProvenance
SYMMETRY Symmetry
CHECK_DEADLOCK FALSE
