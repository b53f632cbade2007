SPECIFICATION Spec
CONSTANTS
  Bars <- MCBars
  Configs <- MCConfigs
  RangeConfigs <- MCRangeConfigs
  MaxBars = 6
INVARIANTS
  TypeOK
  BrokenOnce
  ReferencesFresh
  BreakChain
  BarsClassifiedOnce
  PendingUnbroken
PROPERTIES
  LiveReplay
  RangesKnowable
CHECK_DEADLOCK FALSE
