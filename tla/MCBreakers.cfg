SPECIFICATION BreakersSpec
CONSTANTS
  Bars <- MCBars
  Configs <- MCConfigs
  BreakerConfigs <- MCBreakerConfigs
  UnicornConfigs <- MCUnicornConfigs
  RangeConfigs <- MCRangeConfigs
  Definitions <- MCDefinitions
  DayLength = 8
  WeekLength = 7
  TradingDays = 5
  Engine <- MCEngine
  Duration = 2
  Charts <- MCCharts
  MaxBars = 6
INVARIANTS
  SourcesSpent
  WithTheTrend
  DeathsFollowFills
  SectionsAgree
  StatesReplayed
PROPERTIES
  PublishedOnTime
  StatusKept
CHECK_DEADLOCK FALSE
