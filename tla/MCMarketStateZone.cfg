SPECIFICATION BreakersSpec
CONSTANTS
  Bars <- MCBars
  Configs <- MCConfigs
  BreakerConfigs <- MCBreakerConfigs
  UnicornConfigs <- MCUnicornConfigs
  RangeConfigs <- MCWideRangeConfigs
  Definitions <- MCDefinitions
  DayLength = 8
  WeekLength = 7
  TradingDays = 5
  Engine <- MCWideEngine
  Duration = 2
  Charts <- MCCharts
  MaxBars = 6
INVARIANTS
  ZoneAsClassified
CHECK_DEADLOCK FALSE
