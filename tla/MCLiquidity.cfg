SPECIFICATION Spec
CONSTANTS
  Bars <- MCBars
  Configs <- MCConfigs
  Definitions <- MCDefinitions
  DayLength = 4
  WeekLength = 3
  TradingDays = 2
  Duration = 2
  OpenTimes = {0, 2, 4, 6, 8, 10}
  MaxBars = 6
INVARIANTS
  LevelsKnowable
  SweptByFirstExceedance
  StatusRecoverable
  NestedSwept
  RunningMeetsCompleted
CHECK_DEADLOCK FALSE
