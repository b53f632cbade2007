SPECIFICATION Spec
CONSTANTS
  Bars <- MCBars
  HoursPerH4 = 3
  DayLength = 6
  WeekLength = 1
  MinOccurrences = 2
  GridStep = 2
  Horizon = 18
  MonthLength = 6
  Markets <- MCMarkets
  Quote <- MCQuote
  Nows = {14, 18}
  Starts = {0, 1}
  Ends = {12, 18}
  MaxRuns = 2
  Rows <- MCRows
  MaxRows = 4
  NoFile = NoFile
  Torn = Torn
INVARIANTS
  H4FromFourTraded
  SuccessMeansComplete
  AccountsAgree
  ContextsSettled
  LastCopyWins
CHECK_DEADLOCK FALSE
