SPECIFICATION FairSpec
CONSTANTS
  Hours <- MCHours
  HourLength = 2
  DayLength = 4
  WorkerChoices <- MCWorkers
  MaxRetries = 1
  ClosedHours <- MCClosed
  LateHours <- MCLate
  MaxRuns = 3
  NoFile = NoFile
  Empty = Empty
  Torn = Torn
  Body = Body
INVARIANTS
  EveryHourAccounted
  RepeatIdentical
  EmptyMeansClosed
PROPERTIES
  RunEnds
CHECK_DEADLOCK FALSE
