SPECIFICATION Spec
CONSTANTS
  Hours <- MCHours
  HourLength = 2
  DayLength = 4
  WorkerChoices <- MCWorkers
  MaxRetries = 1
  ClosedHours <- MCClosed
  LateHours <- MCLate
  MaxRuns = 3
  NoFile = NoFile
  Empty = Empty
  Torn = Torn
  Body = Body
INVARIANTS RestartLosesNothing
CHECK_DEADLOCK FALSE
