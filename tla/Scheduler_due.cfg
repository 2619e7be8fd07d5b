CONSTANTS
  MaxTime = 2
  MaxRuns = 2
  Schedules <- TwoSchedules
  HISTORY_LIMIT = 2
  CATCH_UP_WINDOW = 0
  ClockBack = TRUE
  LastChange = 0
  None = None
SPECIFICATION Spec
PROPERTIES
  DueIsHandled
CHECK_DEADLOCK FALSE
