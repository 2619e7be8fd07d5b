CONSTANTS
  MaxTime = 2
  MaxRuns = 3
  Schedules <- TwoSchedules
  HISTORY_LIMIT = 2
  CATCH_UP_WINDOW = 0
  ClockBack = FALSE
  LastChange = 1
  None = None
SPECIFICATION Spec
INVARIANTS
  TypeOK EverySlotOnce RetriedOnce UserStopIsFinal
PROPERTIES
  SettledStays
CHECK_DEADLOCK FALSE
