CONSTANTS
  Runs = {r1, r2}
  None = None
SPECIFICATION Spec
INVARIANTS
  TypeOK EmergencyStopReaches
PROPERTIES
  TakenBackForTheRun LeaseMovesOn
