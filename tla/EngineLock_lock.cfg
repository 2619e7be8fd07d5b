CONSTANTS
  Sessions = {s1, s2, s3}
  None = None
SPECIFICATION Spec
INVARIANTS
  TypeOK LockTellsOwner
PROPERTIES
  EnginesComeBack
CHECK_DEADLOCK FALSE
