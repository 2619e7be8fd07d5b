CONSTANTS
  Sessions = {s1, s2}
  None = None
SPECIFICATION Spec
INVARIANTS
  OneOwner
CHECK_DEADLOCK FALSE
