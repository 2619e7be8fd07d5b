CONSTANTS
  Runs = {r1, r2, r3}
  None = None
SPECIFICATION Spec
SYMMETRY RunSymmetry
CONSTRAINT NoScreenshots
INVARIANTS
  NoWaiterIsLost OffAtOnce
PROPERTIES
  LongestWaiting IsQueue
