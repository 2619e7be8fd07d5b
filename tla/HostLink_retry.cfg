CONSTANTS
  Addresses = {home, office}
  None = None
  Pauses = 3
SPECIFICATION Spec
INVARIANTS
  TypeOK NoSocketLeaked LinkIsSound
PROPERTIES
  ComesBack
