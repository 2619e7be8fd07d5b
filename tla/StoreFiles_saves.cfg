CONSTANTS
  Docs = {chats, tasks}
  AsyncDocs = {chats}
  MaxSaves = 3
SPECIFICATION Spec
INVARIANTS
  TypeOK ReadsSeeLastSave
PROPERTIES
  DiskNeverGoesBack SavedReachesDisk
