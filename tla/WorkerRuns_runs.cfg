CONSTANTS
  Threads = {main, errand}
  Main = main
  Routines = {errand}
  Buying = {errand}
  Beating = {main}
  Retried = {errand}
  Mail = {m1}
  Limit = 1
  SlowDisk = TRUE
SPECIFICATION Spec
CONSTRAINT OneTroubleAtATime
INVARIANTS
  TypeOK RunsAsShown RoomIsUsed
PROPERTIES
  MailKept PickedUpOnce ChosenWakeUpKept
