CONSTANTS
  Room = {r1}
  NoRoom = NoRoom
  MaxTasks = 3
  MaxErrors = 1
SPECIFICATION FairSpec
INVARIANTS
  TypeOK AsleepOnlyIfMissed AbortHasCause
 
CHECK_DEADLOCK FALSE
