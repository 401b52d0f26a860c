SPECIFICATION FairSpec
CONSTANTS
  a = a
  b = b
  r1 = r1
  r2 = r2
  Nobody = Nobody
  Handlers <- MCHandlers
  Requests <- MCRequests
  MaxFaults = 3
CHECK_DEADLOCK FALSE
INVARIANTS
  CallIsHonoured
PROPERTIES
  OneLastingAnswer
  TasksAreCommitted
