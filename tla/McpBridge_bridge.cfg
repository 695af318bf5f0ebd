SPECIFICATION FairSpec
CONSTANTS
  c1 = c1
  c2 = c2
  Calls = {c1, c2}
  MaxThreads = 2
  MaxCloses = 1
INVARIANTS
  TypeOK
  CallsFindTheirSession
  OneBridgeThread
  DeadBridgeIsKnown
PROPERTIES
  CallsEnd
CHECK_DEADLOCK FALSE
