SPECIFICATION Spec
CONSTANTS
  t1 = t1
  Threads <- OneThread
  ChainLength = 2
  Top = 1
  Threshold = 1
  Prompts = {1}
  Windows = {0}
  RetryAfter = TRUE
  MaxVisits = 2
INVARIANTS
  CountersAreOwn
CHECK_DEADLOCK FALSE
