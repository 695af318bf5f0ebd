SPECIFICATION FairSpec
CONSTANTS
  t1 = t1
  Threads <- OneThread
  ChainLength = 3
  Top = 2
  Threshold = 2
  Prompts = {2}
  Windows = {0, 1}
  RetryAfter = TRUE
  MaxVisits = 2
INVARIANTS
  TypeOK
  ExhaustionIsReal
  BestAnswerReturned
  WaitsOnOwnCooldown
  DeadProvidersAreSkipped
PROPERTIES
  CallsReturn
CHECK_DEADLOCK FALSE
