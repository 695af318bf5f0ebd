SPECIFICATION Spec
CONSTANTS
  a1 = a1
  a2 = a2
  c1 = c1
  ApiCalls = {a1, a2}
  CliRuns = {}
  ThreadIds = {"run"}
  MaxReviews = 1
  MaxRestarts = 0
INVARIANTS
  ThreadHoldsOneRun
CHECK_DEADLOCK FALSE
