SPECIFICATION Spec
CONSTANTS
  a1 = a1
  a2 = a2
  c1 = c1
  ApiCalls = {a1, a2}
  CliRuns = {c1}
  ThreadIds = {"run"}
  MaxReviews = 1
  MaxRestarts = 1
SYMMETRY ApiSymmetry
INVARIANTS
  TypeOK
  OneRunPerThread
  AnswersAreTrue
  RowsMatchAnswers
PROPERTIES
  PausesEndByAnswer
CHECK_DEADLOCK FALSE
