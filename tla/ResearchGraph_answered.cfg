SPECIFICATION FairSpec
CONSTANTS
  g1 = g1
  g2 = g2
  q1 = q1
  q2 = q2
  Goals <- OneGoal
  Queries <- TwoQueries
  Grades <- TwoGrades
  Passing = {"corpus"}
  Strong = {"corpus"}
  Grounding = {"corpus"}
  MaxFanout = 1
  MaxDepth = 2
  MaxRevisions = 2
  MaxEscalations = 2
  RecursionLimit = 12
  RecallTarget = 85
  GroundedTarget = 50
  HitlEnabled = TRUE
  ModelKnowledgeEnabled = FALSE
  ContradictionDetection = FALSE
  RunBudgets = {"tokens"}
PROPERTIES
  AnsweredRunsEnd
  ImplementsRun
CHECK_DEADLOCK FALSE
