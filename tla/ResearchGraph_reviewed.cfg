SPECIFICATION Spec
CONSTANTS
  g1 = g1
  g2 = g2
  q1 = q1
  q2 = q2
  Goals <- TwoGoals
  Queries <- OneQuery
  Grades <- TwoGrades
  Passing = {"corpus"}
  Strong = {"corpus"}
  Grounding = {"corpus"}
  MaxFanout = 2
  MaxDepth = 2
  MaxRevisions = 1
  MaxEscalations = 2
  RecursionLimit = 15
  RecallTarget = 85
  GroundedTarget = 50
  HitlEnabled = TRUE
  ModelKnowledgeEnabled = FALSE
  ContradictionDetection = TRUE
  RunBudgets = {"tokens"}
SYMMETRY GoalSymmetry
INVARIANTS
  TypeOK
  RecursionLimitIsBackstop
  EscalationReachesReviewer
  GuidanceIsNotStale
  MemoryHoldsJudgedReports
  ShortfallIsReviewed
PROPERTIES
  NoSearchRepeated
  NoSearchAfterBudget
CHECK_DEADLOCK FALSE
