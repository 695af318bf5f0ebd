SPECIFICATION Spec
CONSTANTS
  w1 = w1
  w2 = w2
  on = on
  near = near
  far = far
  a1 = a1
  a2 = a2
  b1 = b1
  sure = sure
  vague = vague
  Workers = {w1, w2}
  Docs = {on, near, far}
  Urls = {a1, a2, b1}
  Claims = {sure, vague}
  Close <- CloseDocs
  Overlap <- Words
  Confidence <- Confidences
  Domain <- Sites
  Tasks <- TwoTasks
  Rankings <- SomeRankings
  Pages <- SomePages
  Setups <- TwoSetups
  TopK = 3
  MaxResults = 5
  MaxPerDomain = 1
  WebMinScore = 6000
  WebMaxScore = 7500
  EvidenceFloor = 5000
  ModelScore = 6000
SYMMETRY WorkerSymmetry
INVARIANTS
  TypeOK
  AnswersAreEarned
  OffTopicCorpusIsSilent
  CountersAreTheTasks
  WebResultsAreSpread
CHECK_DEADLOCK FALSE
