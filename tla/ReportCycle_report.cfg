SPECIFICATION Spec
CONSTANTS
  Goals <- TwoGoals
  GoalTerms <- TermsOfGoals
  Gathered <- SomeGathered
  Later <- SomeLater
  Drafts <- SomeDrafts
  Critiques <- SomeCritiques
  Settings <- SomeSettings
  MinTermOverlap = 2
  MinEvidenceScore = 5
  RecallTarget = 50
  PromptMax = 4
  MaxNotes = 3
  MaxNoteChars = 3
  MaxRevisions = 2
  MaxReviews = 1
INVARIANTS
  TypeOK
  SourcesAreHonest
  PassesAreEarned
  ConfidenceDescribesReport
  PromptIsFair
CHECK_DEADLOCK FALSE
