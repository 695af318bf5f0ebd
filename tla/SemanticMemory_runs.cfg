SPECIFICATION Spec
CONSTANTS
  r1 = r1
  r2 = r2
  p = p
  close = close
  alike = alike
  apart = apart
  Runs = {r1, r2}
  Processes = {p}
  ProcessOf <- OneProcess
  Contents = {close, alike, apart}
  Similarity <- Similarities
  TieOrder <- NamedFirst
  TopK = 1
  MinSimilarity = 60
  Findings <- SomeFindings
  HalfLifeSemi = 1
  HalfLifeVolatile = 1
  Full = 4
  Threshold = 2
  Beginnings <- Collections
  ServerSides = {TRUE, FALSE}
  MaxDay = 1
SYMMETRY RunSymmetry
INVARIANTS
  TypeOK
  EmbedderBuiltOnce
  RecallIsFair
PROPERTIES
  ImplementsMemory
CHECK_DEADLOCK FALSE
