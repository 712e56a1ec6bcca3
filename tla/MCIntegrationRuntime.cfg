CONSTANTS
  w1 = w1  w2 = w2  r1 = r1  r2 = r2   q1 = q1  NoSchema = NoSchema
  Workers = {w1, w2}
  Records = {r1, r2}
  MaxMark = 3
  Mark <- MCMark
  Shape <- MCShape
  Mappable <- MCMappable
  RenamesFields = FALSE
  Rules = {q1}
  Rejects <- MCRejects
  Batches <- MCBatches
  Configs <- MCConfigs
  DefaultRetries = 1
  RetryLimit = 1
  ErrorCap = 1
  MaxRequests = 3
  MaxCrashes = 1
SPECIFICATION Spec
SYMMETRY WorkerSymmetry
INVARIANT TypeOK
INVARIANT RunAccounted
INVARIANT LettersSound
CHECK_DEADLOCK FALSE
