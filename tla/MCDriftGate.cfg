CONSTANTS
  w1 = w1  w2 = w2  r1 = r1  r2 = r2  r3 = r3  q1 = q1  NoSchema = NoSchema
  Workers = {w1, w2}
  Records = {r1, r2, r3}
  MaxMark = 3
  Mark <- OMark
  Shape <- OShape
  Mappable <- OMappable
  RenamesFields = FALSE
  Rules = {q1}
  Rejects <- ORejects
  Batches <- OBatches
  Configs <- OConfigs
  DefaultRetries = 1
  RetryLimit = 1
  ErrorCap = 2
  MaxRequests = 2
  MaxCrashes = 1
SPECIFICATION FairSpec
CHECK_DEADLOCK FALSE
PROPERTY BaselineChangesByAccept
