CONSTANTS
  w1 = w1  w2 = w2  r1 = r1  r2 = r2  b1 = b1  b2 = b2  NoSchema = NoSchema
  Workers = {w1, w2}
  Records = {r1, r2}
  MaxMark = 3
  Mark <- BMark
  Shape <- BShape
  Mappable = {r1}
  RenamesFields = FALSE
  Rules = {}
  Rejects <- NoRejects
  Batches <- BBatches
  Configs <- BConfigs
  BatchIds = {b1, b2}
  Payload <- BPayload
  DefaultRetries = 1
  RetryLimit = 1
  ErrorCap = 1
  MaxRequests = 2
  MaxCrashes = 0
SPECIFICATION CSpec
CHECK_DEADLOCK FALSE
PROPERTY ProcessedIsFinal
