CONSTANTS
  bufferLimit = 2
  Foreign = {}
  Sender = {r1, r2}
  Payload <- Datagrams
  bufferCount = 2
  defaultCapacity = 1
  Worker = {w1, w2}
  QueueSize = 1
  Responses <- NoneUnprocessed
  batchSize = 2
  MaxDatagrams = 1
  HardErrors = TRUE
SPECIFICATION FairSpec
PROPERTIES
  ShutdownCompletes
