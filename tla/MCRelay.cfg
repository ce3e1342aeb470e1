CONSTANTS
  bufferLimit = 2
  Foreign = {}
  Sender = {r1}
  Payload <- Datagrams
  bufferCount = 2
  defaultCapacity = 1
  Worker = {w1}
  QueueSize = 1
  Responses <- NoneUnprocessed
  batchSize = 2
  MaxDatagrams = 3
  HardErrors = FALSE
SPECIFICATION FairSpec
PROPERTIES
  ImplementsRelay
  SegmentLeaves
