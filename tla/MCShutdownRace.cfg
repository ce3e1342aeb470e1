CONSTANTS
  bufferLimit = 1
  Foreign = {}
  Sender = {r1, r2}
  Payload <- Datagrams
  bufferCount = 1
  defaultCapacity = 1
  Worker = {w1}
  QueueSize = 1
  Responses <- NoneUnprocessed
  batchSize = 1
  MaxDatagrams = 1
  HardErrors = FALSE
SPECIFICATION Spec
INVARIANTS
  PushedAtClose
