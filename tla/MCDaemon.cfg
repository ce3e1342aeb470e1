CONSTANTS
  bufferLimit = 2
  Foreign = {}
  Sender = {r1, r2}
  Payload <- Datagrams
  bufferCount = 2
  defaultCapacity = 1
  Worker = {w1}
  QueueSize = 1
  Responses <- SomeResponses
  batchSize = 2
  MaxDatagrams = 3
  HardErrors = FALSE
SYMMETRY Symmetry
SPECIFICATION Spec
INVARIANTS
  TypeOK
  BufferOwnership
  RingNeverTruncates
  PayloadIntact
  UploadSize
  ExitDrained
  TelemetryLedger
  CloseLedger
  OnlyEchoesPanic
PROPERTIES
  ReceivedBeforeQuit
