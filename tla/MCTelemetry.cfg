CONSTANTS
  Recorder = {p1}
  Later = {"sent"}
  Errors <- SomeErrors
  bufferSize = 3
  requestSize = 2
  MaxPushes = 3
  MaxCounts = 1
  MaxLost = 2
SPECIFICATION TelemetryFairSpec
INVARIANTS
  PendingInOrder
  ReportedOnce
PROPERTIES
  LostOnlyByTruncation
  QuitAnswered
  PushCycleImplemented
