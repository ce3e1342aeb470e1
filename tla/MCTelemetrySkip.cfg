CONSTANTS
  Recorder = {p1}
  Later = {}
  Errors <- OneError
  bufferSize = 2
  requestSize = 1
  MaxPushes = 1
  MaxCounts = 1
  MaxLost = 0
SPECIFICATION TelemetrySpec
INVARIANTS
  SkippedUnused
