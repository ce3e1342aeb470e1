\* A channel of one place and three buffers: two senders truncate at once
\* while the consumer holds a third segment.
CONSTANTS
  bufferLimit = 3
  Foreign = {}
  Sender = {s1, s2}
  Payload <- SegmentIds
  bufferCount = 1
  defaultCapacity = 1
  MaxSegments = 5
SYMMETRY SenderSymmetry
SPECIFICATION Spec
INVARIANTS
  PoolConsistent
  RingOwnership
  TruncationLedger
