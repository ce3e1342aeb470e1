CONSTANTS
  Byte <- Bytes3
  zero = "old"
  separator = "sep"
  Decode <- Unmarshal
  Buffer = {b1, b2}
  receiveBufferSize = 3
  Datagrams <- SomeDatagrams
SPECIFICATION Spec
INVARIANTS
  SplitExact
  SegmentExact
