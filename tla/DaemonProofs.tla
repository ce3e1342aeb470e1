----------------------------- MODULE DaemonProofs -----------------------------
(***************************************************************************)
(* Proofs about Daemon, for any number of receivers, workers, buffers and  *)
(* datagrams: DaemonInv is inductive, so buffers are owned exclusively and *)
(* never lost, the ring buffer never truncates, payloads reach the upload  *)
(* queue unchanged, uploads respect the batch size, and close() leaves     *)
(* nothing behind.  LedgerKept accounts for every segment in the counters  *)
(* that close() logs, TelemetryLedgerKept in those of telemetry, and       *)
(* QuitTheorem for what is counted before Quit.  EchoTheorem says when the *)
(* shutdown can panic.  RelayTheorem shows the whole pipeline to be the    *)
(* relay of TraceRelay.                                                    *)
(***************************************************************************)
EXTENDS Daemon, BufferPoolProofs

USE DEF poolVars, sendVars, ringVars, batchVars, procVars, recvVars, mainVars

-----------------------------------------------------------------------------
(* What a step that leaves a part of the state alone leaves true. *)

\* A step that leaves a component alone keeps its part of the type invariant.
LEMMA FrameType ==
  /\ PoolTypeOK /\ UNCHANGED poolVars => PoolTypeOK'
  /\ TelemetryTypeOK /\ UNCHANGED T => TelemetryTypeOK'
  /\ RingTypeOK /\ UNCHANGED ringVars => RingTypeOK'
  /\ UploadTypeOK /\ UNCHANGED batchVars => UploadTypeOK'
  /\ ProcTypeOK /\ UNCHANGED <<procVars, mem>> => ProcTypeOK'
  /\ RecvTypeOK /\ UNCHANGED recvVars => RecvTypeOK'
  /\ MainTypeOK /\ UNCHANGED mainVars => MainTypeOK'
BY DEF PoolTypeOK, TelemetryTypeOK, RingTypeOK, UploadTypeOK, ProcTypeOK, RecvTypeOK, MainTypeOK

\* A step that leaves the pool alone keeps it consistent.
LEMMA FramePool == PoolConsistent /\ UNCHANGED poolVars => PoolConsistent'
BY DEF PoolConsistent, HashMatchesStack, NoDuplicates, WithinLimit, InPool

\* A step that moves no buffer keeps every buffer with its owner.
LEMMA FrameOwner ==
  BufferOwnership /\ UNCHANGED <<Buffers, c, batch, rbuf>> /\ Unreturned' = Unreturned
    => BufferOwnership'
BY DEF BufferOwnership, ExclusiveOwner, NoBufferLost, NoDuplicates, InPool, InRing, InBatch, InHands

\* A step in no Send call keeps the ring buffer from truncating.
LEMMA FrameRing == RingNeverTruncates /\ UNCHANGED <<sendAt, count>> => RingNeverTruncates'
BY DEF RingNeverTruncates

\* A step that touches neither memory nor segments keeps payloads intact.
LEMMA FrameIntact == PayloadIntact /\ UNCHANGED <<mem, c, batch, docs>> => PayloadIntact'
BY DEF PayloadIntact

\* A step that touches no batch keeps uploads within their size.
LEMMA FrameUpload == UploadSize /\ UNCHANGED <<batches, wpc, inflight>> => UploadSize'
BY DEF UploadSize

\* A step of another goroutine keeps what relates a receiver to its buffer.
LEMMA FrameReceiver ==
  ReceiverInv /\ UNCHANGED <<rpc, rbuf, sendAt, sendSeg, mem>> => ReceiverInv'
BY DEF ReceiverInv

\* A step of another goroutine keeps what relates the processor to its batch.
LEMMA FrameProcessor ==
  ProcessorInv /\ UNCHANGED <<ppc, docs, batch, Empty, closed, c>> => ProcessorInv'
BY DEF ProcessorInv

\* A step of another goroutine keeps what relates the workers to the queue.
LEMMA FrameWorker ==
  WorkerInv /\ UNCHANGED <<ppc, wdone, wpc, batches, batchesClosed, inflight>> => WorkerInv'
BY DEF WorkerInv

\* The buffers the processor still holds depend on its own state only.
LEMMA FrameUnreturned == UNCHANGED <<ppc, batch, docs>> => Unreturned' = Unreturned
BY DEF Unreturned, Returned

-----------------------------------------------------------------------------
(* Sequences of segments. *)

\* The elements of a sequence of segments are segments.
LEMMA ElementOfSegments ==
  ASSUME NEW q \in Seq(TraceSegment), NEW i \in DOMAIN q
  PROVE  q[i] \in TraceSegment /\ q[i].PoolBuf \in Buffer /\ q[i].Raw \in Payload
<1>1. q[i] \in TraceSegment
  OBVIOUS
<1> QED
  BY <1>1 DEF TraceSegment

-----------------------------------------------------------------------------
(* The buffers that receivers hold. *)

HandsDistinct == \A r, s \in Sender : rbuf[r] = rbuf[s] /\ rbuf[r] # nil => r = s

\* nil is not a buffer, and the channel has room for every buffer.
LEMMA Sizes ==
  /\ nil \notin Buffer
  /\ capacity \in Nat
  /\ bufferLimit <= capacity
BY bufferLimitAssumption, bufferCountAssumption, defaultCapacityAssumption, SizingAssumption
   DEF nil, Buffer, capacity, getChannelSize

\* A receiver without a buffer takes one nobody else has.
LEMMA HandTakes ==
  ASSUME RecvTypeOK, HandsDistinct, NEW r \in Sender, rbuf[r] = nil,
         NEW b \in Buffer, b \notin InHands, rbuf' = [rbuf EXCEPT ![r] = b]
  PROVE  InHands' = InHands \cup {b} /\ HandsDistinct'
BY Sizes DEF RecvTypeOK, HandsDistinct, InHands

\* A receiver lets go of its buffer.
LEMMA HandGives ==
  ASSUME RecvTypeOK, HandsDistinct, NEW r \in Sender, rbuf' = [rbuf EXCEPT ![r] = nil]
  PROVE  InHands' = InHands \ {rbuf[r]} /\ HandsDistinct'
BY DEF RecvTypeOK, HandsDistinct, InHands

\* Ownership in terms of the four sets of buffers.
BatchDistinct == \A i, j \in Unreturned : batch[i].PoolBuf = batch[j].PoolBuf => i = j

Apart ==
  /\ InPool \cap (InRing \cup InBatch \cup InHands) = {}
  /\ InRing \cap (InBatch \cup InHands) = {}
  /\ InBatch \cap InHands = {}

\* Ownership by its parts: each place holds distinct buffers, places are disjoint,
\* and together they hold all buffers.
LEMMA OwnershipParts ==
  BufferOwnership <=> /\ NoDuplicates
                      /\ Distinct(c)
                      /\ BatchDistinct
                      /\ HandsDistinct
                      /\ Apart
                      /\ InPool \cup InRing \cup InBatch \cup InHands = Buffer
BY DEF BufferOwnership, ExclusiveOwner, NoBufferLost, Distinct, BatchDistinct, HandsDistinct, Apart

\* The same parts after a step give ownership after it.
LEMMA OwnershipNext ==
  ASSUME PoolConsistent', Distinct(c)', BatchDistinct', HandsDistinct', Apart',
         InPool' \cup InRing' \cup InBatch' \cup InHands' = Buffer
  PROVE  BufferOwnership'
BY DEF BufferOwnership, ExclusiveOwner, NoBufferLost, Distinct, BatchDistinct, HandsDistinct,
       Apart, PoolConsistent

\* Buffers in the ring when the channel is unchanged.
LEMMA FrameRingBufs == UNCHANGED c => InRing' = InRing /\ (Distinct(c) => Distinct(c)')
BY DEF InRing, Distinct

\* Buffers of the batch when the processor is unchanged.
LEMMA FrameBatchBufs ==
  UNCHANGED batch /\ Unreturned' = Unreturned
    => InBatch' = InBatch /\ (BatchDistinct => BatchDistinct')
BY DEF InBatch, BatchDistinct

\* Buffers of the receivers when they are unchanged.
LEMMA FrameHands == UNCHANGED rbuf => InHands' = InHands /\ (HandsDistinct => HandsDistinct')
BY DEF InHands, HandsDistinct

\* Buffers in the pool when it is unchanged.
LEMMA FramePoolBufs == UNCHANGED Buffers => InPool' = InPool
BY DEF InPool

-----------------------------------------------------------------------------
(* Receivers *)

\* PollGet preserves the invariant: the buffer moves from the pool to a hand.
LEMMA PollGetInv ==
  ASSUME DaemonInv, NEW r \in Sender, PollGet(r)
  PROVE  DaemonInv'
<1> USE DEF DaemonInv
<1>1. PICK b \in Buffer \cup {nil} : Get(b) /\ rbuf' = [rbuf EXCEPT ![r] = b]
  BY DEF PollGet
<1>2. /\ rpc[r] = "get"
      /\ rpc' = [rpc EXCEPT ![r] = "read"]
      /\ UNCHANGED <<T, ringVars, batchVars, procVars, mem, sockOpen, arrived, dcount, mainVars>>
  BY DEF PollGet
<1>3. /\ PoolTypeOK' /\ PoolConsistent'
      /\ \/ b \in InPool /\ InPool' = InPool \ {b}
         \/ b = nil /\ InPool = {} /\ InPool' = InPool
  BY <1>1, GetEffect DEF TypeOK
<1>4. rbuf[r] = nil
  BY <1>2 DEF ReceiverInv
<1>5. TypeOK'
  BY <1>1, <1>2, <1>3, FrameType DEF TypeOK, RecvTypeOK
<1>6. BufferOwnership'
  <2>1. InRing' = InRing /\ InBatch' = InBatch /\ Distinct(c)' /\ BatchDistinct'
    BY <1>2, FrameUnreturned, FrameRingBufs, FrameBatchBufs, OwnershipParts
  <2>2. CASE b \in InPool
    <3>1. b \in Buffer /\ b \notin InHands
      BY <2>2, OwnershipParts DEF Apart
    <3>2. InHands' = InHands \cup {b} /\ HandsDistinct'
      BY <1>1, <1>4, <3>1, HandTakes, OwnershipParts DEF TypeOK
    <3>3. InPool' = InPool \ {b}
      BY <1>3, <2>2, Sizes, OwnershipParts
    <3> QED
      BY <1>3, <2>1, <2>2, <3>2, <3>3, OwnershipParts, OwnershipNext DEF Apart
  <2>3. CASE b \notin InPool
    <3>1. rbuf' = rbuf
      BY <1>1, <1>3, <1>4, <2>3 DEF TypeOK, RecvTypeOK
    <3>2. InHands' = InHands /\ HandsDistinct'
      BY <3>1, FrameHands, OwnershipParts
    <3> QED
      BY <1>3, <2>1, <2>3, <3>2, OwnershipParts, OwnershipNext DEF Apart
  <2> QED
    BY <2>2, <2>3
<1>7. ReceiverInv'
  BY <1>1, <1>2 DEF ReceiverInv, TypeOK, RecvTypeOK
<1>8. RingNeverTruncates' /\ PayloadIntact' /\ UploadSize' /\ ProcessorInv' /\ WorkerInv' /\ MainInv'
  BY <1>2, FrameRing, FrameIntact, FrameUpload, FrameProcessor, FrameWorker DEF MainInv
<1> QED
  BY <1>3, <1>5, <1>6, <1>7, <1>8

\* A receiver that writes to the buffer it holds changes no payload that is
\* still to be copied, and no buffer of another receiver.
LEMMA MemWrite ==
  ASSUME DaemonInv, NEW r \in Sender, rbuf[r] # nil, NEW p,
         mem' = [mem EXCEPT ![rbuf[r]] = p], UNCHANGED <<c, batch, docs>>
  PROVE  /\ PayloadIntact'
         /\ mem'[rbuf[r]] = p
         /\ \A s \in Sender : s # r /\ rbuf[s] # nil => mem'[rbuf[s]] = mem[rbuf[s]]
<1> USE DEF DaemonInv
<1>1. /\ rbuf[r] \in Buffer
      /\ rbuf[r] \in InHands
      /\ \A b \in Buffer : b # rbuf[r] => mem'[b] = mem[b]
      /\ mem'[rbuf[r]] = p
  BY DEF TypeOK, RecvTypeOK, ProcTypeOK, InHands
<1>2. ASSUME NEW i \in DOMAIN c PROVE mem'[c[i].PoolBuf] = c[i].Raw
  <2>1. c[i].PoolBuf \in InRing /\ c[i].PoolBuf \in Buffer
    BY ElementOfSegments DEF TypeOK, RingTypeOK, InRing
  <2>2. c[i].PoolBuf # rbuf[r]
    BY <1>1, <2>1, OwnershipParts DEF Apart
  <2> QED
    BY <1>1, <2>1, <2>2 DEF PayloadIntact
<1>3. ASSUME NEW i \in DOMAIN batch, ~(i <= Len(docs)) PROVE mem'[batch[i].PoolBuf] = batch[i].Raw
  <2>1. i \in Unreturned
    BY <1>3 DEF TypeOK, ProcTypeOK, Unreturned, Returned
  <2>2. batch[i].PoolBuf \in InBatch /\ batch[i].PoolBuf \in Buffer
    BY <2>1, ElementOfSegments DEF TypeOK, ProcTypeOK, InBatch
  <2>3. batch[i].PoolBuf # rbuf[r]
    BY <1>1, <2>2, OwnershipParts DEF Apart
  <2> QED
    BY <1>1, <1>3, <2>2, <2>3 DEF PayloadIntact
<1>4. PayloadIntact'
  BY <1>2, <1>3 DEF PayloadIntact
<1>5. ASSUME NEW s \in Sender, s # r, rbuf[s] # nil PROVE mem'[rbuf[s]] = mem[rbuf[s]]
  <2>1. rbuf[s] \in Buffer /\ rbuf[s] # rbuf[r]
    BY <1>5, OwnershipParts DEF HandsDistinct, TypeOK, RecvTypeOK
  <2> QED
    BY <1>1, <2>1
<1> QED
  BY <1>1, <1>4, <1>5

\* ReadDatagram preserves the invariant: the datagram is written to a buffer that
\* only this receiver has, or to its fallback buffer.
LEMMA ReadDatagramInv ==
  ASSUME DaemonInv, NEW r \in Sender, ReadDatagram(r)
  PROVE  DaemonInv'
<1> USE DEF DaemonInv
<1>1. /\ rpc[r] = "read"
      /\ arrived < MaxDatagrams /\ arrived' = arrived + 1
      /\ mem' = IF rbuf[r] = nil THEN mem ELSE [mem EXCEPT ![rbuf[r]] = arrived + 1]
      /\ rpc' = [rpc EXCEPT ![r] = "count"]
      /\ UNCHANGED <<rbuf, sockOpen, dcount, mainVars, poolVars, T, ringVars, batchVars, procVars>>
  BY DEF ReadDatagram
<1>2. arrived + 1 \in Payload /\ arrived' \in 0 .. MaxDatagrams
  BY <1>1, DatagramAssumption DEF TypeOK, RecvTypeOK
<1>3. PoolTypeOK' /\ TelemetryTypeOK' /\ RingTypeOK' /\ UploadTypeOK' /\ MainTypeOK' /\ PoolConsistent'
  BY <1>1, FrameType, FramePool DEF TypeOK
<1>4. ProcTypeOK'
  BY <1>1, <1>2 DEF TypeOK, ProcTypeOK
<1>5. RecvTypeOK'
  BY <1>1, <1>2 DEF TypeOK, RecvTypeOK
<1>6. /\ PayloadIntact'
      /\ rbuf[r] # nil => mem'[rbuf[r]] = arrived + 1
      /\ \A s \in Sender : s # r /\ rbuf[s] # nil => mem'[rbuf[s]] = mem[rbuf[s]]
  <2>1. CASE rbuf[r] = nil
    BY <1>1, <2>1, FrameIntact
  <2>2. CASE rbuf[r] # nil
    BY <1>1, <2>2, MemWrite
  <2> QED
    BY <2>1, <2>2
<1>7. ReceiverInv'
  BY <1>1, <1>2, <1>6 DEF ReceiverInv, TypeOK, RecvTypeOK
<1>8. BufferOwnership' /\ RingNeverTruncates' /\ UploadSize' /\ ProcessorInv' /\ WorkerInv' /\ MainInv'
  BY <1>1, FrameUnreturned, FrameOwner, FrameRing, FrameUpload, FrameProcessor, FrameWorker DEF MainInv
<1> QED
  BY <1>3, <1>4, <1>5, <1>6, <1>7, <1>8 DEF TypeOK

\* CountSegment preserves the invariant: the segment is what its buffer holds.
LEMMA CountSegmentInv ==
  ASSUME DaemonInv, NEW r \in Sender, CountSegment(r)
  PROVE  DaemonInv'
<1> USE DEF DaemonInv
<1> DEFINE seg == [PoolBuf |-> rbuf[r], Raw |-> mem[rbuf[r]]]
<1>1. /\ rpc[r] = "count" /\ rbuf[r] # nil
      /\ T' = [T EXCEPT !["received"] = @ + 1]
      /\ dcount' = dcount + 1
      /\ sendAt' = [sendAt EXCEPT ![r] = "try"]
      /\ sendSeg' = [sendSeg EXCEPT ![r] = seg]
      /\ rpc' = [rpc EXCEPT ![r] = "send"]
      /\ UNCHANGED <<rbuf, sockOpen, arrived, mem, poolVars, c, closed, count, sendOld, sendTmp, panic,
                     batchVars, procVars, mainVars>>
  BY DEF CountSegment, SegmentReceived, Counted, SendCall
<1>2. mem[rbuf[r]] \in Payload /\ rbuf[r] \in Buffer
  BY <1>1 DEF ReceiverInv, TypeOK, RecvTypeOK
<1>3. seg \in TraceSegment
  BY <1>2 DEF TraceSegment
<1>4. PoolTypeOK' /\ UploadTypeOK' /\ ProcTypeOK' /\ MainTypeOK' /\ PoolConsistent'
  BY <1>1, FrameType, FramePool DEF TypeOK
<1>5. TelemetryTypeOK'
  BY <1>1 DEF TypeOK, TelemetryTypeOK, CounterNames
<1>6. RingTypeOK'
  BY <1>1, <1>3 DEF TypeOK, RingTypeOK
<1>8. RecvTypeOK'
  BY <1>1 DEF TypeOK, RecvTypeOK
<1>9. BufferOwnership'
  BY <1>1, FrameUnreturned, FrameOwner
<1>10. RingNeverTruncates'
  BY <1>1 DEF RingNeverTruncates, TypeOK, RingTypeOK
<1>12. ReceiverInv'
  <2> SUFFICES ASSUME NEW s \in Sender
               PROVE  /\ rpc'[s] = "get" => rbuf'[s] = nil
                      /\ rpc'[s] \in {"release", "reject", "send", "exit"} => rbuf'[s] # nil
                      /\ rpc'[s] = "count" /\ rbuf'[s] # nil => mem'[rbuf'[s]] \in Payload
                      /\ rpc'[s] = "send" => /\ sendAt'[s] # "idle"
                                             /\ sendSeg'[s] \in TraceSegment
                                             /\ sendSeg'[s].PoolBuf = rbuf'[s]
                                             /\ mem'[rbuf'[s]] = sendSeg'[s].Raw
                      /\ rpc'[s] # "send" => sendAt'[s] = "idle"
    BY DEF ReceiverInv
  <2>1. CASE s = r
    BY <1>1, <1>3, <2>1 DEF TypeOK, RecvTypeOK, RingTypeOK
  <2>2. CASE s # r
    <3>1. /\ rpc'[s] = rpc[s] /\ sendAt'[s] = sendAt[s] /\ sendSeg'[s] = sendSeg[s]
          /\ rbuf'[s] = rbuf[s] /\ mem' = mem
      BY <1>1, <2>2 DEF TypeOK, RecvTypeOK, RingTypeOK
    <3> QED
      BY <2>2, <3>1 DEF ReceiverInv
  <2> QED
    BY <2>1, <2>2
<1>13. PayloadIntact' /\ UploadSize' /\ ProcessorInv' /\ WorkerInv' /\ MainInv'
  BY <1>1, FrameIntact, FrameUpload, FrameProcessor, FrameWorker DEF MainInv
<1> QED
  BY <1>4, <1>5, <1>6, <1>8, <1>9, <1>10, <1>12, <1>13 DEF TypeOK

\* CountInvalid and CountFallback preserve the invariant: a receiver moves, and
\* counters of telemetry.
LEMMA CountOtherInv ==
  ASSUME DaemonInv, NEW r \in Sender, CountInvalid(r) \/ CountFallback(r)
  PROVE  DaemonInv'
<1> USE DEF DaemonInv
<1>1. /\ rpc[r] = "count"
      /\ \/ rbuf[r] # nil /\ rpc' = [rpc EXCEPT ![r] = "reject"] /\ rbuf' = rbuf
         \/ rbuf[r] = nil /\ rpc' = [rpc EXCEPT ![r] = "get"] /\ rbuf' = [rbuf EXCEPT ![r] = nil]
      /\ \/ T' = [T EXCEPT !["received"] = @ + 1]
         \/ T' = [T EXCEPT !["received"] = @ + 1, !["spillover"] = @ + 1]
      /\ UNCHANGED <<sockOpen, arrived, dcount, mem, poolVars, ringVars, batchVars, procVars, mainVars>>
  BY DEF CountInvalid, CountFallback, SegmentReceived, Counted, NextLoop
<1>2. rbuf' = rbuf
  BY <1>1 DEF TypeOK, RecvTypeOK
<1>3. PoolTypeOK' /\ RingTypeOK' /\ UploadTypeOK' /\ ProcTypeOK' /\ MainTypeOK' /\ PoolConsistent'
  BY <1>1, FrameType, FramePool DEF TypeOK
<1>4. TelemetryTypeOK'
  BY <1>1 DEF TypeOK, TelemetryTypeOK, CounterNames
<1>5. RecvTypeOK'
  BY <1>1, <1>2 DEF TypeOK, RecvTypeOK
<1>6. ReceiverInv'
  BY <1>1, <1>2 DEF ReceiverInv, TypeOK, RecvTypeOK
<1>7. /\ BufferOwnership' /\ RingNeverTruncates' /\ PayloadIntact' /\ UploadSize'
      /\ ProcessorInv' /\ WorkerInv' /\ MainInv'
  BY <1>1, <1>2, FrameUnreturned, FrameOwner, FrameRing, FrameIntact, FrameUpload,
     FrameProcessor, FrameWorker DEF MainInv
<1> QED
  BY <1>3, <1>4, <1>5, <1>6, <1>7 DEF TypeOK

\* A step that only moves receiver r, without touching its buffer.
LEMMA MoveReceiverInv ==
  ASSUME DaemonInv, NEW r \in Sender, rpc[r] = "read", rpc'[r] \in {"release", "get", "done"},
         rpc' = [rpc EXCEPT ![r] = rpc'[r]],
         rpc'[r] = "release" => rbuf[r] # nil,
         rpc'[r] = "get" => rbuf[r] = nil,
         UNCHANGED <<rbuf, sockOpen, arrived, dcount, mainVars,
                     poolVars, T, ringVars, batchVars, procVars, mem>>
  PROVE  DaemonInv'
<1> USE DEF DaemonInv
<1>1. TypeOK' /\ PoolConsistent'
  <2>1. RecvTypeOK'
    BY DEF TypeOK, RecvTypeOK
  <2> QED
    BY <2>1, FrameType, FramePool DEF TypeOK
<1>2. ReceiverInv'
  BY DEF ReceiverInv, TypeOK, RecvTypeOK
<1>3. /\ BufferOwnership' /\ RingNeverTruncates' /\ PayloadIntact' /\ UploadSize'
      /\ ProcessorInv' /\ WorkerInv' /\ MainInv'
  BY FrameUnreturned, FrameOwner, FrameRing, FrameIntact, FrameUpload,
     FrameProcessor, FrameWorker DEF MainInv
<1> QED
  BY <1>1, <1>2, <1>3

\* ReadNothing preserves the invariant.
LEMMA ReadNothingInv ==
  ASSUME DaemonInv, NEW r \in Sender, ReadNothing(r)
  PROVE  DaemonInv'
<1>1. CASE rbuf[r] # nil
  <2>1. rpc' = [rpc EXCEPT ![r] = "release"]
    BY <1>1 DEF ReadNothing
  <2>2. rpc'[r] = "release"
    BY <2>1 DEF DaemonInv, TypeOK, RecvTypeOK
  <2> QED
    BY <1>1, <2>1, <2>2, MoveReceiverInv DEF ReadNothing
<1>2. CASE rbuf[r] = nil
  <2>1. rpc' = [rpc EXCEPT ![r] = "get"]
    BY <1>2 DEF ReadNothing
  <2>2. rpc'[r] = "get"
    BY <2>1 DEF DaemonInv, TypeOK, RecvTypeOK
  <2> QED
    BY <1>2, <2>1, <2>2, MoveReceiverInv DEF ReadNothing
<1> QED
  BY <1>1, <1>2

\* ReadError preserves the invariant.
LEMMA ReadErrorInv ==
  ASSUME DaemonInv, NEW r \in Sender, ReadError(r)
  PROVE  DaemonInv'
<1>1. rpc'[r] = "done"
  BY DEF ReadError, DaemonInv, TypeOK, RecvTypeOK
<1> QED
  BY <1>1, MoveReceiverInv DEF ReadError

\* A receiver gives its buffer back and goes round its loop.
LEMMA HandReturnsInv ==
  ASSUME DaemonInv, NEW r \in Sender, rpc[r] \in {"release", "reject"},
         Return(rbuf[r]), NextLoop(r), TelemetryTypeOK',
         UNCHANGED <<sockOpen, arrived, dcount, mainVars, ringVars, batchVars, procVars, mem>>
  PROVE  DaemonInv'
<1> USE DEF DaemonInv
<1>1. rpc' = [rpc EXCEPT ![r] = "get"] /\ rbuf' = [rbuf EXCEPT ![r] = nil]
  BY DEF NextLoop
<1>2. rbuf[r] \in Buffer
  BY DEF ReceiverInv, TypeOK, RecvTypeOK
<1>3. rbuf[r] \in InHands
  BY <1>2, Sizes DEF InHands
<1>4. rbuf[r] \notin InPool /\ InPool \subseteq Buffer
  BY <1>3, OwnershipParts DEF Apart
<1>5. PoolTypeOK' /\ PoolConsistent'
  BY <1>2, ReturnConsistent DEF TypeOK
<1>6. InPool' = InPool \cup {rbuf[r]}
  BY <1>2, <1>4, ReturnEffect DEF TypeOK
<1>7. InHands' = InHands \ {rbuf[r]} /\ HandsDistinct'
  BY <1>1, HandGives, OwnershipParts DEF TypeOK
<1>8. InRing' = InRing /\ InBatch' = InBatch /\ Distinct(c)' /\ BatchDistinct'
  BY FrameUnreturned, FrameRingBufs, FrameBatchBufs, OwnershipParts
<1>9. BufferOwnership'
  <2>1. Apart'
    BY <1>3, <1>6, <1>7, <1>8, OwnershipParts DEF Apart
  <2>2. InPool' \cup InRing' \cup InBatch' \cup InHands' = Buffer
    BY <1>3, <1>6, <1>7, <1>8, OwnershipParts
  <2> QED
    BY <1>5, <1>7, <1>8, <2>1, <2>2, OwnershipNext
<1>10. TypeOK'
  BY <1>1, <1>5, FrameType DEF TypeOK, RecvTypeOK
<1>11. ReceiverInv'
  BY <1>1 DEF ReceiverInv, TypeOK, RecvTypeOK
<1>12. RingNeverTruncates' /\ PayloadIntact' /\ UploadSize' /\ ProcessorInv' /\ WorkerInv' /\ MainInv'
  BY FrameRing, FrameIntact, FrameUpload, FrameProcessor, FrameWorker DEF MainInv
<1> QED
  BY <1>5, <1>9, <1>10, <1>11, <1>12

\* PollRelease preserves the invariant.
LEMMA PollReleaseInv ==
  ASSUME DaemonInv, NEW r \in Sender, PollRelease(r)
  PROVE  DaemonInv'
BY HandReturnsInv, FrameType DEF PollRelease, DaemonInv, TypeOK

\* PollReject preserves the invariant.
LEMMA PollRejectInv ==
  ASSUME DaemonInv, NEW r \in Sender, PollReject(r)
  PROVE  DaemonInv'
<1>1. TelemetryTypeOK'
  BY DEF PollReject, SegmentRejected, Counted, DaemonInv, TypeOK, TelemetryTypeOK, CounterNames
<1> QED
  BY <1>1, HandReturnsInv DEF PollReject

\* While a receiver holds a buffer the channel has room: the buffers of the
\* segments in it are distinct and none is the receiver's.
LEMMA RingHasRoom ==
  ASSUME DaemonInv, NEW r \in Sender, rbuf[r] # nil
  PROVE  Len(c) < capacity
<1> USE DEF DaemonInv
<1> DEFINE q == [i \in 1 .. Len(c) |-> c[i].PoolBuf]
<1>1. c \in Seq(TraceSegment) /\ Len(c) \in Nat /\ DOMAIN c = 1 .. Len(c)
  BY DEF TypeOK, RingTypeOK
<1>2. rbuf[r] \in Buffer /\ rbuf[r] \in InHands
  BY DEF TypeOK, RecvTypeOK, InHands
<1>3. ASSUME NEW i \in 1 .. Len(c) PROVE c[i].PoolBuf \in Buffer \ {rbuf[r]}
  <2>1. c[i].PoolBuf \in Buffer
    BY <1>1, ElementOfSegments
  <2>2. c[i].PoolBuf \in InRing
    BY <1>1 DEF InRing
  <2> QED
    BY <1>2, <2>1, <2>2, OwnershipParts DEF Apart
<1>4. q \in Seq(Buffer \ {rbuf[r]}) /\ Len(q) = Len(c) /\ DOMAIN q = 1 .. Len(c)
  BY <1>1, <1>3
<1>5. \A i, j \in DOMAIN q : q[i] = q[j] => i = j
  BY <1>1, <1>4, OwnershipParts DEF Distinct
<1>6. /\ IsFiniteSet(Buffer \ {rbuf[r]})
      /\ Cardinality(Buffer \ {rbuf[r]}) = bufferLimit - 1
  BY <1>2, BufferCardinality, FS_RemoveElement
<1>7. Len(q) <= Cardinality(Buffer \ {rbuf[r]})
  <2> HIDE DEF q
  <2> QED
    BY <1>4, <1>5, <1>6, DistinctSeqBound
<1>8. Len(c) <= bufferLimit - 1
  BY <1>4, <1>6, <1>7
<1> QED
  BY <1>1, <1>8, Sizes, bufferLimitAssumption

\* Enqueueing moves the receiver's buffer into the ring buffer.
LEMMA PollEnqueueInv ==
  ASSUME DaemonInv, NEW r \in Sender, rpc[r] = "send", SendEnqueue(r), NextLoop(r),
         UNCHANGED <<sockOpen, arrived, dcount, mainVars, batchVars, procVars, mem>>
  PROVE  DaemonInv'
<1> USE DEF DaemonInv
<1>1. /\ ~closed
      /\ c' = Append(c, sendSeg[r])
      /\ sendAt' = [sendAt EXCEPT ![r] = "idle"]
      /\ sendSeg' = [sendSeg EXCEPT ![r] = noSegment]
      /\ rpc' = [rpc EXCEPT ![r] = "get"]
      /\ rbuf' = [rbuf EXCEPT ![r] = nil]
      /\ UNCHANGED <<closed, count, sendOld, sendTmp, panic, T, poolVars>>
  BY DEF SendEnqueue, NextLoop
<1>2. /\ sendSeg[r] \in TraceSegment
      /\ sendSeg[r].PoolBuf = rbuf[r]
      /\ mem[rbuf[r]] = sendSeg[r].Raw
      /\ rbuf[r] # nil
      /\ rbuf[r] \in Buffer
  BY DEF ReceiverInv, TypeOK, RecvTypeOK
<1>3. rbuf[r] \in InHands
  BY <1>2 DEF InHands
<1>4. rbuf[r] \notin Bufs(c)
  BY <1>3, OwnershipParts DEF Apart, InRing, Bufs
<1>5. c \in Seq(TraceSegment) /\ c' \in Seq(TraceSegment)
  BY <1>1, <1>2, AppendBufs DEF TypeOK, RingTypeOK
<1>6. InRing' = InRing \cup {rbuf[r]} /\ Distinct(c)'
  <2>1. Bufs(c') = Bufs(c) \cup {rbuf[r]} /\ Distinct(c')
    BY <1>1, <1>2, <1>4, <1>5, AppendBufs, OwnershipParts
  <2> QED
    BY <2>1 DEF InRing, Bufs, Distinct
<1>7. InHands' = InHands \ {rbuf[r]} /\ HandsDistinct'
  BY <1>1, HandGives, OwnershipParts DEF TypeOK
<1>8. InPool' = InPool /\ InBatch' = InBatch /\ BatchDistinct' /\ PoolConsistent'
  BY <1>1, FrameUnreturned, FramePoolBufs, FrameBatchBufs, FramePool, OwnershipParts
<1>9. BufferOwnership'
  <2>1. Apart'
    BY <1>3, <1>6, <1>7, <1>8, OwnershipParts DEF Apart
  <2>2. InPool' \cup InRing' \cup InBatch' \cup InHands' = Buffer
    BY <1>3, <1>6, <1>7, <1>8, OwnershipParts
  <2> QED
    BY <1>6, <1>7, <1>8, <2>1, <2>2, OwnershipNext
<1>10. RingTypeOK'
  BY <1>1, <1>5 DEF TypeOK, RingTypeOK
<1>11. RecvTypeOK'
  BY <1>1 DEF TypeOK, RecvTypeOK
<1>12. TypeOK'
  BY <1>1, <1>10, <1>11, FrameType DEF TypeOK
<1>13. RingNeverTruncates'
  BY <1>1 DEF RingNeverTruncates, TypeOK, RingTypeOK
<1>14. PayloadIntact'
  <2>1. /\ DOMAIN c = 1 .. Len(c) /\ DOMAIN c' = 1 .. Len(c) + 1 /\ Len(c) \in Nat
        /\ \A i \in 1 .. Len(c) : c'[i] = c[i]
        /\ c'[Len(c) + 1] = sendSeg[r]
    BY <1>1, <1>5
  <2>2. \A i \in DOMAIN c' : mem[c'[i].PoolBuf] = c'[i].Raw
    BY <1>2, <2>1 DEF PayloadIntact
  <2> QED
    BY <2>2 DEF PayloadIntact
<1>15. ReceiverInv'
  BY <1>1 DEF ReceiverInv, TypeOK, RecvTypeOK, RingTypeOK
<1>16. ProcessorInv'
  BY <1>1 DEF ProcessorInv
<1>17. UploadSize' /\ WorkerInv' /\ MainInv'
  BY FrameUpload, FrameWorker DEF MainInv
<1> QED
  BY <1>8, <1>9, <1>12, <1>13, <1>14, <1>15, <1>16, <1>17

\* A step of Send preserves the invariant: there is room, so it enqueues or
\* panics.
LEMMA PollSendInv ==
  ASSUME DaemonInv, NEW r \in Sender, PollSend(r)
  PROVE  DaemonInv'
<1> USE DEF DaemonInv
<1>1. /\ rpc[r] = "send"
      /\ UNCHANGED <<sockOpen, arrived, dcount, mainVars, batchVars, procVars, mem>>
  BY DEF PollSend
<1>2. CASE SendEnqueue(r) /\ NextLoop(r)
  BY <1>1, <1>2, PollEnqueueInv
<1>3. CASE SendRetry(r) /\ UNCHANGED <<rpc, rbuf>>
  <2>1. sendAt[r] = "try"
    BY <1>1 DEF ReceiverInv, RingNeverTruncates
  <2>2. Len(c) < capacity /\ Len(c) \in Nat
    BY <1>1, RingHasRoom DEF ReceiverInv, TypeOK, RingTypeOK
  <2>3. SendPanic(r)
    BY <1>3, <2>1, <2>2, Sizes DEF SendRetry, SendFull, SendTruncate, SendDequeued, SendDrop
  <2>4. panic' = TRUE /\ UNCHANGED <<c, closed, count, sendVars, T, poolVars>>
    BY <2>3 DEF SendPanic
  <2>5. RingTypeOK'
    BY <2>4 DEF TypeOK, RingTypeOK
  <2>6. TypeOK' /\ PoolConsistent'
    BY <1>1, <1>3, <2>4, <2>5, FrameType, FramePool DEF TypeOK
  <2>7. /\ BufferOwnership' /\ RingNeverTruncates' /\ PayloadIntact' /\ UploadSize'
        /\ ReceiverInv' /\ ProcessorInv' /\ WorkerInv' /\ MainInv'
    BY <1>1, <1>3, <2>4, FrameUnreturned, FrameOwner, FrameRing, FrameIntact, FrameUpload,
       FrameReceiver, FrameProcessor, FrameWorker DEF MainInv
  <2> QED
    BY <2>6, <2>7
<1> QED
  BY <1>2, <1>3 DEF PollSend

\* PollDone preserves the invariant; with the fallback buffer the receiver goes
\* round its loop again.
LEMMA PollDoneInv ==
  ASSUME DaemonInv, NEW r \in Sender, PollDone(r)
  PROVE  DaemonInv'
<1> USE DEF DaemonInv
<1>1. /\ rpc[r] = "done"
      /\ mpc = "await"
      /\ dones' = dones + 1
      /\ mpc' \in {"await", "closeStd"}
      /\ UNCHANGED <<sockOpen, arrived, dcount, tpc, poolVars, ringVars, batchVars, procVars, mem>>
  BY DEF PollDone, AwaitDone
<1>2. /\ rbuf' = rbuf
      /\ \/ rpc' = [rpc EXCEPT ![r] = "exit"] /\ rbuf[r] # nil
         \/ rpc' = [rpc EXCEPT ![r] = "get"] /\ rbuf[r] = nil
  BY DEF PollDone, NextLoop, TypeOK, RecvTypeOK
<1>3. TelemetryTypeOK'
  BY DEF PollDone, SegmentSpillover, Counted, TypeOK, TelemetryTypeOK, CounterNames
<1>4. RecvTypeOK'
  BY <1>1, <1>2 DEF TypeOK, RecvTypeOK
<1>5. MainTypeOK'
  BY <1>1 DEF TypeOK, MainTypeOK
<1>6. TypeOK' /\ PoolConsistent'
  BY <1>1, <1>3, <1>4, <1>5, FrameType, FramePool DEF TypeOK
<1>7. ReceiverInv'
  BY <1>1, <1>2 DEF ReceiverInv, TypeOK, RecvTypeOK
<1>8. MainInv'
  BY <1>1 DEF MainInv
<1>9. /\ BufferOwnership' /\ RingNeverTruncates' /\ PayloadIntact' /\ UploadSize'
      /\ ProcessorInv' /\ WorkerInv'
  BY <1>1, <1>2, FrameUnreturned, FrameOwner, FrameRing, FrameIntact, FrameUpload,
     FrameProcessor, FrameWorker
<1> QED
  BY <1>6, <1>7, <1>8, <1>9

\* Every step of a receiver preserves the invariant.
LEMMA ReceiverStepInv ==
  ASSUME DaemonInv, NEW r \in Sender, Receiver(r)
  PROVE  DaemonInv'
BY PollGetInv, ReadDatagramInv, CountSegmentInv, CountOtherInv, ReadNothingInv, ReadErrorInv,
   PollReleaseInv, PollRejectInv, PollSendInv, PollDoneInv DEF Receiver

-----------------------------------------------------------------------------
(* Shutdown *)

\* Stop preserves the invariant.
LEMMA StopInv ==
  ASSUME DaemonInv, Stop
  PROVE  DaemonInv'
<1> USE DEF DaemonInv
<1>1. /\ sockOpen' = FALSE
      /\ UNCHANGED <<rpc, rbuf, arrived, dcount, mainVars,
                     poolVars, T, ringVars, batchVars, procVars, mem>>
  BY DEF Stop
<1>2. RecvTypeOK'
  BY <1>1 DEF TypeOK, RecvTypeOK
<1>3. TypeOK' /\ PoolConsistent'
  BY <1>1, <1>2, FrameType, FramePool DEF TypeOK
<1>4. /\ BufferOwnership' /\ RingNeverTruncates' /\ PayloadIntact' /\ UploadSize'
      /\ ReceiverInv' /\ ProcessorInv' /\ WorkerInv' /\ MainInv'
  BY <1>1, FrameUnreturned, FrameOwner, FrameRing, FrameIntact, FrameUpload,
     FrameReceiver, FrameProcessor, FrameWorker DEF MainInv
<1> QED
  BY <1>3, <1>4

\* Closing the ring buffer preserves the invariant.
LEMMA CloseStdInv ==
  ASSUME DaemonInv, CloseStd
  PROVE  DaemonInv'
<1> USE DEF DaemonInv
<1>1. /\ mpc' = "quit"
      /\ closed' = TRUE
      /\ panic' = (panic \/ closed)
      /\ UNCHANGED <<c, count, sendVars, dones, tpc, recvVars, poolVars, T,
                     batchVars, procVars, mem>>
  BY DEF CloseStd, Close
<1>2. panic' \in BOOLEAN
  BY <1>1 DEF TypeOK, RingTypeOK
<1>3. RingTypeOK' /\ MainTypeOK'
  BY <1>1, <1>2 DEF TypeOK, RingTypeOK, MainTypeOK
<1>4. TypeOK' /\ PoolConsistent'
  BY <1>1, <1>3, FrameType, FramePool DEF TypeOK
<1>5. ProcessorInv' /\ MainInv'
  BY <1>1 DEF ProcessorInv, MainInv
<1>6. /\ BufferOwnership' /\ RingNeverTruncates' /\ PayloadIntact' /\ UploadSize'
      /\ ReceiverInv' /\ WorkerInv'
  BY <1>1, FrameUnreturned, FrameOwner, FrameRing, FrameIntact, FrameUpload,
     FrameReceiver, FrameWorker
<1> QED
  BY <1>4, <1>5, <1>6

\* A step that only moves main and the telemetry goroutine.
LEMMA MoveMainInv ==
  ASSUME DaemonInv, MainTypeOK', MainInv',
         UNCHANGED <<recvVars, poolVars, T, ringVars, batchVars, procVars, mem>>
  PROVE  DaemonInv'
<1> USE DEF DaemonInv
<1>1. TypeOK' /\ PoolConsistent'
  BY FrameType, FramePool DEF TypeOK
<1>2. /\ BufferOwnership' /\ RingNeverTruncates' /\ PayloadIntact' /\ UploadSize'
      /\ ReceiverInv' /\ ProcessorInv' /\ WorkerInv'
  BY FrameUnreturned, FrameOwner, FrameRing, FrameIntact, FrameUpload,
     FrameReceiver, FrameProcessor, FrameWorker
<1> QED
  BY <1>1, <1>2

\* CloseQuit preserves the invariant.
LEMMA CloseQuitInv == ASSUME DaemonInv, CloseQuit PROVE DaemonInv'
<1>1. MainTypeOK' /\ MainInv'
  BY DEF CloseQuit, Cycle!TakeQuit, DaemonInv, TypeOK, MainTypeOK, MainInv
<1> QED
  BY <1>1, MoveMainInv DEF CloseQuit

\* WaitTelemetry preserves the invariant.
LEMMA WaitTelemetryInv == ASSUME DaemonInv, WaitTelemetry PROVE DaemonInv'
<1>1. MainTypeOK' /\ MainInv'
  BY DEF WaitTelemetry, Cycle!SendDone, DaemonInv, TypeOK, MainTypeOK, MainInv
<1> QED
  BY <1>1, MoveMainInv DEF WaitTelemetry

\* PushData preserves the invariant.
LEMMA PushDataInv == ASSUME DaemonInv, PushData PROVE DaemonInv'
<1>1. MainTypeOK' /\ MainInv'
  BY DEF PushData, Cycle!TimerPush, Cycle!PushEnds, DaemonInv, TypeOK, MainTypeOK, MainInv
<1> QED
  BY <1>1, MoveMainInv DEF PushData

\* WaitProcessor preserves the invariant.
LEMMA WaitProcessorInv ==
  ASSUME DaemonInv, WaitProcessor
  PROVE  DaemonInv'
<1> USE DEF DaemonInv
<1>1. /\ ppc = "done" /\ ppc' = "exit" /\ mpc' = "waitTel"
      /\ UNCHANGED <<dones, tpc, recvVars, poolVars, T, ringVars, batchVars,
                     batch, docs, idleTimer, Empty, processed, wdone, mem>>
  BY DEF WaitProcessor
<1>2. ProcTypeOK' /\ MainTypeOK'
  BY <1>1 DEF TypeOK, ProcTypeOK, MainTypeOK
<1>3. TypeOK' /\ PoolConsistent'
  BY <1>1, <1>2, FrameType, FramePool DEF TypeOK
<1>4. Unreturned' = Unreturned
  BY <1>1 DEF Unreturned, Returned
<1>5. ProcessorInv' /\ WorkerInv' /\ MainInv'
  BY <1>1 DEF ProcessorInv, WorkerInv, MainInv
<1>6. BufferOwnership' /\ RingNeverTruncates' /\ PayloadIntact' /\ UploadSize' /\ ReceiverInv'
  BY <1>1, <1>4, FrameOwner, FrameRing, FrameIntact, FrameUpload, FrameReceiver
<1> QED
  BY <1>3, <1>5, <1>6

-----------------------------------------------------------------------------
(* Upload workers *)

\* Every step of an upload worker preserves the invariant: batches move from the
\* queue to a worker and out.
LEMMA UploadStepInv ==
  ASSUME DaemonInv, NEW w \in Worker, UploadStep(w), UNCHANGED <<recvVars, mainVars>>
  PROVE  DaemonInv'
<1> USE DEF DaemonInv
<1>1. UNCHANGED <<procVars, mem, poolVars, ringVars>> /\ WorkerStep(w)
  BY DEF UploadStep
<1>2. TelemetryTypeOK' /\ UploadTypeOK' /\ UploadSize' /\ WorkerInv'
  <2>1. CASE PollReceive(w)
    <3>1. /\ wpc[w] = "idle"
          /\ batches # << >>
          /\ inflight' = [inflight EXCEPT ![w] = Head(batches)]
          /\ batches' = Tail(batches)
          /\ wpc' = [wpc EXCEPT ![w] = "sending"]
          /\ UNCHANGED <<batchesClosed, failed, serviceRejected, T>>
      BY <2>1 DEF PollReceive
    <3>2. /\ batches \in Seq(Seq(Payload))
          /\ Len(batches) \in Nat \ {0}
          /\ Head(batches) = batches[1]
          /\ 1 \in DOMAIN batches
          /\ batches[1] \in Seq(Payload)
          /\ batches' \in Seq(Seq(Payload))
          /\ DOMAIN batches' = 1 .. Len(batches) - 1
          /\ \A i \in 1 .. Len(batches) - 1 : batches'[i] = batches[i + 1] /\ i + 1 \in DOMAIN batches
      BY <3>1 DEF TypeOK, UploadTypeOK
    <3>3. UploadTypeOK' /\ TelemetryTypeOK'
      BY <3>1, <3>2, FrameType DEF TypeOK, UploadTypeOK
    <3>4. UploadSize'
      BY <3>1, <3>2 DEF UploadSize, TypeOK, UploadTypeOK
    <3>5. {v \in Worker : wpc'[v] = "exit"} = {v \in Worker : wpc[v] = "exit"}
      BY <3>1 DEF TypeOK, UploadTypeOK
    <3>6. WorkerInv'
      BY <1>1, <3>1, <3>5 DEF WorkerInv, TypeOK, UploadTypeOK
    <3> QED
      BY <3>3, <3>4, <3>6
  <2>2. CASE PollError(w)
    <3>1. /\ wpc[w] = "sending"
          /\ failed' = failed + Len(inflight[w])
          /\ inflight' = [inflight EXCEPT ![w] = << >>]
          /\ wpc' = [wpc EXCEPT ![w] = "idle"]
          /\ UNCHANGED <<batches, batchesClosed, serviceRejected, T>>
      BY <2>2 DEF PollError
    <3>2. inflight[w] \in Seq(Payload)
      BY DEF TypeOK, UploadTypeOK
    <3>3. UploadTypeOK' /\ TelemetryTypeOK'
      BY <3>1, <3>2, FrameType DEF TypeOK, UploadTypeOK
    <3>4. UploadSize'
      BY <3>1 DEF UploadSize, TypeOK, UploadTypeOK
    <3>5. {v \in Worker : wpc'[v] = "exit"} = {v \in Worker : wpc[v] = "exit"}
      BY <3>1 DEF TypeOK, UploadTypeOK
    <3>6. WorkerInv'
      BY <1>1, <3>1, <3>5 DEF WorkerInv, TypeOK, UploadTypeOK
    <3> QED
      BY <3>3, <3>4, <3>6
  <2>3. ASSUME NEW resp \in Responses, PollSuccess(w, resp)
        PROVE  TelemetryTypeOK' /\ UploadTypeOK' /\ UploadSize' /\ WorkerInv'
    <3>1. /\ wpc[w] = "sending"
          /\ T' = [T EXCEPT !["sent"] = @ + Len(inflight[w]),
                            !["rejected"] = @ + RejectedCount(resp)]
          /\ serviceRejected' = serviceRejected + RejectedCount(resp)
          /\ inflight' = [inflight EXCEPT ![w] = << >>]
          /\ wpc' = [wpc EXCEPT ![w] = "idle"]
          /\ UNCHANGED <<batches, batchesClosed, failed>>
      BY <2>3 DEF PollSuccess
    <3>2. inflight[w] \in Seq(Payload) /\ Len(inflight[w]) \in Nat
      BY DEF TypeOK, UploadTypeOK
    <3>3. RejectedCount(resp) \in Nat
      <4>1. IsFiniteSet(DOMAIN resp)
        <5>1. resp \in Seq({"id", "nil"})
          BY ResponsesAssumption
        <5>2. DOMAIN resp = 1 .. Len(resp) /\ Len(resp) \in Int /\ 1 \in Int
          BY <5>1
        <5> QED
          BY <5>2, FS_Interval
      <4> QED
        BY <4>1, FS_Subset, FS_CardinalityType DEF RejectedCount
    <3>4. UploadTypeOK'
      BY <3>1, <3>3 DEF TypeOK, UploadTypeOK
    <3>5. TelemetryTypeOK'
      BY <3>1, <3>2, <3>3 DEF TypeOK, TelemetryTypeOK, CounterNames
    <3>6. UploadSize'
      BY <3>1 DEF UploadSize, TypeOK, UploadTypeOK
    <3>7. {v \in Worker : wpc'[v] = "exit"} = {v \in Worker : wpc[v] = "exit"}
      BY <3>1 DEF TypeOK, UploadTypeOK
    <3>8. WorkerInv'
      BY <1>1, <3>1, <3>7 DEF WorkerInv, TypeOK, UploadTypeOK
    <3> QED
      BY <3>4, <3>5, <3>6, <3>8
  <2>4. CASE PollClosed(w)
    <3>1. /\ wpc[w] = "idle"
          /\ batchesClosed
          /\ batches = << >>
          /\ wpc' = [wpc EXCEPT ![w] = "done"]
          /\ UNCHANGED <<batches, batchesClosed, inflight, failed, serviceRejected, T>>
      BY <2>4 DEF PollClosed
    <3>2. UploadTypeOK' /\ TelemetryTypeOK'
      BY <3>1, FrameType DEF TypeOK, UploadTypeOK
    <3>3. UploadSize'
      BY <3>1 DEF UploadSize, TypeOK, UploadTypeOK
    <3>4. {v \in Worker : wpc'[v] = "exit"} = {v \in Worker : wpc[v] = "exit"}
      BY <3>1 DEF TypeOK, UploadTypeOK
    <3>5. WorkerInv'
      BY <1>1, <3>1, <3>4 DEF WorkerInv, TypeOK, UploadTypeOK
    <3> QED
      BY <3>2, <3>3, <3>5
  <2> QED
    BY <1>1, <2>1, <2>2, <2>3, <2>4 DEF WorkerStep
<1>3. TypeOK' /\ PoolConsistent'
  BY <1>1, <1>2, FrameType, FramePool DEF TypeOK
<1>4. /\ BufferOwnership' /\ RingNeverTruncates' /\ PayloadIntact'
      /\ ReceiverInv' /\ ProcessorInv' /\ MainInv'
  BY <1>1, FrameUnreturned, FrameOwner, FrameRing, FrameIntact, FrameReceiver,
     FrameProcessor DEF MainInv
<1> QED
  BY <1>2, <1>3, <1>4

-----------------------------------------------------------------------------
(* Processor *)

\* Before sendBatchAsync has returned a buffer, the processor holds the buffers
\* of the whole batch.
LEMMA BatchWhole ==
  ASSUME ProcTypeOK, docs = << >>, ppc # "return"
  PROVE  InBatch = Bufs(batch) /\ (BatchDistinct <=> Distinct(batch))
<1>1. Returned = 0
  BY DEF Returned
<1>2. batch \in Seq(TraceSegment) /\ DOMAIN batch = 1 .. Len(batch)
  BY DEF ProcTypeOK
<1>3. Unreturned = DOMAIN batch
  BY <1>1, <1>2 DEF Unreturned
<1> QED
  BY <1>3 DEF InBatch, Bufs, BatchDistinct, Distinct

\* The same after a step.
LEMMA BatchWholeNext ==
  ASSUME ProcTypeOK', docs' = << >>, ppc' # "return"
  PROVE  InBatch' = Bufs(batch') /\ (BatchDistinct' <=> Distinct(batch'))
<1>1. Returned' = 0
  BY DEF Returned
<1>2. batch' \in Seq(TraceSegment) /\ DOMAIN batch' = 1 .. Len(batch')
  BY DEF ProcTypeOK
<1>3. Unreturned' = DOMAIN batch'
  BY <1>1, <1>2 DEF Unreturned
<1> QED
  BY <1>3 DEF InBatch, Bufs, BatchDistinct, Distinct

\* receiveTraceSegment preserves the invariant: the buffer moves from the ring to
\* the batch with its payload.
LEMMA receiveTraceSegmentInv ==
  ASSUME DaemonInv, receiveTraceSegment, UNCHANGED <<recvVars, mainVars>>
  PROVE  DaemonInv'
<1> USE DEF DaemonInv
<1> DEFINE h == Head(c)
<1>1. /\ ppc = "select"
      /\ c # << >>
      /\ c' = Tail(c)
      /\ batch' = Append(batch, h)
      /\ processed' = processed + 1
      /\ ppc' \in {"copy", "check"}
      /\ ppc' = "check" => ~(Len(batch) + 1 >= batchSize)
      /\ UNCHANGED <<closed, count, sendVars, panic, docs, idleTimer, Empty, wdone, mem,
                     poolVars, T, batchVars>>
  BY DEF receiveTraceSegment, Receive
<1>2. docs = << >> /\ Len(batch) < batchSize /\ ~Empty
  BY <1>1 DEF ProcessorInv
<1>3. c \in Seq(TraceSegment) /\ batch \in Seq(TraceSegment) /\ Len(batch) \in Nat
  BY DEF TypeOK, RingTypeOK, ProcTypeOK
<1>4. /\ c' \in Seq(TraceSegment)
      /\ h \in TraceSegment
      /\ h.PoolBuf \in Bufs(c)
      /\ Bufs(c') = Bufs(c) \ {h.PoolBuf}
      /\ Distinct(c')
  BY <1>1, <1>3, TailBufs, OwnershipParts
<1>5. InBatch = Bufs(batch) /\ Distinct(batch)
  BY <1>1, <1>2, BatchWhole, OwnershipParts DEF TypeOK
<1>6. h.PoolBuf \in InRing /\ h.PoolBuf \notin Bufs(batch)
  BY <1>4, <1>5, OwnershipParts DEF Apart, InRing, Bufs
<1>7. /\ batch' \in Seq(TraceSegment)
      /\ Bufs(batch') = Bufs(batch) \cup {h.PoolBuf}
      /\ Distinct(batch')
  BY <1>1, <1>3, <1>4, <1>5, <1>6, AppendBufs
<1>8. ProcTypeOK' /\ RingTypeOK'
  BY <1>1, <1>4, <1>7 DEF TypeOK, ProcTypeOK, RingTypeOK
<1>9. TypeOK' /\ PoolConsistent'
  BY <1>1, <1>8, FrameType, FramePool DEF TypeOK
<1>10. BufferOwnership'
  <2>1. InBatch' = InBatch \cup {h.PoolBuf} /\ BatchDistinct'
    BY <1>1, <1>2, <1>5, <1>7, <1>8, BatchWholeNext
  <2>2. InRing' = InRing \ {h.PoolBuf} /\ Distinct(c)'
    BY <1>4 DEF InRing, Bufs, Distinct
  <2>3. InPool' = InPool /\ InHands' = InHands /\ HandsDistinct'
    BY <1>1, FramePoolBufs, FrameHands, OwnershipParts
  <2>4. Apart'
    BY <1>6, <2>1, <2>2, <2>3, OwnershipParts DEF Apart
  <2>5. InPool' \cup InRing' \cup InBatch' \cup InHands' = Buffer
    BY <1>6, <2>1, <2>2, <2>3, OwnershipParts
  <2> QED
    BY <1>9, <2>1, <2>2, <2>3, <2>4, <2>5, OwnershipNext
<1>11. PayloadIntact'
  <2>1. /\ Len(c) \in Nat \ {0}
        /\ DOMAIN c = 1 .. Len(c)
        /\ DOMAIN c' = 1 .. Len(c) - 1
        /\ h = c[1]
        /\ \A i \in 1 .. Len(c) - 1 : c'[i] = c[i + 1]
    BY <1>1, <1>3
  <2>2. \A i \in DOMAIN c' : mem[c'[i].PoolBuf] = c'[i].Raw
    BY <2>1 DEF PayloadIntact
  <2>3. /\ DOMAIN batch = 1 .. Len(batch)
        /\ DOMAIN batch' = 1 .. Len(batch) + 1
        /\ \A i \in 1 .. Len(batch) : batch'[i] = batch[i]
        /\ batch'[Len(batch) + 1] = h
    BY <1>1, <1>3, <1>4
  <2>4. mem[h.PoolBuf] = h.Raw
    BY <2>1 DEF PayloadIntact
  <2>5. \A i \in DOMAIN batch : mem[batch[i].PoolBuf] = batch[i].Raw
    BY <1>2, <2>3 DEF PayloadIntact
  <2>6. \A i \in DOMAIN batch' : mem[batch'[i].PoolBuf] = batch'[i].Raw /\ ~(i <= Len(docs))
    BY <1>2, <1>3, <2>3, <2>4, <2>5
  <2> QED
    BY <1>1, <2>2, <2>6 DEF PayloadIntact
<1>12. ProcessorInv'
  BY <1>1, <1>2, <1>3, <1>4, batchSizeAssumption DEF ProcessorInv
<1>13. WorkerInv' /\ MainInv'
  BY <1>1 DEF WorkerInv, MainInv
<1>14. RingNeverTruncates' /\ UploadSize' /\ ReceiverInv'
  BY <1>1, FrameRing, FrameUpload, FrameReceiver
<1> QED
  BY <1>9, <1>10, <1>11, <1>12, <1>13, <1>14

\* A step that moves the processor to a place where it holds the same buffers.
LEMMA MoveProcessorInv ==
  ASSUME DaemonInv, ProcTypeOK', ppc \in {"select", "check"}, ppc' # "return",
         ProcessorInv', WorkerInv', MainInv',
         UNCHANGED <<batch, docs, mem, poolVars, T, ringVars, batchVars, recvVars, mainVars>>
  PROVE  DaemonInv'
<1> USE DEF DaemonInv
<1>1. TypeOK' /\ PoolConsistent'
  BY FrameType, FramePool DEF TypeOK
<1>2. Unreturned' = Unreturned
  BY DEF Unreturned, Returned
<1>3. BufferOwnership' /\ RingNeverTruncates' /\ PayloadIntact' /\ UploadSize' /\ ReceiverInv'
  BY <1>2, FrameOwner, FrameRing, FrameIntact, FrameUpload, FrameReceiver
<1> QED
  BY <1>1, <1>3

\* "check" comes after a segment was added.
LEMMA CheckPoolInv ==
  ASSUME DaemonInv, CheckPool, UNCHANGED <<recvVars, mainVars>>
  PROVE  DaemonInv'
<1> USE DEF DaemonInv
<1>1. /\ ppc = "check" /\ ppc' \in {"copy", "select"}
      /\ UNCHANGED <<batch, docs, idleTimer, Empty, processed, wdone, mem,
                     poolVars, T, ringVars, batchVars>>
  BY DEF CheckPool
<1>2. ProcTypeOK'
  BY <1>1 DEF TypeOK, ProcTypeOK
<1>3. batch # << >>
  BY <1>1 DEF ProcessorInv
<1>4. Len(batch) \in Nat /\ Len(batch) > 0 /\ docs = << >>
  BY <1>1, <1>3 DEF TypeOK, ProcTypeOK, ProcessorInv
<1>5. ProcessorInv' /\ WorkerInv' /\ MainInv'
  BY <1>1, <1>4 DEF ProcessorInv, WorkerInv, MainInv
<1> QED
  BY <1>1, <1>2, <1>5, MoveProcessorInv

\* ChannelClosed preserves the invariant: the closed channel is empty.
LEMMA ChannelClosedInv ==
  ASSUME DaemonInv, ChannelClosed, UNCHANGED <<recvVars, mainVars>>
  PROVE  DaemonInv'
<1> USE DEF DaemonInv
<1>1. /\ ppc = "select" /\ closed /\ c = << >> /\ Empty' = TRUE
      /\ ppc' = IF batch # << >> THEN "copy" ELSE "close"
      /\ UNCHANGED <<ringVars, batch, docs, idleTimer, processed, wdone, mem, poolVars, T, batchVars>>
  BY DEF ChannelClosed, ReceiveClosed
<1>2. ProcTypeOK'
  BY <1>1 DEF TypeOK, ProcTypeOK
<1>3. Len(batch) \in Nat /\ (batch # << >> => Len(batch) > 0) /\ docs = << >>
  BY <1>1 DEF TypeOK, ProcTypeOK, ProcessorInv
<1>4. ProcessorInv'
  BY <1>1, <1>3 DEF ProcessorInv
<1>5. WorkerInv' /\ MainInv'
  BY <1>1 DEF WorkerInv, MainInv
<1> QED
  BY <1>1, <1>2, <1>4, <1>5, MoveProcessorInv

\* IdlePartial preserves the invariant: the batch is not empty.
LEMMA IdlePartialInv ==
  ASSUME DaemonInv, IdlePartial, UNCHANGED <<recvVars, mainVars>>
  PROVE  DaemonInv'
<1> USE DEF DaemonInv
<1>1. /\ ppc = "select" /\ batch # << >> /\ idleTimer' = "spent" /\ ppc' = "copy"
      /\ UNCHANGED <<batch, docs, Empty, processed, wdone, mem, poolVars, T, ringVars, batchVars>>
  BY DEF IdlePartial
<1>2. ProcTypeOK'
  BY <1>1 DEF TypeOK, ProcTypeOK
<1>3. Len(batch) \in Nat /\ Len(batch) > 0 /\ docs = << >>
  BY <1>1 DEF TypeOK, ProcTypeOK, ProcessorInv
<1>4. ProcessorInv' /\ WorkerInv' /\ MainInv'
  BY <1>1, <1>3 DEF ProcessorInv, WorkerInv, MainInv
<1> QED
  BY <1>1, <1>2, <1>4, MoveProcessorInv

\* IdleEmpty preserves the invariant.
LEMMA IdleEmptyInv ==
  ASSUME DaemonInv, IdleEmpty, UNCHANGED <<recvVars, mainVars>>
  PROVE  DaemonInv'
<1> USE DEF DaemonInv
<1>1. /\ ppc = "select" /\ idleTimer' = "armed"
      /\ UNCHANGED <<ppc, batch, docs, Empty, processed, wdone, mem, poolVars, T, ringVars, batchVars>>
  BY DEF IdleEmpty, SetIdleTimer
<1>2. ProcTypeOK'
  BY <1>1 DEF TypeOK, ProcTypeOK
<1>3. ProcessorInv' /\ WorkerInv' /\ MainInv'
  BY <1>1, FrameProcessor, FrameWorker DEF MainInv
<1> QED
  BY <1>1, <1>2, <1>3, MoveProcessorInv

\* The document copied is the payload of its segment.
LEMMA CopySegmentInv ==
  ASSUME DaemonInv, CopySegment, UNCHANGED <<recvVars, mainVars>>
  PROVE  DaemonInv'
<1> USE DEF DaemonInv
<1> DEFINE k == Len(docs) + 1
<1>1. /\ ppc = "copy" /\ ppc' = "return"
      /\ docs' = Append(docs, mem[batch[k].PoolBuf])
      /\ UNCHANGED <<batch, idleTimer, Empty, processed, wdone, mem,
                     poolVars, T, ringVars, batchVars>>
  BY DEF CopySegment
<1>2. /\ batch \in Seq(TraceSegment) /\ docs \in Seq(Payload)
      /\ Len(batch) \in Nat /\ Len(docs) \in Nat
      /\ DOMAIN batch = 1 .. Len(batch)
  BY DEF TypeOK, ProcTypeOK
<1>3. k \in DOMAIN batch
  BY <1>1, <1>2 DEF ProcessorInv
<1>4. mem[batch[k].PoolBuf] = batch[k].Raw /\ batch[k].Raw \in Payload
  BY <1>2, <1>3, ElementOfSegments DEF PayloadIntact
<1>5. /\ docs' \in Seq(Payload) /\ Len(docs') = k
      /\ \A i \in 1 .. Len(docs) : docs'[i] = docs[i]
      /\ docs'[k] = batch[k].Raw
  BY <1>1, <1>2, <1>4
<1>6. ProcTypeOK'
  BY <1>1, <1>5 DEF TypeOK, ProcTypeOK
<1>7. TypeOK' /\ PoolConsistent'
  BY <1>1, <1>6, FrameType, FramePool DEF TypeOK
<1>8. Unreturned' = Unreturned
  <2>1. Returned = Len(docs) /\ Returned' = Len(docs)
    BY <1>1, <1>2, <1>5 DEF Returned
  <2> QED
    BY <1>1, <2>1 DEF Unreturned
<1>9. PayloadIntact'
  <2>1. ASSUME NEW i \in DOMAIN batch
        PROVE  IF i <= Len(docs') THEN docs'[i] = batch[i].Raw
                                  ELSE mem[batch[i].PoolBuf] = batch[i].Raw
    <3>1. CASE i <= Len(docs)
      BY <1>2, <1>5, <3>1 DEF PayloadIntact
    <3>2. CASE i = k
      BY <1>2, <1>5, <3>2
    <3>3. CASE i > k
      BY <1>2, <1>5, <3>3 DEF PayloadIntact
    <3> QED
      BY <1>2, <3>1, <3>2, <3>3
  <2> QED
    BY <1>1, <2>1 DEF PayloadIntact
<1>10. ProcessorInv'
  BY <1>1, <1>2, <1>3, <1>5 DEF ProcessorInv
<1>11. WorkerInv' /\ MainInv'
  BY <1>1 DEF WorkerInv, MainInv
<1>12. BufferOwnership' /\ RingNeverTruncates' /\ UploadSize' /\ ReceiverInv'
  BY <1>1, <1>8, FrameOwner, FrameRing, FrameUpload, FrameReceiver
<1> QED
  BY <1>7, <1>9, <1>10, <1>11, <1>12

\* ReturnBuffer preserves the invariant: the buffer of a copied payload moves to
\* the pool, which has room for it.
LEMMA ReturnBufferInv ==
  ASSUME DaemonInv, ReturnBuffer, UNCHANGED <<recvVars, mainVars>>
  PROVE  DaemonInv'
<1> USE DEF DaemonInv
<1> DEFINE k == Len(docs)
           b == batch[k].PoolBuf
<1>1. /\ ppc = "return"
      /\ Return(b)
      /\ ppc' = IF k < Len(batch) THEN "copy" ELSE "send"
      /\ UNCHANGED <<batch, docs, idleTimer, Empty, processed, wdone, mem, T, ringVars, batchVars>>
  BY DEF ReturnBuffer
<1>2. /\ batch \in Seq(TraceSegment) /\ docs \in Seq(Payload)
      /\ Len(batch) \in Nat /\ k \in Nat
      /\ DOMAIN batch = 1 .. Len(batch)
      /\ k \in 1 .. Len(batch)
  BY <1>1 DEF TypeOK, ProcTypeOK, ProcessorInv
<1>3. b \in Buffer
  BY <1>2, ElementOfSegments
<1>4. k \in Unreturned /\ Unreturned' = Unreturned \ {k}
  <2>1. Returned = k - 1 /\ Returned' = k
    BY <1>1 DEF Returned
  <2> QED
    BY <1>1, <1>2, <2>1 DEF Unreturned
<1>5. b \in InBatch
  BY <1>4 DEF InBatch
<1>6. InBatch' = InBatch \ {b} /\ BatchDistinct'
  <2>1. BatchDistinct
    BY OwnershipParts
  <2> QED
    BY <1>1, <1>4, <2>1 DEF InBatch, BatchDistinct
<1>7. b \notin InPool /\ InPool \subseteq Buffer
  BY <1>5, OwnershipParts DEF Apart
<1>8. PoolTypeOK' /\ PoolConsistent'
  BY <1>1, <1>3, ReturnConsistent DEF TypeOK
<1>9. InPool' = InPool \cup {b}
  BY <1>1, <1>3, <1>7, ReturnEffect DEF TypeOK
<1>10. InRing' = InRing /\ InHands' = InHands /\ Distinct(c)' /\ HandsDistinct'
  BY <1>1, FrameRingBufs, FrameHands, OwnershipParts
<1>11. BufferOwnership'
  <2>1. Apart'
    BY <1>5, <1>6, <1>9, <1>10, OwnershipParts DEF Apart
  <2>2. InPool' \cup InRing' \cup InBatch' \cup InHands' = Buffer
    BY <1>5, <1>6, <1>9, <1>10, OwnershipParts
  <2> QED
    BY <1>6, <1>8, <1>10, <2>1, <2>2, OwnershipNext
<1>12. ProcTypeOK'
  BY <1>1 DEF TypeOK, ProcTypeOK
<1>13. TypeOK'
  BY <1>1, <1>8, <1>12, FrameType DEF TypeOK
<1>14. ProcessorInv'
  BY <1>1, <1>2 DEF ProcessorInv
<1>15. WorkerInv' /\ MainInv'
  BY <1>1 DEF WorkerInv, MainInv
<1>16. RingNeverTruncates' /\ PayloadIntact' /\ UploadSize' /\ ReceiverInv'
  BY <1>1, FrameRing, FrameIntact, FrameUpload, FrameReceiver
<1> QED
  BY <1>8, <1>11, <1>13, <1>14, <1>15, <1>16

\* SendBatch preserves the invariant: the documents of a whole batch are queued.
LEMMA SendBatchInv ==
  ASSUME DaemonInv, SendBatch, UNCHANGED <<recvVars, mainVars>>
  PROVE  DaemonInv'
<1> USE DEF DaemonInv
<1>1. /\ ppc = "send"
      /\ batches' = Append(batches, docs)
      /\ idleTimer' = "armed" /\ batch' = << >> /\ docs' = << >>
      /\ ppc' = IF Empty THEN "close" ELSE "select"
      /\ UNCHANGED <<batchesClosed, wpc, inflight, failed, serviceRejected, T,
                     Empty, processed, wdone, mem, poolVars, ringVars>>
  BY DEF SendBatch, BatchEnqueue, SetIdleTimer
<1>2. /\ docs \in Seq(Payload) /\ batch \in Seq(TraceSegment) /\ batches \in Seq(Seq(Payload))
      /\ Len(docs) = Len(batch) /\ docs # << >> /\ Len(batch) <= batchSize
      /\ ~batchesClosed
  BY <1>1 DEF TypeOK, ProcTypeOK, UploadTypeOK, ProcessorInv, WorkerInv
<1>3. /\ batches' \in Seq(Seq(Payload))
      /\ Len(batches) \in Nat
      /\ DOMAIN batches = 1 .. Len(batches)
      /\ DOMAIN batches' = 1 .. Len(batches) + 1
      /\ \A i \in 1 .. Len(batches) : batches'[i] = batches[i]
      /\ batches'[Len(batches) + 1] = docs
  BY <1>1, <1>2
<1>4. ProcTypeOK' /\ UploadTypeOK'
  BY <1>1, <1>3 DEF TypeOK, ProcTypeOK, UploadTypeOK
<1>5. TypeOK' /\ PoolConsistent'
  BY <1>1, <1>4, FrameType, FramePool DEF TypeOK
<1>6. Unreturned = {} /\ Unreturned' = {}
  BY <1>1, <1>2 DEF Unreturned, Returned
<1>7. BufferOwnership'
  <2>1. InBatch = {} /\ InBatch' = {} /\ BatchDistinct'
    BY <1>6 DEF InBatch, BatchDistinct
  <2>2. /\ InPool' = InPool /\ InRing' = InRing /\ InHands' = InHands
        /\ Distinct(c)' /\ HandsDistinct'
    BY <1>1, FramePoolBufs, FrameRingBufs, FrameHands, OwnershipParts
  <2>3. Apart' /\ InPool' \cup InRing' \cup InBatch' \cup InHands' = Buffer
    BY <2>1, <2>2, OwnershipParts DEF Apart
  <2> QED
    BY <1>5, <2>1, <2>2, <2>3, OwnershipNext
<1>8. PayloadIntact'
  BY <1>1 DEF PayloadIntact
<1>9. UploadSize'
  <2>1. Len(docs) \in 1 .. batchSize
    BY <1>2, batchSizeAssumption
  <2> QED
    BY <1>1, <1>3, <2>1 DEF UploadSize
<1>10. ProcessorInv'
  BY <1>1, batchSizeAssumption DEF ProcessorInv
<1>11. WorkerInv' /\ MainInv'
  BY <1>1, <1>2 DEF WorkerInv, MainInv
<1>12. RingNeverTruncates' /\ ReceiverInv'
  BY <1>1, FrameRing, FrameReceiver
<1> QED
  BY <1>5, <1>7, <1>8, <1>9, <1>10, <1>11, <1>12

\* QueueFull preserves the invariant.
LEMMA QueueFullInv ==
  ASSUME DaemonInv, QueueFull, UNCHANGED <<recvVars, mainVars>>
  PROVE  DaemonInv'
<1> USE DEF DaemonInv
<1>1. /\ ppc = "send" /\ ppc' = "full"
      /\ UNCHANGED <<batchVars, T, batch, docs, idleTimer, Empty, processed, wdone, mem,
                     poolVars, ringVars>>
  BY DEF QueueFull, BatchFull
<1>2. ProcTypeOK'
  BY <1>1 DEF TypeOK, ProcTypeOK
<1>3. TypeOK' /\ PoolConsistent'
  BY <1>1, <1>2, FrameType, FramePool DEF TypeOK
<1>4. Unreturned' = Unreturned
  BY <1>1 DEF Unreturned, Returned
<1>5. ProcessorInv' /\ WorkerInv' /\ MainInv'
  BY <1>1 DEF ProcessorInv, WorkerInv, MainInv
<1>6. BufferOwnership' /\ RingNeverTruncates' /\ PayloadIntact' /\ UploadSize' /\ ReceiverInv'
  BY <1>1, <1>4, FrameOwner, FrameRing, FrameIntact, FrameUpload, FrameReceiver
<1> QED
  BY <1>3, <1>5, <1>6

\* TruncateOldest preserves the invariant.
LEMMA TruncateOldestInv ==
  ASSUME DaemonInv, TruncateOldest, UNCHANGED <<recvVars, mainVars>>
  PROVE  DaemonInv'
<1> USE DEF DaemonInv
<1>1. /\ ppc = "full" /\ ppc' = "send"
      /\ UNCHANGED <<batchesClosed, wpc, inflight, failed, serviceRejected,
                     batch, docs, idleTimer, Empty, processed, wdone, mem, poolVars, ringVars>>
  BY DEF TruncateOldest, BatchTruncate, BatchDequeued
<1>2. batches \in Seq(Seq(Payload)) /\ ~batchesClosed
  BY <1>1 DEF TypeOK, UploadTypeOK, WorkerInv
<1>3. /\ batches' \in Seq(Seq(Payload))
      /\ \A i \in DOMAIN batches' : \E j \in DOMAIN batches : batches'[i] = batches[j]
      /\ TelemetryTypeOK'
  <2>1. CASE BatchTruncate
    <3>1. /\ batches # << >> /\ batches' = Tail(batches)
          /\ T' = [T EXCEPT !["spillover"] = @ + Len(Head(batches))]
      BY <2>1 DEF BatchTruncate, SegmentSpillover, Counted
    <3>2. /\ Head(batches) \in Seq(Payload) /\ Len(Head(batches)) \in Nat
          /\ batches' \in Seq(Seq(Payload))
          /\ \A i \in DOMAIN batches' : i + 1 \in DOMAIN batches /\ batches'[i] = batches[i + 1]
      BY <1>2, <3>1
    <3>3. TelemetryTypeOK'
      BY <3>1, <3>2 DEF TypeOK, TelemetryTypeOK, CounterNames
    <3> QED
      BY <3>2, <3>3
  <2>2. CASE BatchDequeued
    BY <1>2, <2>2, FrameType DEF BatchDequeued, TypeOK
  <2> QED
    BY <2>1, <2>2 DEF TruncateOldest
<1>4. ProcTypeOK' /\ UploadTypeOK'
  BY <1>1, <1>3 DEF TypeOK, ProcTypeOK, UploadTypeOK
<1>5. TypeOK' /\ PoolConsistent'
  BY <1>1, <1>3, <1>4, FrameType, FramePool DEF TypeOK
<1>6. Unreturned' = Unreturned
  BY <1>1 DEF Unreturned, Returned
<1>7. UploadSize'
  BY <1>1, <1>3 DEF UploadSize
<1>8. ProcessorInv' /\ WorkerInv' /\ MainInv'
  BY <1>1, <1>2 DEF ProcessorInv, WorkerInv, MainInv
<1>9. BufferOwnership' /\ RingNeverTruncates' /\ PayloadIntact' /\ ReceiverInv'
  BY <1>1, <1>6, FrameOwner, FrameRing, FrameIntact, FrameReceiver
<1> QED
  BY <1>5, <1>7, <1>8, <1>9

\* CloseBatches preserves the invariant: no worker has left yet.
LEMMA CloseBatchesInv ==
  ASSUME DaemonInv, CloseBatches, UNCHANGED <<recvVars, mainVars>>
  PROVE  DaemonInv'
<1> USE DEF DaemonInv
<1>1. /\ ppc = "close" /\ ppc' = "wait" /\ batchesClosed' = TRUE
      /\ UNCHANGED <<batches, wpc, inflight, failed, serviceRejected, T,
                     batch, docs, idleTimer, Empty, processed, wdone, mem, poolVars, ringVars>>
  BY DEF CloseBatches, BatchClose
<1>2. ProcTypeOK' /\ UploadTypeOK'
  BY <1>1 DEF TypeOK, ProcTypeOK, UploadTypeOK
<1>3. TypeOK' /\ PoolConsistent'
  BY <1>1, <1>2, FrameType, FramePool DEF TypeOK
<1>4. Unreturned' = Unreturned
  BY <1>1 DEF Unreturned, Returned
<1>5. ProcessorInv' /\ WorkerInv' /\ MainInv'
  BY <1>1 DEF ProcessorInv, WorkerInv, MainInv
<1>6. BufferOwnership' /\ RingNeverTruncates' /\ PayloadIntact' /\ UploadSize' /\ ReceiverInv'
  BY <1>1, <1>4, FrameOwner, FrameRing, FrameIntact, FrameUpload, FrameReceiver
<1> QED
  BY <1>3, <1>5, <1>6

\* The answers counted in wdone come from as many different workers, so the
\* last one means that every worker has returned.
LEMMA WaitWorkerInv ==
  ASSUME DaemonInv, NEW w \in Worker, WaitWorker(w), UNCHANGED <<recvVars, mainVars>>
  PROVE  DaemonInv'
<1> USE DEF DaemonInv
<1> DEFINE Exited == {v \in Worker : wpc[v] = "exit"}
<1>1. /\ ppc = "wait"
      /\ wpc[w] = "done"
      /\ wpc' = [wpc EXCEPT ![w] = "exit"]
      /\ wdone' = wdone + 1
      /\ ppc' = IF wdone + 1 = Cardinality(Worker) THEN "done" ELSE "wait"
      /\ UNCHANGED <<batches, batchesClosed, inflight, failed, serviceRejected,
                     batch, docs, idleTimer, Empty, processed, mem, poolVars, T, ringVars>>
  BY DEF WaitWorker, WorkerDone
<1>2. ProcTypeOK' /\ UploadTypeOK'
  BY <1>1 DEF TypeOK, ProcTypeOK, UploadTypeOK
<1>3. TypeOK' /\ PoolConsistent'
  BY <1>1, <1>2, FrameType, FramePool DEF TypeOK
<1>4. Unreturned' = Unreturned
  BY <1>1 DEF Unreturned, Returned
<1>5. {v \in Worker : wpc'[v] = "exit"} = Exited \cup {w} /\ w \notin Exited
  BY <1>1 DEF TypeOK, UploadTypeOK
<1>6. IsFiniteSet(Exited)
  BY WorkerAssumption, FS_Subset
<1>7. IsFiniteSet(Exited \cup {w}) /\ Cardinality(Exited \cup {w}) = Cardinality(Exited) + 1
  BY <1>5, <1>6, FS_AddElement
<1>8. wdone' = Cardinality(Exited \cup {w})
  BY <1>1, <1>7 DEF WorkerInv
<1>9. ASSUME ppc' = "done" PROVE \A v \in Worker : wpc'[v] = "exit"
  <2>1. Cardinality(Exited \cup {w}) = Cardinality(Worker)
    BY <1>1, <1>8, <1>9
  <2>2. Exited \cup {w} = Worker
    BY <1>7, <2>1, WorkerAssumption, FS_Subset
  <2> QED
    BY <1>5, <2>2
<1>10. WorkerInv'
  <2>1. batchesClosed /\ batches = << >>
    BY <1>1 DEF WorkerInv
  <2>2. \A v \in Worker : wpc'[v] # "sending" => inflight'[v] = << >>
    BY <1>1 DEF WorkerInv, TypeOK, UploadTypeOK
  <2>3. wdone' = Cardinality({v \in Worker : wpc'[v] = "exit"})
    BY <1>5, <1>8
  <2> QED
    BY <1>1, <1>9, <2>1, <2>2, <2>3 DEF WorkerInv
<1>11. UploadSize'
  BY <1>1 DEF UploadSize, TypeOK, UploadTypeOK
<1>12. ProcessorInv' /\ MainInv'
  BY <1>1 DEF ProcessorInv, MainInv
<1>13. BufferOwnership' /\ RingNeverTruncates' /\ PayloadIntact' /\ ReceiverInv'
  BY <1>1, <1>4, FrameOwner, FrameRing, FrameIntact, FrameReceiver
<1> QED
  BY <1>3, <1>10, <1>11, <1>12, <1>13

\* Every step of the processor preserves the invariant.
LEMMA ProcStepInv ==
  ASSUME DaemonInv, ProcStep, UNCHANGED <<recvVars, mainVars>>
  PROVE  DaemonInv'
BY receiveTraceSegmentInv, CheckPoolInv, ChannelClosedInv, IdlePartialInv, IdleEmptyInv,
   CopySegmentInv, ReturnBufferInv, SendBatchInv, QueueFullInv, TruncateOldestInv,
   CloseBatchesInv, WaitWorkerInv DEF ProcStep

-----------------------------------------------------------------------------
(* The invariant *)

\* The initial state satisfies the invariant.
LEMMA InitInv == ASSUME Init PROVE DaemonInv
<1> USE DEF Init, TelemetryInit, EmptyTelemetryRecord, RingInit, BatchInit, ProcInit
<1>1. PoolTypeOK /\ PoolConsistent
  BY PoolInitConsistent
<1>2. TelemetryTypeOK
  BY DEF TelemetryTypeOK
<1>3. RingTypeOK
  <2>1. c \in Seq(TraceSegment)
    OBVIOUS
  <2>2. sendSeg \in [Sender -> TraceSegment \cup {noSegment}] /\ sendOld = sendSeg
    OBVIOUS
  <2> QED
    BY <2>1, <2>2 DEF RingTypeOK
<1>4. UploadTypeOK /\ ProcTypeOK /\ MainTypeOK
  <2>1. batches \in Seq(Seq(Payload)) /\ batch \in Seq(TraceSegment) /\ docs \in Seq(Payload)
    OBVIOUS
  <2>2. inflight \in [Worker -> Seq(Payload)]
    OBVIOUS
  <2> QED
    BY <2>1, <2>2 DEF UploadTypeOK, ProcTypeOK, MainTypeOK
<1>5. RecvTypeOK
  BY DatagramAssumption DEF RecvTypeOK
<1>6. InPool = Buffer
  BY DEF PoolInit, InPool
<1>7. InRing = {} /\ InBatch = {} /\ InHands = {} /\ Unreturned = {}
  BY DEF InRing, InBatch, InHands, Unreturned
<1>8. BufferOwnership
  BY <1>1, <1>6, <1>7 DEF BufferOwnership, ExclusiveOwner, NoBufferLost, PoolConsistent
<1>9. {w \in Worker : wpc[w] = "exit"} = {}
  OBVIOUS
<1>10. WorkerInv
  BY <1>9, FS_EmptySet DEF WorkerInv
<1>11. RingNeverTruncates /\ PayloadIntact /\ UploadSize /\ ReceiverInv /\ MainInv
  BY DEF RingNeverTruncates, PayloadIntact, UploadSize, ReceiverInv, MainInv
<1>12. ProcessorInv
  BY batchSizeAssumption DEF ProcessorInv
<1> QED
  BY <1>1, <1>2, <1>3, <1>4, <1>5, <1>8, <1>10, <1>11, <1>12 DEF DaemonInv, TypeOK

\* Every step preserves the invariant.
LEMMA NextInv == ASSUME DaemonInv, [Next]_vars PROVE DaemonInv'
<1>1. CASE \E r \in Sender : Receiver(r)
  BY <1>1, ReceiverStepInv
<1>2. CASE ProcStep /\ UNCHANGED <<recvVars, mainVars>>
  BY <1>2, ProcStepInv
<1>3. CASE \E w \in Worker : UploadStep(w) /\ UNCHANGED <<recvVars, mainVars>>
  BY <1>3, UploadStepInv
<1>4. CASE Stop \/ CloseStep \/ PushData
  BY <1>4, StopInv, CloseStdInv, CloseQuitInv, WaitProcessorInv, WaitTelemetryInv, PushDataInv
     DEF CloseStep
<1>5. CASE UNCHANGED vars
  <2>1. UNCHANGED <<recvVars, poolVars, T, ringVars, batchVars, procVars, mem, mainVars>>
    BY <1>5 DEF vars
  <2>2. MainTypeOK' /\ MainInv'
    BY <2>1, FrameType DEF DaemonInv, TypeOK, MainInv
  <2> QED
    BY <2>1, <2>2, MoveMainInv
<1> QED
  BY <1>1, <1>2, <1>3, <1>4, <1>5 DEF Next, Terminated

\* DaemonInv is an invariant of the daemon, for any number of receivers, workers,
\* buffers and datagrams, any queue and batch size: the inductive invariant of
\* poll(), sendBatchAsync, segmentsBatch.poll and close() together.
THEOREM Invariance == Spec => []DaemonInv
<1>1. Init => DaemonInv
  BY InitInv
<1>2. DaemonInv /\ [Next]_vars => DaemonInv'
  BY NextInv
<1> QED
  BY <1>1, <1>2, PTL DEF Spec

-----------------------------------------------------------------------------
(* What it gives *)

\* Every variable keeps its type: receivers only send segments that have a pool
\* buffer, and the documents of a batch are payloads that were received.
THEOREM TypeCorrect == Spec => []TypeOK
<1>1. DaemonInv => TypeOK
  BY DEF DaemonInv
<1> QED
  BY <1>1, Invariance, PTL

\* Each buffer of the pool has exactly one owner in every reachable state, for
\* any number of buffers, receivers and workers: pool, receiver, ring buffer or
\* the processor's batch.
THEOREM BuffersOwned == Spec => []BufferOwnership
<1>1. DaemonInv => BufferOwnership
  BY DEF DaemonInv
<1> QED
  BY <1>1, Invariance, PTL

\* With the sizes initDaemon chooses, no call of Send truncates.
THEOREM NeverTruncates == Spec => []RingNeverTruncates
<1>1. DaemonInv => RingNeverTruncates
  BY DEF DaemonInv
<1> QED
  BY <1>1, Invariance, PTL

\* The bytes that sendBatchAsync reads are those of the segment's datagram.
THEOREM PayloadsIntact == Spec => []PayloadIntact
<1>1. DaemonInv => PayloadIntact
  BY DEF DaemonInv
<1> QED
  BY <1>1, Invariance, PTL

\* No upload is empty or larger than batchSize.
THEOREM UploadsSized == Spec => []UploadSize
<1>1. DaemonInv => UploadSize
  BY DEF DaemonInv
<1> QED
  BY <1>1, Invariance, PTL

\* The end of the processor is the end of everything it feeds.
LEMMA DrainedInv == ASSUME DaemonInv PROVE ExitDrained
<1> SUFFICES ASSUME mpc \in {"waitTel", "exit"}
             PROVE  /\ closed /\ c = << >> /\ batch = << >> /\ batches = << >>
                    /\ \A w \in Worker : inflight[w] = << >>
  BY DEF ExitDrained
<1>1. ppc = "exit"
  BY DEF DaemonInv, MainInv
<1>2. closed /\ c = << >> /\ batch = << >>
  BY <1>1 DEF DaemonInv, ProcessorInv
<1>3. \A w \in Worker : wpc[w] = "exit"
  BY <1>1 DEF DaemonInv, WorkerInv
<1>4. batches = << >> /\ \A w \in Worker : inflight[w] = << >>
  BY <1>3, WorkerAssumption DEF DaemonInv, WorkerInv
<1> QED
  BY <1>2, <1>4

\* When close() has heard from the processor, the ring buffer, the batch, the
\* queue and the workers hold nothing.
THEOREM DrainedAtExit == Spec => []ExitDrained
<1>1. DaemonInv => ExitDrained
  BY DrainedInv
<1> QED
  BY <1>1, Invariance, PTL

-----------------------------------------------------------------------------
(* The counters that close() logs *)

\* The senders that are in a call of Send.
Sending == {r \in Sender : sendAt[r] # "idle"}

\* A sender that begins a call is one more.
LEMMA SendingBegins ==
  ASSUME RingTypeOK, NEW r \in Sender, sendAt[r] = "idle",
         sendAt' = [sendAt EXCEPT ![r] = "try"]
  PROVE  Cardinality(Sending') = Cardinality(Sending) + 1 /\ Cardinality(Sending) \in Nat
<1>1. Sending' = Sending \cup {r} /\ r \notin Sending
  BY DEF Sending, RingTypeOK
<1>2. IsFiniteSet(Sending)
  BY SenderAssumption, FS_Subset DEF Sending
<1>. QED
  BY <1>1, <1>2, FS_AddElement, FS_CardinalityType

\* A sender whose call returns is one less.
LEMMA SendingEnds ==
  ASSUME RingTypeOK, NEW r \in Sender, sendAt[r] # "idle",
         sendAt' = [sendAt EXCEPT ![r] = "idle"]
  PROVE  Cardinality(Sending') = Cardinality(Sending) - 1 /\ Cardinality(Sending) \in Nat
<1>1. Sending' = Sending \ {r} /\ r \in Sending
  BY DEF Sending, RingTypeOK
<1>2. IsFiniteSet(Sending)
  BY SenderAssumption, FS_Subset DEF Sending
<1>. QED
  BY <1>1, <1>2, FS_RemoveElement, FS_CardinalityType

\* The ledger in terms of Sending.
LEMMA LedgerIs == CloseLedger <=> dcount = processed + count + Len(c) + Cardinality(Sending)
BY DEF CloseLedger, Sending

\* The ledger in terms of Sending, after a step.
LEMMA LedgerIsNext ==
  CloseLedger' <=> dcount' = processed' + count' + Len(c') + Cardinality(Sending')
BY DEF CloseLedger, Sending

\* A step that moves no segment in or out of the ring buffer.
LEMMA FrameLedger ==
  CloseLedger /\ UNCHANGED <<dcount, processed, count, c, sendAt>> => CloseLedger'
BY DEF CloseLedger

\* A receiver counts a segment and enters Send.
LEMMA CountSegmentLedger ==
  ASSUME DaemonInv, CloseLedger, NEW r \in Sender, CountSegment(r)
  PROVE  CloseLedger'
<1>1. /\ dcount' = dcount + 1 /\ UNCHANGED <<processed, count, c>>
      /\ sendAt[r] = "idle" /\ sendAt' = [sendAt EXCEPT ![r] = "try"]
  BY DEF CountSegment, SendCall, procVars
<1>2. Cardinality(Sending') = Cardinality(Sending) + 1 /\ Cardinality(Sending) \in Nat
  BY <1>1, SendingBegins DEF DaemonInv, TypeOK
<1>3. processed \in Nat /\ count \in Nat /\ Len(c) \in Nat /\ dcount \in Nat
  BY DEF DaemonInv, TypeOK, ProcTypeOK, RingTypeOK, RecvTypeOK
<1>. QED
  BY <1>1, <1>2, <1>3, LedgerIs, LedgerIsNext

\* In the daemon only a panic makes a call of Send go on: the ring has room.
LEMMA RetryPanics ==
  ASSUME DaemonInv, NEW r \in Sender, rpc[r] = "send", SendRetry(r)
  PROVE  SendPanic(r)
<1>1. rbuf[r] # nil /\ sendAt[r] = "try"
  BY DEF DaemonInv, ReceiverInv, RingNeverTruncates
<1>2. Len(c) < capacity /\ Len(c) \in Nat /\ capacity \in Nat
  BY <1>1, RingHasRoom, Sizes DEF DaemonInv, TypeOK, RingTypeOK
<1>3. ~SendFull(r) /\ ~SendTruncate(r) /\ ~SendDequeued(r) /\ ~SendDrop(r)
  BY <1>1, <1>2 DEF SendFull, SendTruncate, SendDequeued, SendDrop
<1>. QED
  BY <1>3 DEF SendRetry

\* Its call returns with the segment in the channel; it never truncates.
LEMMA PollSendLedger ==
  ASSUME DaemonInv, CloseLedger, NEW r \in Sender, PollSend(r)
  PROVE  CloseLedger'
<1>1. /\ UNCHANGED <<dcount, processed>>
      /\ rpc[r] = "send"
      /\ SendEnqueue(r) \/ SendRetry(r)
  BY DEF PollSend, procVars
<1>2. CASE SendEnqueue(r)
  <2>1. /\ c' = Append(c, sendSeg[r]) /\ UNCHANGED count
        /\ sendAt[r] # "idle" /\ sendAt' = [sendAt EXCEPT ![r] = "idle"]
    BY <1>2 DEF SendEnqueue
  <2>2. Cardinality(Sending') = Cardinality(Sending) - 1 /\ Cardinality(Sending) \in Nat
    BY <2>1, SendingEnds DEF DaemonInv, TypeOK
  <2>3. sendSeg[r] \in TraceSegment /\ c \in Seq(TraceSegment)
    BY <1>1 DEF DaemonInv, ReceiverInv, TypeOK, RingTypeOK
  <2>4. Len(c') = Len(c) + 1 /\ Len(c) \in Nat
    BY <2>1, <2>3
  <2>5. processed \in Nat /\ count \in Nat /\ dcount \in Nat
    BY DEF DaemonInv, TypeOK, ProcTypeOK, RingTypeOK, RecvTypeOK
  <2>. QED
    BY <1>1, <2>1, <2>2, <2>4, <2>5, LedgerIs, LedgerIsNext
<1>3. CASE SendRetry(r)
  <2>4. SendPanic(r)
    BY <1>1, <1>3, RetryPanics
  <2>5. UNCHANGED <<c, count, sendAt>>
    BY <2>4 DEF SendPanic, sendVars
  <2>. QED
    BY <1>1, <2>5, FrameLedger
<1>. QED
  BY <1>1, <1>2, <1>3

\* Every other step of a receiver leaves the ring buffer alone.
LEMMA ReceiverLedger ==
  ASSUME DaemonInv, CloseLedger, NEW r \in Sender, Receiver(r)
  PROVE  CloseLedger'
<1>1. CASE CountSegment(r)
  BY <1>1, CountSegmentLedger
<1>2. CASE PollSend(r)
  BY <1>2, PollSendLedger
<1>3. CASE ~CountSegment(r) /\ ~PollSend(r)
  <2>1. UNCHANGED <<dcount, processed, ringVars>>
    BY <1>3 DEF Receiver, PollGet, ReadDatagram, CountInvalid, CountFallback, ReadNothing, ReadError,
                PollRelease, PollReject, PollDone, procVars
  <2>. QED
    BY <2>1, FrameLedger DEF ringVars, sendVars
<1>. QED
  BY <1>1, <1>2, <1>3

\* The processor takes a segment out and counts it.
LEMMA receiveLedger ==
  ASSUME DaemonInv, CloseLedger, receiveTraceSegment, UNCHANGED <<recvVars, mainVars>>
  PROVE  CloseLedger'
<1>1. /\ processed' = processed + 1 /\ c # << >> /\ c' = Tail(c)
      /\ UNCHANGED <<dcount, count, sendAt>>
  BY DEF receiveTraceSegment, Receive, sendVars, recvVars
<1>2. c \in Seq(TraceSegment)
  BY DEF DaemonInv, TypeOK, RingTypeOK
<1>3. Len(c') = Len(c) - 1 /\ Len(c) \in Nat
  BY <1>1, <1>2
<1>4. processed \in Nat /\ count \in Nat /\ dcount \in Nat
  BY DEF DaemonInv, TypeOK, ProcTypeOK, RingTypeOK, RecvTypeOK
<1>5. Sending' = Sending /\ Cardinality(Sending) \in Nat
  <2>1. IsFiniteSet(Sending)
    BY SenderAssumption, FS_Subset DEF Sending
  <2>. QED
    BY <1>1, <2>1, FS_CardinalityType DEF Sending
<1>. QED
  BY <1>1, <1>3, <1>4, <1>5, LedgerIs, LedgerIsNext

\* The other steps of the processor.
LEMMA ProcLedger ==
  ASSUME DaemonInv, CloseLedger, ProcStep, UNCHANGED <<recvVars, mainVars>>
  PROVE  CloseLedger'
<1>1. CASE receiveTraceSegment
  BY <1>1, receiveLedger
<1>2. CASE ~receiveTraceSegment
  <2>1. UNCHANGED <<processed, ringVars>>
    BY <1>2 DEF ProcStep, CheckPool, ChannelClosed, ReceiveClosed, IdlePartial, IdleEmpty,
                CopySegment, ReturnBuffer, SendBatch, QueueFull, TruncateOldest, CloseBatches,
                WaitWorker
  <2>. QED
    BY <2>1, FrameLedger DEF ringVars, sendVars, recvVars
<1>. QED
  BY <1>1, <1>2

\* The counters that close() logs agree in every state, with any number of
\* receivers and datagrams: no segment is lost between poll() and the
\* processor without being counted as truncated, which none is.
THEOREM LedgerKept == Spec => []CloseLedger
<1>1. Init => CloseLedger
  <2>. SUFFICES ASSUME Init PROVE CloseLedger
    OBVIOUS
  <2>1. {r \in Sender : sendAt[r] # "idle"} = {}
    BY DEF Init, RingInit
  <2>2. dcount = 0 /\ processed = 0 /\ count = 0 /\ Len(c) = 0
    BY DEF Init, RingInit, ProcInit
  <2>. QED
    BY <2>1, <2>2, FS_EmptySet DEF CloseLedger
<1>2. DaemonInv /\ CloseLedger /\ [Next]_vars => CloseLedger'
  <2>. SUFFICES ASSUME DaemonInv, CloseLedger, [Next]_vars PROVE CloseLedger'
    OBVIOUS
  <2>1. CASE \E r \in Sender : Receiver(r)
    BY <2>1, ReceiverLedger
  <2>2. CASE ProcStep /\ UNCHANGED <<recvVars, mainVars>>
    BY <2>2, ProcLedger
  <2>3. CASE \E w \in Worker : UploadStep(w) /\ UNCHANGED <<recvVars, mainVars>>
    BY <2>3, FrameLedger DEF UploadStep, procVars, ringVars, sendVars, recvVars
  <2>4. CASE Stop \/ CloseStep \/ PushData
    <3>1. UNCHANGED <<dcount, processed, count, c, sendAt>>
      BY <2>4 DEF Stop, CloseStep, CloseStd, Close, CloseQuit, WaitProcessor, WaitTelemetry, PushData,
                  procVars, ringVars, sendVars, recvVars
    <3>. QED
      BY <3>1, FrameLedger
  <2>5. CASE UNCHANGED vars
    BY <2>5, FrameLedger DEF vars, procVars, ringVars, sendVars, recvVars
  <2>. QED
    BY <2>1, <2>2, <2>3, <2>4, <2>5 DEF Next, Terminated
<1>. QED
  BY <1>1, <1>2, Invariance, PTL DEF Spec

-----------------------------------------------------------------------------
(* A step of the goroutines, whoever started them and will end the process. *)

AnyStep ==
  \/ \E r \in Sender : Receiver(r)
  \/ ProcStep /\ UNCHANGED <<recvVars, mainVars>>
  \/ \E w \in Worker : UploadStep(w) /\ UNCHANGED <<recvVars, mainVars>>
  \/ Stop \/ CloseStep \/ PushData
  \/ UNCHANGED vars

\* The daemon takes no others.
LEMMA NextIsAnyStep == [Next]_vars => AnyStep
BY DEF AnyStep, Next, Terminated

-----------------------------------------------------------------------------
(* The counters of telemetry *)

\* A document by its place.
LEMMA DocumentAt ==
  ASSUME NEW f, NEW x
  PROVE  x \in Documents(f) <=> \E i \in DOMAIN f : \E j \in DOMAIN f[i] : x = <<i, j>>
BY DEF Documents

\* The documents of one batch are as many as its length says.
LEMMA BatchDocuments ==
  ASSUME NEW S, NEW q \in Seq(S), NEW i
  PROVE  /\ IsFiniteSet({i} \X DOMAIN q)
         /\ Cardinality({i} \X DOMAIN q) = Len(q)
         /\ Len(q) \in Nat
<1>1. DOMAIN q = 1 .. Len(q) /\ Len(q) \in Nat /\ 1 \in Int /\ Len(q) \in Int
  OBVIOUS
<1>2. IsFiniteSet(1 .. Len(q)) /\ Cardinality(1 .. Len(q)) = Len(q)
  BY <1>1, FS_Interval
<1>3. IsFiniteSet({i}) /\ Cardinality({i}) = 1
  BY FS_Singleton
<1>4. IsFiniteSet({i} \X (1 .. Len(q))) /\ Cardinality({i} \X (1 .. Len(q))) = 1 * Len(q)
  BY <1>2, <1>3, FS_Product
<1>. QED
  <2>1. \A n \in Nat : 1 * n = n
    OBVIOUS
  <2>. QED
    BY <1>1, <1>4, <2>1, Zenon

\* Two sets of documents without a common one.
LEMMA DisjointDocuments ==
  ASSUME NEW P, NEW Q, IsFiniteSet(P), IsFiniteSet(Q), P \cap Q = {}
  PROVE  IsFiniteSet(P \cup Q) /\ Cardinality(P \cup Q) = Cardinality(P) + Cardinality(Q)
<1>1. Cardinality(P) \in Nat /\ Cardinality(Q) \in Nat /\ Cardinality({}) = 0
  BY FS_CardinalityType, FS_EmptySet
<1>2. Cardinality(P \cup Q) = Cardinality(P) + Cardinality(Q) - Cardinality(P \cap Q)
  BY FS_Union
<1>3. Cardinality(P \cap Q) = 0
  BY <1>1
<1>. QED
  BY <1>1, <1>2, <1>3, FS_Union

\* A batch at the end of a queue.
LEMMA AppendDocuments ==
  ASSUME NEW S, NEW f \in Seq(Seq(S)), NEW q \in Seq(S), IsFiniteSet(Documents(f))
  PROVE  /\ IsFiniteSet(Documents(Append(f, q)))
         /\ Cardinality(Documents(Append(f, q))) = Cardinality(Documents(f)) + Len(q)
<1>. DEFINE n == Len(f) + 1
            g == Append(f, q)
            P == {n} \X DOMAIN q
<1>1. /\ DOMAIN f = 1 .. Len(f) /\ DOMAIN g = 1 .. n /\ Len(f) \in Nat
      /\ g[n] = q /\ \A i \in 1 .. Len(f) : g[i] = f[i]
  OBVIOUS
<1>2. n \in DOMAIN g /\ n \notin DOMAIN f /\ \A i \in DOMAIN g : i # n => i \in DOMAIN f
  BY <1>1
<1>3. \A i \in DOMAIN f : i \in DOMAIN g /\ g[i] = f[i]
  BY <1>1
<1>. HIDE DEF n, g
<1>4. Documents(g) = Documents(f) \cup P
  <2>1. ASSUME NEW x \in Documents(g) PROVE x \in Documents(f) \cup P
    <3>1. PICK i, j : i \in DOMAIN g /\ j \in DOMAIN g[i] /\ x = <<i, j>>
      BY DocumentAt
    <3>2. CASE i = n
      BY <1>1, <3>1, <3>2
    <3>3. CASE i # n
      <4>1. i \in DOMAIN f /\ j \in DOMAIN f[i]
        BY <1>2, <1>3, <3>1, <3>3
      <4>. QED
        BY <3>1, <4>1, DocumentAt
    <3>. QED
      BY <3>2, <3>3
  <2>2. ASSUME NEW x \in Documents(f) PROVE x \in Documents(g)
    <3>1. PICK i, j : i \in DOMAIN f /\ j \in DOMAIN f[i] /\ x = <<i, j>>
      BY DocumentAt
    <3>. QED
      BY <1>3, <3>1, DocumentAt
  <2>3. ASSUME NEW x \in P PROVE x \in Documents(g)
    <3>1. PICK j \in DOMAIN g[n] : x = <<n, j>>
      BY <1>1
    <3>. QED
      BY <1>2, <3>1, DocumentAt
  <2>. QED
    BY <2>1, <2>2, <2>3
<1>5. Documents(f) \cap P = {}
  <2>. SUFFICES ASSUME NEW x \in Documents(f), x \in P PROVE FALSE
    OBVIOUS
  <2>1. PICK i, j : i \in DOMAIN f /\ j \in DOMAIN f[i] /\ x = <<i, j>>
    BY DocumentAt
  <2>2. i = n
    BY <2>1
  <2>. QED
    BY <1>2, <2>1, <2>2
<1>6. IsFiniteSet(P) /\ Cardinality(P) = Len(q)
  BY BatchDocuments
<1>. HIDE DEF P
<1>. QED
  BY <1>4, <1>5, <1>6, DisjointDocuments DEF g

\* The batch at the head of a queue leaves it: the others move up.
LEMMA TailDocuments ==
  ASSUME NEW S, NEW f \in Seq(Seq(S)), f # << >>, IsFiniteSet(Documents(f))
  PROVE  /\ IsFiniteSet(Documents(Tail(f)))
         /\ Cardinality(Documents(Tail(f))) = Cardinality(Documents(f)) - Len(Head(f))
         /\ Head(f) \in Seq(S) /\ Len(Head(f)) \in Nat
<1>. DEFINE g == Tail(f)
            P == {1} \X DOMAIN f[1]
            Q == Documents(f) \ P
            up == [x \in Q |-> <<x[1] - 1, x[2]>>]
<1>1. /\ DOMAIN f = 1 .. Len(f) /\ Len(f) \in Nat \ {0} /\ DOMAIN g = 1 .. Len(f) - 1
      /\ \A i \in 1 .. Len(f) - 1 : g[i] = f[i + 1]
      /\ Head(f) = f[1] /\ f[1] \in Seq(S)
  OBVIOUS
<1>2. IsFiniteSet(P) /\ Cardinality(P) = Len(f[1]) /\ Len(f[1]) \in Nat
  BY <1>1, BatchDocuments
<1>. HIDE DEF g
<1>3. P \subseteq Documents(f)
  <2>. SUFFICES ASSUME NEW x \in P PROVE x \in Documents(f)
    OBVIOUS
  <2>1. 1 \in DOMAIN f /\ \E j \in DOMAIN f[1] : x = <<1, j>>
    BY <1>1
  <2>. QED
    BY <2>1, DocumentAt
<1>4. IsFiniteSet(Q) /\ Cardinality(Q) = Cardinality(Documents(f)) - Len(f[1])
  <2>1. Documents(f) \cap P = P
    BY <1>3
  <2>. HIDE DEF P
  <2>. QED
    <3>1. /\ IsFiniteSet(Documents(f) \ P)
          /\ Cardinality(Documents(f) \ P)
               = Cardinality(Documents(f)) - Cardinality(Documents(f) \cap P)
      BY FS_Difference
    <3>. QED
      BY <1>2, <2>1, <3>1
<1>5. ASSUME NEW x \in Q
      PROVE  \E i \in DOMAIN g : \E j \in DOMAIN g[i] : x = <<i + 1, j>> /\ up[x] = <<i, j>>
  <2>1. PICK i, j : i \in DOMAIN f /\ j \in DOMAIN f[i] /\ x = <<i, j>>
    BY DocumentAt
  <2>2. i # 1
    BY <2>1
  <2>3. i - 1 \in DOMAIN g /\ (i - 1) + 1 = i
    BY <1>1, <2>1, <2>2
  <2>4. g[i - 1] = f[i]
    BY <1>1, <2>3
  <2>5. up[x] = <<i - 1, j>>
    BY <2>1
  <2>. QED
    BY <2>1, <2>3, <2>4, <2>5
<1>6. ASSUME NEW i \in DOMAIN g, NEW j \in DOMAIN g[i] PROVE <<i + 1, j>> \in Q
  <2>1. i + 1 \in DOMAIN f /\ i + 1 # 1 /\ g[i] = f[i + 1]
    BY <1>1
  <2>2. <<i + 1, j>> \in Documents(f)
    BY <2>1, DocumentAt
  <2>. QED
    BY <2>1, <2>2
<1>. HIDE DEF P, Q
<1>7. up \in [Q -> Documents(g)]
  <2>1. \A x \in Q : up[x] \in Documents(g)
    BY <1>5, DocumentAt
  <2>. QED
    BY <2>1
<1>. HIDE DEF up
<1>8. up \in Injection(Q, Documents(g))
  <2>. SUFFICES ASSUME NEW x \in Q, NEW y \in Q, up[x] = up[y] PROVE x = y
    BY <1>7 DEF Injection, IsInjective
  <2>1. PICK i, j : i \in DOMAIN g /\ j \in DOMAIN g[i] /\ x = <<i + 1, j>> /\ up[x] = <<i, j>>
    BY <1>5
  <2>2. PICK k, l : k \in DOMAIN g /\ l \in DOMAIN g[k] /\ y = <<k + 1, l>> /\ up[y] = <<k, l>>
    BY <1>5
  <2>. QED
    BY <2>1, <2>2
<1>9. up \in Surjection(Q, Documents(g))
  <2>. SUFFICES ASSUME NEW y \in Documents(g) PROVE \E x \in Q : up[x] = y
    BY <1>7 DEF Surjection
  <2>1. PICK i, j : i \in DOMAIN g /\ j \in DOMAIN g[i] /\ y = <<i, j>>
    BY DocumentAt
  <2>2. PICK x \in Q : x = <<i + 1, j>>
    BY <1>6, <2>1
  <2>3. PICK k, l : k \in DOMAIN g /\ l \in DOMAIN g[k] /\ x = <<k + 1, l>> /\ up[x] = <<k, l>>
    BY <1>5
  <2>4. i \in Int /\ k \in Int
    BY <1>1, <2>1, <2>3
  <2>5. i = k /\ j = l
    BY <2>2, <2>3, <2>4
  <2>. QED
    BY <2>1, <2>3, <2>5
<1>10. ExistsBijection(Q, Documents(g))
  BY <1>8, <1>9 DEF ExistsBijection, Bijection
<1>. QED
  BY <1>1, <1>2, <1>4, <1>10, FS_Bijection DEF g

\* The batch of one worker changes; the others keep theirs.
LEMMA WorkerDocuments ==
  ASSUME NEW f \in [Worker -> Seq(Payload)], NEW g \in [Worker -> Seq(Payload)],
         NEW w \in Worker, \A v \in Worker \ {w} : g[v] = f[v],
         IsFiniteSet(Documents(f))
  PROVE  /\ IsFiniteSet(Documents(g))
         /\ Cardinality(Documents(g)) = Cardinality(Documents(f)) - Len(f[w]) + Len(g[w])
         /\ Len(f[w]) \in Nat
<1>. DEFINE P == {w} \X DOMAIN f[w]
            R == {w} \X DOMAIN g[w]
            Q == Documents(f) \ P
<1>1. DOMAIN f = Worker /\ DOMAIN g = Worker /\ \A v \in Worker : v # w => g[v] = f[v]
  OBVIOUS
<1>2. /\ IsFiniteSet(P) /\ Cardinality(P) = Len(f[w]) /\ Len(f[w]) \in Nat
      /\ IsFiniteSet(R) /\ Cardinality(R) = Len(g[w]) /\ Len(g[w]) \in Nat
  <2>1. f[w] \in Seq(Payload) /\ g[w] \in Seq(Payload)
    OBVIOUS
  <2>. QED
    BY <2>1, BatchDocuments
<1>3. IsFiniteSet(Q) /\ Cardinality(Q) = Cardinality(Documents(f)) - Len(f[w])
  <2>1. Documents(f) \cap P = P
    <3>. SUFFICES ASSUME NEW x \in P PROVE x \in Documents(f)
      OBVIOUS
    <3>1. w \in DOMAIN f /\ \E j \in DOMAIN f[w] : x = <<w, j>>
      BY <1>1
    <3>. QED
      BY <3>1, DocumentAt
  <2>. HIDE DEF P
  <2>. QED
    <3>1. /\ IsFiniteSet(Documents(f) \ P)
          /\ Cardinality(Documents(f) \ P)
               = Cardinality(Documents(f)) - Cardinality(Documents(f) \cap P)
      BY FS_Difference
    <3>. QED
      BY <1>2, <2>1, <3>1
<1>4. Documents(g) = Q \cup R
  <2>1. ASSUME NEW x \in Documents(g) PROVE x \in Q \cup R
    <3>1. PICK i, j : i \in DOMAIN g /\ j \in DOMAIN g[i] /\ x = <<i, j>>
      BY DocumentAt
    <3>2. CASE i = w
      BY <1>1, <3>1, <3>2
    <3>3. CASE i # w
      <4>1. i \in DOMAIN f /\ j \in DOMAIN f[i]
        BY <1>1, <3>1, <3>3
      <4>2. x \in Documents(f)
        BY <3>1, <4>1, DocumentAt
      <4>. QED
        BY <3>1, <3>3, <4>2
    <3>. QED
      BY <3>2, <3>3
  <2>2. ASSUME NEW x \in Q PROVE x \in Documents(g)
    <3>1. PICK i, j : i \in DOMAIN f /\ j \in DOMAIN f[i] /\ x = <<i, j>>
      BY DocumentAt
    <3>2. i # w
      BY <3>1
    <3>3. i \in DOMAIN g /\ j \in DOMAIN g[i]
      BY <1>1, <3>1, <3>2
    <3>. QED
      BY <3>1, <3>3, DocumentAt
  <2>3. ASSUME NEW x \in R PROVE x \in Documents(g)
    <3>1. w \in DOMAIN g /\ \E j \in DOMAIN g[w] : x = <<w, j>>
      BY <1>1
    <3>. QED
      BY <3>1, DocumentAt
  <2>. QED
    BY <2>1, <2>2, <2>3
<1>5. Q \cap R = {}
  <2>. SUFFICES ASSUME NEW x \in Q, x \in R PROVE FALSE
    OBVIOUS
  <2>1. PICK i, j : i \in DOMAIN f /\ j \in DOMAIN f[i] /\ x = <<i, j>>
    BY DocumentAt
  <2>. QED
    BY <2>1
<1>. HIDE DEF P, Q, R
<1>. QED
  <2>1. Cardinality(Q) \in Nat /\ Cardinality(Documents(f)) \in Nat
    BY <1>3, FS_CardinalityType
  <2>2. IsFiniteSet(Documents(g)) /\ Cardinality(Documents(g)) = Cardinality(Q) + Cardinality(R)
    <3>1. IsFiniteSet(Q \cup R) /\ Cardinality(Q \cup R) = Cardinality(Q) + Cardinality(R)
      BY <1>2, <1>3, <1>5, DisjointDocuments
    <3>. QED
      BY <1>4, <3>1, Zenon
  <2>. QED
    BY <1>2, <1>3, <2>1, <2>2

\* What the counters say is in the pipeline, receivers that have returned
\* included, and what is.
Net ==
  T["received"] + dones + serviceRejected
    - (T["spillover"] + T["sent"] + T["rejected"] + failed)
Hands == At({"send", "reject"}) + At({"exit"})
Flow == Len(c) + Len(batch)
Uploads == Cardinality(Documents(batches)) + Cardinality(Documents(inflight))

DocumentsFinite == IsFiniteSet(Documents(batches)) /\ IsFiniteSet(Documents(inflight))

\* The ledger is that the two agree.
LEMMA LedgerNumbers ==
  TypeOK /\ DocumentsFinite =>
    /\ TelemetryLedger <=> Net = Hands + Flow + Uploads
    /\ Net \in Int /\ Hands \in Nat /\ Flow \in Nat /\ Uploads \in Nat
<1>. SUFFICES ASSUME TypeOK, DocumentsFinite
     PROVE  /\ TelemetryLedger <=> Net = Hands + Flow + Uploads
            /\ Net \in Int /\ Hands \in Nat /\ Flow \in Nat /\ Uploads \in Nat
  OBVIOUS
<1>1. PICK t1 \in Nat, t2 \in Nat, t3 \in Nat, t4 \in Nat :
        t1 = T["received"] /\ t2 = T["spillover"] /\ t3 = T["sent"] /\ t4 = T["rejected"]
  BY DEF TypeOK, TelemetryTypeOK, CounterNames
<1>2. PICK d \in Nat, s \in Nat, f \in Nat : d = dones /\ s = serviceRejected /\ f = failed
  BY DEF TypeOK, UploadTypeOK, MainTypeOK
<1>3. PICK h \in Nat, e \in Nat : h = At({"send", "reject"}) /\ e = At({"exit"})
  <2>1. \A S : IsFiniteSet({r \in Sender : rpc[r] \in S})
    BY SenderAssumption, FS_Subset
  <2>. QED
    BY <2>1, FS_CardinalityType DEF At
<1>4. PICK l \in Nat, b \in Nat : l = Len(c) /\ b = Len(batch)
  BY DEF TypeOK, RingTypeOK, ProcTypeOK
<1>5. PICK q \in Nat, u \in Nat :
        q = Cardinality(Documents(batches)) /\ u = Cardinality(Documents(inflight))
  BY FS_CardinalityType DEF DocumentsFinite
<1>6. TelemetryLedger <=> t1 + (d - e) = t2 + t3 + (t4 - s) + f + (h + l + b + q + u)
  BY <1>1, <1>2, <1>3, <1>4, <1>5 DEF TelemetryLedger, Echoes, InPipeline
<1>7. Net = t1 + d + s - (t2 + t3 + t4 + f) /\ Hands = h + e /\ Flow = l + b /\ Uploads = q + u
  BY <1>1, <1>2, <1>3, <1>4, <1>5 DEF Net, Hands, Flow, Uploads
<1>. QED
  BY <1>6, <1>7

\* The same after a step.
LEMMA LedgerNumbersNext ==
  TypeOK' /\ DocumentsFinite' =>
    /\ TelemetryLedger' <=> Net' = Hands' + Flow' + Uploads'
    /\ Net' \in Int /\ Hands' \in Nat /\ Flow' \in Nat /\ Uploads' \in Nat
<1>1. (TypeOK /\ DocumentsFinite =>
        /\ TelemetryLedger <=> Net = Hands + Flow + Uploads
        /\ Net \in Int /\ Hands \in Nat /\ Flow \in Nat /\ Uploads \in Nat)'
  BY LedgerNumbers, PTL
<1>. QED
  BY <1>1

\* A step that moves both by d keeps the ledger.
LEMMA LedgerMoves ==
  ASSUME DaemonInv, DaemonInv', DocumentsFinite, DocumentsFinite', TelemetryLedger,
         NEW d \in Int, Net' = Net + d,
         Hands' + Flow' + Uploads' = Hands + Flow + Uploads + d
  PROVE  TelemetryLedger'
<1>1. TelemetryLedger <=> Net = Hands + Flow + Uploads
  BY LedgerNumbers DEF DaemonInv
<1>2. TelemetryLedger' <=> Net' = Hands' + Flow' + Uploads'
  BY LedgerNumbersNext DEF DaemonInv
<1>. QED
  BY <1>1, <1>2

\* What a receiver's move from one place to another does to the ledger.
LEMMA AtMoves ==
  ASSUME TypeOK, NEW r \in Sender, NEW x, rpc' = [rpc EXCEPT ![r] = x], NEW S
  PROVE  /\ At(S)' = At(S) + (IF x \in S THEN 1 ELSE 0) - (IF rpc[r] \in S THEN 1 ELSE 0)
         /\ At(S) \in Nat
<1>. DEFINE A == {s \in Sender : rpc[s] \in S}
            B == {s \in Sender : rpc'[s] \in S}
<1>1. IsFiniteSet(A) /\ Cardinality(A) \in Nat
  BY SenderAssumption, FS_Subset, FS_CardinalityType
<1>2. At(S) = Cardinality(A) /\ At(S)' = Cardinality(B)
  BY DEF At
<1>3. rpc \in [Sender -> {"get", "read", "count", "release", "reject", "send", "done", "exit"}]
  BY DEF TypeOK, RecvTypeOK
<1>4. rpc'[r] = x /\ \A s \in Sender : s # r => rpc'[s] = rpc[s]
  BY <1>3
<1>5. CASE x \in S
  <2>1. B = A \cup {r} /\ (r \in A <=> rpc[r] \in S)
    BY <1>4, <1>5
  <2>. HIDE DEF A, B
  <2>2. Cardinality(B) = IF r \in A THEN Cardinality(A) ELSE Cardinality(A) + 1
    BY <1>1, <2>1, FS_AddElement
  <2>. QED
    BY <1>1, <1>2, <1>5, <2>1, <2>2
<1>6. CASE x \notin S
  <2>1. B = A \ {r} /\ (r \in A <=> rpc[r] \in S)
    BY <1>4, <1>6
  <2>. HIDE DEF A, B
  <2>2. Cardinality(B) = IF r \in A THEN Cardinality(A) - 1 ELSE Cardinality(A)
    BY <1>1, <2>1, FS_RemoveElement
  <2>. QED
    BY <1>1, <1>2, <1>6, <2>1, <2>2
<1>. QED
  BY <1>5, <1>6

\* The same for the three places that the ledger looks at.
LEMMA HandsMove ==
  ASSUME TypeOK, NEW r \in Sender, NEW x, rpc' = [rpc EXCEPT ![r] = x]
  PROVE  Hands' = Hands + (IF x \in {"send", "reject", "exit"} THEN 1 ELSE 0)
                        - (IF rpc[r] \in {"send", "reject", "exit"} THEN 1 ELSE 0)
<1>. DEFINE one(y, S) == IF y \in S THEN 1 ELSE 0
            busy == {"send", "reject"}
            gone == {"exit"}
            all == {"send", "reject", "exit"}
<1>1. At(busy)' = At(busy) + one(x, busy) - one(rpc[r], busy) /\ At(busy) \in Nat
  BY AtMoves
<1>2. At(gone)' = At(gone) + one(x, gone) - one(rpc[r], gone) /\ At(gone) \in Nat
  BY AtMoves
<1>3. \A y : /\ one(y, busy) \in {0, 1} /\ one(y, gone) \in {0, 1} /\ one(y, all) \in {0, 1}
             /\ one(y, all) = one(y, busy) + one(y, gone)
  OBVIOUS
<1>4. Hands = At(busy) + At(gone) /\ Hands' = At(busy)' + At(gone)'
  BY DEF Hands
<1>. HIDE DEF one
<1>5. Hands' = Hands + one(x, all) - one(rpc[r], all)
  BY <1>1, <1>2, <1>3, <1>4
<1>. QED
  BY <1>5 DEF one

\* A step that moves nothing keeps the ledger.
LEMMA TelemetryStays ==
  ASSUME DaemonInv, DaemonInv', DocumentsFinite, DocumentsFinite', TelemetryLedger,
         Net' = Net, Hands' = Hands, Flow' = Flow, Uploads' = Uploads
  PROVE  TelemetryLedger' /\ DocumentsFinite'
<1>1. Net \in Int /\ Hands \in Nat /\ Flow \in Nat /\ Uploads \in Nat
  BY LedgerNumbers DEF DaemonInv
<1>2. 0 \in Int /\ Net' = Net + 0 /\ Hands' + Flow' + Uploads' = Hands + Flow + Uploads + 0
  BY <1>1
<1>. QED
  BY <1>2, LedgerMoves

\* The counters and a step that leaves them alone.
LEMMA NetStays == UNCHANGED <<T, dones, failed, serviceRejected>> => Net' = Net
BY DEF Net

\* A step of a receiver that leaves the queues and the workers alone.
LEMMA ReceiverMoves ==
  ASSUME DaemonInv, DaemonInv', DocumentsFinite, TelemetryLedger,
         NEW r \in Sender, NEW x, rpc' = [rpc EXCEPT ![r] = x],
         UNCHANGED <<batch, batches, inflight>>,
         NEW l \in Int, Len(c') = Len(c) + l,
         Net' = Net + ((IF x \in {"send", "reject", "exit"} THEN 1 ELSE 0)
                        - (IF rpc[r] \in {"send", "reject", "exit"} THEN 1 ELSE 0) + l)
  PROVE  TelemetryLedger' /\ DocumentsFinite'
<1>. DEFINE a == IF x \in {"send", "reject", "exit"} THEN 1 ELSE 0
            b == IF rpc[r] \in {"send", "reject", "exit"} THEN 1 ELSE 0
<1>1. DocumentsFinite' /\ Uploads' = Uploads
  BY DEF DocumentsFinite, Uploads
<1>2. Hands' = Hands + a - b /\ a \in Int /\ b \in Int /\ a - b + l \in Int
  <2>1. Hands' = Hands + a - b
    BY HandsMove DEF DaemonInv
  <2>2. a \in Int /\ b \in Int
    OBVIOUS
  <2>. HIDE DEF a, b
  <2>. QED
    BY <2>1, <2>2
<1>3. Hands \in Nat /\ Flow \in Nat /\ Uploads \in Nat
  BY LedgerNumbers DEF DaemonInv
<1>4. Flow' = Flow + l
  <2>1. Len(c) \in Nat /\ Len(batch) \in Nat
    BY DEF DaemonInv, TypeOK, RingTypeOK, ProcTypeOK
  <2>. QED
    BY <2>1 DEF Flow
<1>5. Net' = Net + (a - b + l)
  OBVIOUS
<1>. HIDE DEF a, b
<1>6. Hands' + Flow' + Uploads' = Hands + Flow + Uploads + (a - b + l)
  BY <1>1, <1>2, <1>3, <1>4
<1>. QED
  BY <1>1, <1>2, <1>5, <1>6, LedgerMoves

\* A receiver's step.
LEMMA ReceiverTelemetry ==
  ASSUME DaemonInv, DaemonInv', DocumentsFinite, TelemetryLedger, NEW r \in Sender, Receiver(r)
  PROVE  TelemetryLedger' /\ DocumentsFinite'
<1>. DEFINE a(x) == IF x \in {"send", "reject", "exit"} THEN 1 ELSE 0
            Moved(x, l) == /\ rpc' = [rpc EXCEPT ![r] = x]
                           /\ UNCHANGED <<batch, batches, inflight>>
                           /\ l \in Int /\ Len(c') = Len(c) + l
                           /\ Net' = Net + (a(x) - a(rpc[r]) + l)
<1>1. ASSUME NEW x, NEW l, Moved(x, l) PROVE TelemetryLedger' /\ DocumentsFinite'
  BY <1>1, ReceiverMoves
<1>2. TypeOK /\ T \in [CounterNames -> Nat] /\ Net \in Int /\ Len(c) \in Nat
  <2>1. TypeOK /\ Net \in Int
    BY LedgerNumbers DEF DaemonInv
  <2>. QED
    BY <2>1 DEF TypeOK, TelemetryTypeOK, RingTypeOK
<1>11. PICK t1 \in Nat, t2 \in Nat, t3 \in Nat, t4 \in Nat :
         t1 = T["received"] /\ t2 = T["spillover"] /\ t3 = T["sent"] /\ t4 = T["rejected"]
  BY <1>2 DEF CounterNames
<1>12. PICK d \in Nat, s \in Nat, f \in Nat : d = dones /\ s = serviceRejected /\ f = failed
  BY <1>2 DEF TypeOK, UploadTypeOK, MainTypeOK
<1>13. Net = t1 + d + s - (t2 + t3 + t4 + f)
  BY <1>11, <1>12 DEF Net
<1>3. CASE PollGet(r) \/ ReadDatagram(r) \/ ReadNothing(r) \/ ReadError(r) \/ PollRelease(r)
  <2>1. /\ UNCHANGED <<batch, batches, inflight, c, T, dones, failed, serviceRejected>>
        /\ rpc[r] \in {"get", "read", "release"}
        /\ \E x \in {"get", "read", "count", "release", "done"} : rpc' = [rpc EXCEPT ![r] = x]
    BY <1>3 DEF PollGet, ReadDatagram, ReadNothing, ReadError, PollRelease, NextLoop
  <2>2. PICK x \in {"get", "read", "count", "release", "done"} : rpc' = [rpc EXCEPT ![r] = x]
    BY <2>1
  <2>3. Net' = Net
    BY <2>1, NetStays
  <2>5. a(x) = 0 /\ a(rpc[r]) = 0
    BY <2>1, <2>2
  <2>6. Net' = Net + (a(x) - a(rpc[r]) + 0) /\ Len(c') = Len(c) + 0
    <3>1. c' = c
      BY <2>1
    <3>. HIDE DEF a
    <3>. QED
      BY <1>2, <2>3, <2>5, <3>1
  <2>. HIDE DEF a
  <2>4. Moved(x, 0)
    <3>1. 0 \in Int /\ UNCHANGED <<batch, batches, inflight>>
      BY <2>1
    <3>. QED
      BY <2>2, <2>6, <3>1, Zenon
  <2>. HIDE DEF Moved
  <2>. QED
    BY <1>1, <2>4
<1>4. CASE CountSegment(r) \/ CountInvalid(r)
  <2>1. /\ UNCHANGED <<batch, batches, inflight, c, dones, failed, serviceRejected>>
        /\ rpc[r] = "count"
        /\ \E x \in {"send", "reject"} : rpc' = [rpc EXCEPT ![r] = x]
        /\ T' = [T EXCEPT !["received"] = @ + 1]
    BY <1>4 DEF CountSegment, CountInvalid, SendCall, SegmentReceived, Counted
  <2>2. PICK x \in {"send", "reject"} : rpc' = [rpc EXCEPT ![r] = x]
    BY <2>1
  <2>3. Net' = Net + 1
    <3>1. Net' = (t1 + 1) + d + s - (t2 + t3 + t4 + f)
      BY <1>2, <1>11, <1>12, <2>1 DEF Net, CounterNames
    <3>. QED
      BY <1>13, <3>1
  <2>5. a(x) = 1 /\ a(rpc[r]) = 0
    BY <2>1, <2>2
  <2>6. Net' = Net + (a(x) - a(rpc[r]) + 0) /\ Len(c') = Len(c) + 0
    <3>1. c' = c
      BY <2>1
    <3>. HIDE DEF a
    <3>. QED
      BY <1>2, <2>3, <2>5, <3>1
  <2>. HIDE DEF a
  <2>4. Moved(x, 0)
    <3>1. 0 \in Int /\ UNCHANGED <<batch, batches, inflight>>
      BY <2>1
    <3>. QED
      BY <2>2, <2>6, <3>1, Zenon
  <2>. HIDE DEF Moved
  <2>. QED
    BY <1>1, <2>4
<1>5. CASE CountFallback(r)
  <2>1. /\ UNCHANGED <<batch, batches, inflight, c, dones, failed, serviceRejected>>
        /\ rpc[r] = "count"
        /\ rpc' = [rpc EXCEPT ![r] = "get"]
        /\ T' = [T EXCEPT !["received"] = @ + 1, !["spillover"] = @ + 1]
    BY <1>5 DEF CountFallback, NextLoop
  <2>3. Net' = Net
    <3>1. Net' = (t1 + 1) + d + s - ((t2 + 1) + t3 + t4 + f)
      BY <1>2, <1>11, <1>12, <2>1 DEF Net, CounterNames
    <3>. QED
      BY <1>13, <3>1
  <2>4. Moved("get", 0)
    BY <1>2, <2>1, <2>3
  <2>. HIDE DEF Moved
  <2>. QED
    BY <1>1, <2>4
<1>6. CASE PollReject(r)
  <2>1. /\ UNCHANGED <<batch, batches, inflight, c, dones, failed, serviceRejected>>
        /\ rpc[r] = "reject"
        /\ rpc' = [rpc EXCEPT ![r] = "get"]
        /\ T' = [T EXCEPT !["rejected"] = @ + 1]
    BY <1>6 DEF PollReject, NextLoop, SegmentRejected, Counted
  <2>3. Net' = Net - 1
    <3>1. Net' = t1 + d + s - (t2 + t3 + (t4 + 1) + f)
      BY <1>2, <1>11, <1>12, <2>1 DEF Net, CounterNames
    <3>. QED
      BY <1>13, <3>1
  <2>4. Moved("get", 0)
    BY <1>2, <2>1, <2>3
  <2>. HIDE DEF Moved
  <2>. QED
    BY <1>1, <2>4
<1>7. CASE PollSend(r) /\ SendEnqueue(r)
  <2>1. /\ UNCHANGED <<batch, batches, inflight, T, dones, failed, serviceRejected>>
        /\ rpc[r] = "send"
        /\ c' = Append(c, sendSeg[r])
    BY <1>7 DEF PollSend, SendEnqueue
  <2>2. rpc' = [rpc EXCEPT ![r] = "get"]
    <3>1. c' # c
      <4>1. sendSeg[r] \in TraceSegment /\ c \in Seq(TraceSegment)
        BY <2>1 DEF DaemonInv, ReceiverInv, TypeOK, RingTypeOK
      <4>2. Len(c') = Len(c) + 1
        BY <2>1, <4>1
      <4>. QED
        BY <1>2, <4>2
    <3>2. ~SendRetry(r)
      BY <3>1, <1>7 DEF SendRetry, SendPanic, SendFull, SendTruncate, SendDequeued, SendDrop, SendEnqueue
    <3>. QED
      BY <1>7, <3>2 DEF PollSend, NextLoop
  <2>3. Len(c') = Len(c) + 1
    <3>1. sendSeg[r] \in TraceSegment /\ c \in Seq(TraceSegment)
      BY <2>1 DEF DaemonInv, ReceiverInv, TypeOK, RingTypeOK
    <3>. QED
      BY <2>1, <3>1
  <2>4. Net' = Net
    BY <2>1, NetStays
  <2>5. Moved("get", 1)
    BY <1>2, <2>1, <2>2, <2>3, <2>4
  <2>. HIDE DEF Moved
  <2>. QED
    BY <1>1, <2>5
<1>8. CASE PollSend(r) /\ ~SendEnqueue(r)
  <2>1. /\ UNCHANGED <<batch, batches, inflight, dones, failed, serviceRejected>>
        /\ SendRetry(r) /\ UNCHANGED rpc /\ rpc[r] = "send"
    BY <1>8 DEF PollSend
  <2>2. SendPanic(r)
    BY <2>1, RetryPanics
  <2>3. UNCHANGED <<c, T>>
    BY <2>2 DEF SendPanic
  <2>4. Net' = Net /\ Hands' = Hands /\ Flow' = Flow /\ Uploads' = Uploads /\ DocumentsFinite'
    BY <2>1, <2>3, NetStays DEF Hands, At, Flow, Uploads, DocumentsFinite
  <2>. QED
    BY <2>4, TelemetryStays
<1>9. CASE PollDone(r) /\ rbuf[r] # nil
  <2>1. /\ UNCHANGED <<batch, batches, inflight, c, T, failed, serviceRejected>>
        /\ rpc[r] = "done" /\ dones' = dones + 1
        /\ rpc' = [rpc EXCEPT ![r] = "exit"]
    BY <1>9 DEF PollDone, AwaitDone
  <2>3. Net' = Net + 1
    <3>1. Net' = t1 + (d + 1) + s - (t2 + t3 + t4 + f)
      BY <1>2, <1>11, <1>12, <2>1 DEF Net, CounterNames
    <3>. QED
      BY <1>13, <3>1
  <2>4. Moved("exit", 0)
    BY <1>2, <2>1, <2>3
  <2>. HIDE DEF Moved
  <2>. QED
    BY <1>1, <2>4
<1>10. CASE PollDone(r) /\ rbuf[r] = nil
  <2>1. /\ UNCHANGED <<batch, batches, inflight, c, failed, serviceRejected>>
        /\ rpc[r] = "done" /\ dones' = dones + 1
        /\ rpc' = [rpc EXCEPT ![r] = "get"]
        /\ T' = [T EXCEPT !["spillover"] = @ + 1]
    BY <1>10 DEF PollDone, AwaitDone, NextLoop, SegmentSpillover, Counted
  <2>3. Net' = Net
    <3>1. Net' = t1 + (d + 1) + s - ((t2 + 1) + t3 + t4 + f)
      BY <1>2, <1>11, <1>12, <2>1 DEF Net, CounterNames
    <3>. QED
      BY <1>13, <3>1
  <2>4. Moved("get", 0)
    BY <1>2, <2>1, <2>3
  <2>. HIDE DEF Moved
  <2>. QED
    BY <1>1, <2>4
<1>. QED
  BY <1>3, <1>4, <1>5, <1>6, <1>7, <1>8, <1>9, <1>10 DEF Receiver

\* What the counters say after a batch of n documents spilled over.
LEMMA NetSpills ==
  ASSUME TypeOK, NEW n \in Nat, T' = [T EXCEPT !["spillover"] = @ + n],
         UNCHANGED <<dones, failed, serviceRejected>>
  PROVE  Net' = Net - n
<1>1. PICK t1 \in Nat, t2 \in Nat, t3 \in Nat, t4 \in Nat :
        t1 = T["received"] /\ t2 = T["spillover"] /\ t3 = T["sent"] /\ t4 = T["rejected"]
  BY DEF TypeOK, TelemetryTypeOK, CounterNames
<1>2. PICK d \in Nat, s \in Nat, f \in Nat : d = dones /\ s = serviceRejected /\ f = failed
  BY DEF TypeOK, UploadTypeOK, MainTypeOK
<1>3. Net = t1 + d + s - (t2 + t3 + t4 + f)
  BY <1>1, <1>2 DEF Net
<1>4. Net' = t1 + d + s - ((t2 + n) + t3 + t4 + f)
  BY <1>1, <1>2 DEF Net, TypeOK, TelemetryTypeOK, CounterNames
<1>. QED
  BY <1>3, <1>4

\* What they say after an upload of n documents ended, in whichever way: what
\* the service rejects is counted as sent, too.
LEMMA NetUploads ==
  ASSUME TypeOK, NEW w \in Worker, NEW n \in Nat, n = Len(inflight[w]), UNCHANGED dones,
         PollError(w) \/ \E resp \in Responses : PollSuccess(w, resp)
  PROVE  Net' = Net - n
<1>1. PICK t1 \in Nat, t2 \in Nat, t3 \in Nat, t4 \in Nat :
        t1 = T["received"] /\ t2 = T["spillover"] /\ t3 = T["sent"] /\ t4 = T["rejected"]
  BY DEF TypeOK, TelemetryTypeOK, CounterNames
<1>2. PICK d \in Nat, s \in Nat, f \in Nat : d = dones /\ s = serviceRejected /\ f = failed
  BY DEF TypeOK, UploadTypeOK, MainTypeOK
<1>3. Net = t1 + d + s - (t2 + t3 + t4 + f)
  BY <1>1, <1>2 DEF Net
<1>4. CASE PollError(w)
  <2>1. failed' = f + n /\ UNCHANGED <<T, serviceRejected>>
    BY <1>2, <1>4 DEF PollError
  <2>2. Net' = t1 + d + s - (t2 + t3 + t4 + (f + n))
    BY <1>1, <1>2, <2>1 DEF Net
  <2>. QED
    BY <1>3, <2>2
<1>5. ASSUME NEW resp \in Responses, PollSuccess(w, resp) PROVE Net' = Net - n
  <2>1. PICK m \in Nat : m = RejectedCount(resp)
    <3>1. DOMAIN resp = 1 .. Len(resp) /\ Len(resp) \in Int /\ 1 \in Int
      BY ResponsesAssumption
    <3>2. IsFiniteSet(DOMAIN resp)
      BY <3>1, FS_Interval
    <3>3. IsFiniteSet({i \in DOMAIN resp : \A j \in 1 .. i - 1 : resp[j] # "nil"})
      BY <3>2, FS_Subset
    <3>. QED
      BY <3>3, FS_CardinalityType DEF RejectedCount
  <2>2. /\ T' = [T EXCEPT !["sent"] = @ + n, !["rejected"] = @ + m]
        /\ serviceRejected' = s + m /\ UNCHANGED failed
    BY <1>2, <1>5, <2>1 DEF PollSuccess
  <2>3. Net' = t1 + d + (s + m) - (t2 + (t3 + n) + (t4 + m) + f)
    BY <1>1, <1>2, <2>2 DEF Net, TypeOK, TelemetryTypeOK, CounterNames
  <2>. QED
    BY <1>3, <2>3
<1>. QED
  BY <1>4, <1>5

\* A step that leaves the receivers alone and lets n segments end.
LEMMA PipelineMoves ==
  ASSUME DaemonInv, DaemonInv', DocumentsFinite, DocumentsFinite', TelemetryLedger,
         UNCHANGED rpc, NEW n \in Nat, Net' = Net - n,
         NEW a \in Int, Flow' = Flow + a, Uploads' = Uploads - a - n
  PROVE  TelemetryLedger'
<1>1. Hands' = Hands
  BY DEF Hands, At
<1>2. Net \in Int /\ Hands \in Nat /\ Flow \in Nat /\ Uploads \in Nat
  BY LedgerNumbers DEF DaemonInv
<1>3. -n \in Int /\ Net' = Net + (-n)
      /\ Hands' + Flow' + Uploads' = Hands + Flow + Uploads + (-n)
  BY <1>1, <1>2
<1>. QED
  BY <1>3, LedgerMoves

\* A step that leaves queues and counters alone.
LEMMA FrameTelemetry ==
  ASSUME DaemonInv, DaemonInv', DocumentsFinite, TelemetryLedger,
         UNCHANGED <<rpc, c, batch, batches, inflight, T, dones, failed, serviceRejected>>
  PROVE  TelemetryLedger' /\ DocumentsFinite'
<1>1. Net' = Net /\ Hands' = Hands /\ Flow' = Flow /\ Uploads' = Uploads /\ DocumentsFinite'
  BY NetStays DEF Hands, At, Flow, Uploads, DocumentsFinite
<1>. QED
  BY <1>1, TelemetryStays

\* What is in the queues and with the workers, as numbers.
LEMMA UploadNumbers ==
  ASSUME DaemonInv, DocumentsFinite
  PROVE  /\ batches \in Seq(Seq(Payload)) /\ inflight \in [Worker -> Seq(Payload)]
         /\ c \in Seq(TraceSegment) /\ batch \in Seq(TraceSegment) /\ docs \in Seq(Payload)
         /\ Len(c) \in Nat /\ Len(batch) \in Nat
         /\ Cardinality(Documents(batches)) \in Nat
         /\ Cardinality(Documents(inflight)) \in Nat
<1>1. /\ batches \in Seq(Seq(Payload)) /\ inflight \in [Worker -> Seq(Payload)]
      /\ c \in Seq(TraceSegment) /\ batch \in Seq(TraceSegment) /\ docs \in Seq(Payload)
  BY DEF DaemonInv, TypeOK, RingTypeOK, UploadTypeOK, ProcTypeOK
<1>2. Cardinality(Documents(batches)) \in Nat /\ Cardinality(Documents(inflight)) \in Nat
  BY FS_CardinalityType DEF DocumentsFinite
<1>. QED
  BY <1>1, <1>2

\* A processor's step.
LEMMA ProcTelemetry ==
  ASSUME DaemonInv, DaemonInv', DocumentsFinite, TelemetryLedger,
         ProcStep, UNCHANGED <<recvVars, mainVars>>
  PROVE  TelemetryLedger' /\ DocumentsFinite'
<1>1. /\ batches \in Seq(Seq(Payload)) /\ c \in Seq(TraceSegment) /\ batch \in Seq(TraceSegment)
      /\ docs \in Seq(Payload) /\ Len(c) \in Nat /\ Len(batch) \in Nat
      /\ Cardinality(Documents(batches)) \in Nat
      /\ Cardinality(Documents(inflight)) \in Nat
  BY UploadNumbers
<1>2. Net \in Int
  BY LedgerNumbers DEF DaemonInv
<1>3. UNCHANGED <<rpc, dones>>
  OBVIOUS
<1>4. CASE receiveTraceSegment
  <2>1. /\ UNCHANGED <<T, batches, inflight, failed, serviceRejected>>
        /\ c # << >> /\ c' = Tail(c) /\ batch' = Append(batch, Head(c))
    BY <1>4 DEF receiveTraceSegment, Receive
  <2>2. Len(c') = Len(c) - 1 /\ Len(batch') = Len(batch) + 1
    <3>1. Head(c) \in TraceSegment
      BY <1>1, <2>1
    <3>. QED
      BY <1>1, <2>1, <3>1
  <2>3. Flow' = Flow
    BY <1>1, <2>2 DEF Flow
  <2>4. DocumentsFinite' /\ Uploads' = Uploads /\ Net' = Net /\ Hands' = Hands
    BY <1>3, <2>1, NetStays DEF DocumentsFinite, Uploads, Hands, At
  <2>. QED
    BY <2>3, <2>4, TelemetryStays
<1>5. CASE SendBatch
  <2>1. /\ UNCHANGED <<T, c, inflight, failed, serviceRejected>>
        /\ batches' = Append(batches, docs) /\ batch' = << >> /\ Len(docs) = Len(batch)
    BY <1>5 DEF SendBatch, BatchEnqueue, DaemonInv, ProcessorInv
  <2>2. /\ IsFiniteSet(Documents(Append(batches, docs)))
        /\ Cardinality(Documents(Append(batches, docs)))
             = Cardinality(Documents(batches)) + Len(docs)
    BY <1>1, AppendDocuments DEF DocumentsFinite
  <2>3. DocumentsFinite'
    BY <2>1, <2>2 DEF DocumentsFinite
  <2>4. Cardinality(Documents(batches')) = Cardinality(Documents(batches)) + Len(batch)
    BY <2>1, <2>2
  <2>5. Flow' = Flow - Len(batch)
    <3>1. Len(batch') = 0
      BY <2>1
    <3>. QED
      BY <1>1, <2>1, <3>1 DEF Flow
  <2>6. Uploads' = Uploads + Len(batch)
    BY <1>1, <2>1, <2>4 DEF Uploads
  <2>7. Net' = Net
    BY <1>3, <2>1, NetStays
  <2>8. /\ -Len(batch) \in Int /\ Flow' = Flow + (-Len(batch)) /\ 0 \in Nat /\ Net' = Net - 0
        /\ Uploads' = Uploads - (-Len(batch)) - 0
    <3>1. Flow \in Nat /\ Uploads \in Nat
      BY LedgerNumbers DEF DaemonInv
    <3>. QED
      BY <1>1, <1>2, <2>5, <2>6, <2>7, <3>1
  <2>. QED
    BY <1>3, <2>3, <2>8, PipelineMoves
<1>6. CASE TruncateOldest /\ BatchTruncate
  <2>1. /\ UNCHANGED <<c, batch, inflight, failed, serviceRejected>>
        /\ batches # << >> /\ batches' = Tail(batches)
        /\ T' = [T EXCEPT !["spillover"] = @ + Len(Head(batches))]
    BY <1>6 DEF TruncateOldest, BatchTruncate, SegmentSpillover, Counted
  <2>2. /\ IsFiniteSet(Documents(Tail(batches)))
        /\ Cardinality(Documents(Tail(batches)))
             = Cardinality(Documents(batches)) - Len(Head(batches))
        /\ Len(Head(batches)) \in Nat
    BY <1>1, <2>1, TailDocuments DEF DocumentsFinite
  <2>3. PICK n \in Nat : n = Len(Head(batches))
    BY <2>2
  <2>4. DocumentsFinite'
    BY <2>1, <2>2 DEF DocumentsFinite
  <2>5. Uploads' = Uploads - n /\ Flow' = Flow
    <3>1. Cardinality(Documents(batches')) = Cardinality(Documents(batches)) - n
      BY <2>1, <2>2, <2>3
    <3>. QED
      BY <1>1, <2>1, <3>1 DEF Uploads, Flow
  <2>6. Net' = Net - n
    BY <1>3, <2>1, <2>3, NetSpills DEF DaemonInv
  <2>7. 0 \in Int /\ Flow' = Flow + 0 /\ Uploads' = Uploads - 0 - n
    <3>1. Flow \in Nat /\ Uploads \in Nat
      BY LedgerNumbers DEF DaemonInv
    <3>. QED
      BY <2>5, <3>1
  <2>. QED
    BY <1>3, <2>4, <2>6, <2>7, PipelineMoves
<1>7. CASE /\ ~receiveTraceSegment /\ ~SendBatch
           /\ ~(TruncateOldest /\ BatchTruncate)
  <2>1. UNCHANGED <<c, batch, batches, inflight, T, failed, serviceRejected>>
    BY <1>7 DEF ProcStep, CheckPool, ChannelClosed, ReceiveClosed, IdlePartial, IdleEmpty,
                CopySegment, ReturnBuffer, QueueFull, BatchFull, TruncateOldest, BatchDequeued,
                CloseBatches, BatchClose, WaitWorker, WorkerDone
  <2>. QED
    BY <1>3, <2>1, FrameTelemetry
<1>. QED
  BY <1>4, <1>5, <1>6, <1>7

\* A worker's step.
LEMMA UploadTelemetry ==
  ASSUME DaemonInv, DaemonInv', DocumentsFinite, TelemetryLedger,
         NEW w \in Worker, UploadStep(w), UNCHANGED <<recvVars, mainVars>>
  PROVE  TelemetryLedger' /\ DocumentsFinite'
<1>1. /\ batches \in Seq(Seq(Payload)) /\ inflight \in [Worker -> Seq(Payload)]
      /\ Cardinality(Documents(batches)) \in Nat
      /\ Cardinality(Documents(inflight)) \in Nat
  BY UploadNumbers
<1>2. Net \in Int /\ Flow \in Nat /\ Uploads \in Nat
  BY LedgerNumbers DEF DaemonInv
<1>3. UNCHANGED <<rpc, dones, c, batch>> /\ WorkerStep(w)
  BY DEF UploadStep
<1>4. Flow' = Flow
  BY <1>3 DEF Flow
<1>5. << >> \in Seq(Payload) /\ Len(<< >>) = 0
  OBVIOUS
<1>6. CASE PollReceive(w)
  <2>1. /\ UNCHANGED <<T, failed, serviceRejected>>
        /\ batches # << >> /\ batches' = Tail(batches)
        /\ inflight' = [inflight EXCEPT ![w] = Head(batches)]
        /\ inflight[w] = << >>
    BY <1>6 DEF PollReceive, DaemonInv, WorkerInv
  <2>2. /\ IsFiniteSet(Documents(Tail(batches)))
        /\ Cardinality(Documents(Tail(batches)))
             = Cardinality(Documents(batches)) - Len(Head(batches))
        /\ Head(batches) \in Seq(Payload) /\ Len(Head(batches)) \in Nat
    BY <1>1, <2>1, TailDocuments DEF DocumentsFinite
  <2>3. /\ IsFiniteSet(Documents(inflight'))
        /\ Cardinality(Documents(inflight'))
             = Cardinality(Documents(inflight)) - Len(inflight[w]) + Len(Head(batches))
    <3>1. /\ inflight' \in [Worker -> Seq(Payload)] /\ inflight'[w] = Head(batches)
          /\ \A v \in Worker \ {w} : inflight'[v] = inflight[v]
      BY <1>1, <2>1, <2>2
    <3>2. IsFiniteSet(Documents(inflight))
      BY DEF DocumentsFinite
    <3>. QED
      BY <1>1, <3>1, <3>2, WorkerDocuments
  <2>4. DocumentsFinite'
    BY <2>1, <2>2, <2>3 DEF DocumentsFinite
  <2>5. Uploads' = Uploads
    <3>1. PICK n \in Nat : n = Len(Head(batches))
      BY <2>2
    <3>2. /\ Cardinality(Documents(batches')) = Cardinality(Documents(batches)) - n
          /\ Cardinality(Documents(inflight')) = Cardinality(Documents(inflight)) - 0 + n
      BY <1>5, <2>1, <2>2, <2>3, <3>1
    <3>. QED
      BY <1>1, <3>2 DEF Uploads
  <2>6. Net' = Net /\ Hands' = Hands
    BY <1>3, <2>1, NetStays DEF Hands, At
  <2>. QED
    BY <1>4, <2>4, <2>5, <2>6, TelemetryStays
<1>7. CASE PollError(w) \/ \E resp \in Responses : PollSuccess(w, resp)
  <2>1. UNCHANGED batches /\ inflight' = [inflight EXCEPT ![w] = << >>]
    BY <1>7 DEF PollError, PollSuccess
  <2>2. PICK n \in Nat : n = Len(inflight[w])
    BY <1>1
  <2>3. /\ IsFiniteSet(Documents(inflight'))
        /\ Cardinality(Documents(inflight'))
             = Cardinality(Documents(inflight)) - Len(inflight[w]) + Len(<< >>)
    <3>1. /\ inflight' \in [Worker -> Seq(Payload)] /\ inflight'[w] = << >>
          /\ \A v \in Worker \ {w} : inflight'[v] = inflight[v]
      BY <1>1, <1>5, <2>1
    <3>2. IsFiniteSet(Documents(inflight))
      BY DEF DocumentsFinite
    <3>. QED
      BY <1>1, <3>1, <3>2, WorkerDocuments
  <2>4. DocumentsFinite'
    BY <2>1, <2>3 DEF DocumentsFinite
  <2>5. Uploads' = Uploads - 0 - n /\ 0 \in Int /\ Flow' = Flow + 0
    <3>1. Cardinality(Documents(inflight')) = Cardinality(Documents(inflight)) - n + 0
      BY <1>5, <2>2, <2>3
    <3>. QED
      BY <1>1, <1>2, <1>4, <2>1, <3>1 DEF Uploads
  <2>6. Net' = Net - n
    BY <1>3, <1>7, <2>2, NetUploads DEF DaemonInv
  <2>. QED
    BY <1>3, <2>4, <2>5, <2>6, PipelineMoves
<1>8. CASE PollClosed(w)
  BY <1>3, <1>8, FrameTelemetry DEF PollClosed
<1>. QED
  BY <1>3, <1>6, <1>7, <1>8 DEF WorkerStep

\* At the start nothing is counted and nothing is on its way.
LEMMA TelemetryStart == ASSUME Init PROVE TelemetryLedger /\ DocumentsFinite
<1>1. /\ T = [k \in CounterNames |-> 0] /\ dones = 0 /\ serviceRejected = 0 /\ failed = 0
      /\ c = << >> /\ batch = << >> /\ batches = << >>
      /\ inflight = [w \in Worker |-> << >>] /\ rpc = [r \in Sender |-> "get"]
  BY DEF Init, TelemetryInit, EmptyTelemetryRecord, RingInit, BatchInit, ProcInit
<1>2. Documents(batches) = {} /\ Documents(inflight) = {}
  <2>1. \A x : x \notin Documents(batches) /\ x \notin Documents(inflight)
    BY <1>1, DocumentAt
  <2>. QED
    BY <2>1
<1>3. At({"send", "reject"}) = 0 /\ At({"exit"}) = 0
  <2>1. {r \in Sender : rpc[r] \in {"send", "reject"}} = {} /\ {r \in Sender : rpc[r] \in {"exit"}} = {}
    BY <1>1
  <2>. QED
    BY <2>1, FS_EmptySet DEF At
<1>4. Cardinality({}) = 0 /\ IsFiniteSet({}) /\ Len(<< >>) = 0
  BY FS_EmptySet
<1>5. DocumentsFinite
  BY <1>2, <1>4 DEF DocumentsFinite
<1>6. InPipeline = 0 /\ Echoes = 0
  <2>1. /\ Len(c) = 0 /\ Len(batch) = 0 /\ Cardinality(Documents(batches)) = 0
        /\ Cardinality(Documents(inflight)) = 0
    BY <1>1, <1>2, <1>4, Zenon
  <2>. QED
    BY <1>1, <1>3, <2>1 DEF InPipeline, Echoes
<1>7. \A k \in CounterNames : T[k] = 0
  BY <1>1
<1>. QED
  BY <1>1, <1>5, <1>6, <1>7 DEF TelemetryLedger, CounterNames

\* Every step of the goroutines keeps the balance.
LEMMA TelemetryStep ==
  ASSUME DaemonInv, DaemonInv', DocumentsFinite, TelemetryLedger, AnyStep
  PROVE  TelemetryLedger' /\ DocumentsFinite'
<1>1. CASE \E r \in Sender : Receiver(r)
  BY <1>1, ReceiverTelemetry
<1>2. CASE ProcStep /\ UNCHANGED <<recvVars, mainVars>>
  BY <1>2, ProcTelemetry
<1>3. CASE \E w \in Worker : UploadStep(w) /\ UNCHANGED <<recvVars, mainVars>>
  BY <1>3, UploadTelemetry
<1>4. CASE Stop \/ CloseStep \/ PushData
  <2>1. UNCHANGED <<rpc, c, batch, batches, inflight, T, dones, failed, serviceRejected>>
    BY <1>4 DEF Stop, CloseStep, CloseStd, Close, CloseQuit, WaitProcessor, WaitTelemetry, PushData
  <2>. QED
    BY <2>1, FrameTelemetry
<1>5. CASE UNCHANGED vars
  BY <1>5, FrameTelemetry DEF vars
<1>. QED
  BY <1>1, <1>2, <1>3, <1>4, <1>5 DEF AnyStep

\* Telemetry accounts for every datagram, with any number of receivers, workers
\* and datagrams: what it counts as received is on its way, or counted as sent,
\* as spillover or as rejected, or lost with a failed upload.
THEOREM TelemetryLedgerKept == Spec => []TelemetryLedger
<1>1. DaemonInv /\ DaemonInv' /\ DocumentsFinite /\ TelemetryLedger /\ [Next]_vars
        => TelemetryLedger' /\ DocumentsFinite'
  BY NextIsAnyStep, TelemetryStep
<1>. QED
  BY <1>1, TelemetryStart, Invariance, PTL DEF Spec

-----------------------------------------------------------------------------
(* The answers that close() counts *)

\* Main leaves its loop with as many answers as there are receivers, and every
\* receiver that has returned gave one of them.
AnswerInv ==
  /\ At({"exit"}) <= dones
  /\ dones <= Cardinality(Sender)
  /\ mpc = "await" <=> dones < Cardinality(Sender)
  /\ closed <=> mpc \notin {"await", "closeStd"}
  /\ panic => At({"exit"}) < dones

\* The numbers of answers and receivers.
LEMMA AnswerNumbers ==
  ASSUME TypeOK
  PROVE  /\ dones \in Nat /\ Cardinality(Sender) \in Nat /\ At({"exit"}) \in Nat
         /\ At({"exit"}) <= Cardinality(Sender)
         /\ At({"exit"}) = Cardinality(Sender) => \A r \in Sender : rpc[r] = "exit"
<1>. DEFINE E == {r \in Sender : rpc[r] \in {"exit"}}
<1>1. /\ IsFiniteSet(E) /\ Cardinality(E) <= Cardinality(Sender)
      /\ Cardinality(Sender) = Cardinality(E) => Sender = E
  BY SenderAssumption, FS_Subset
<1>2. Cardinality(E) \in Nat /\ Cardinality(Sender) \in Nat /\ At({"exit"}) = Cardinality(E)
  BY <1>1, SenderAssumption, FS_CardinalityType DEF At
<1>3. dones \in Nat
  BY DEF TypeOK, MainTypeOK
<1>. QED
  BY <1>1, <1>2, <1>3

\* A step that neither answers nor closes.
LEMMA FrameAnswer ==
  ASSUME AnswerInv, UNCHANGED <<dones, mpc, closed, panic>>, At({"exit"})' = At({"exit"})
  PROVE  AnswerInv'
BY DEF AnswerInv

\* A receiver answers, panics, or does neither.
LEMMA ReceiverAnswer ==
  ASSUME DaemonInv, AnswerInv, NEW r \in Sender, Receiver(r)
  PROVE  AnswerInv'
<1>1. /\ dones \in Nat /\ Cardinality(Sender) \in Nat /\ At({"exit"}) \in Nat
      /\ At({"exit"}) <= Cardinality(Sender)
      /\ At({"exit"}) = Cardinality(Sender) => \A s \in Sender : rpc[s] = "exit"
  BY AnswerNumbers DEF DaemonInv
<1>2. TypeOK
  BY DEF DaemonInv
<1>3. CASE PollDone(r)
  <2>1. /\ mpc = "await" /\ dones' = dones + 1 /\ rpc[r] = "done"
        /\ mpc' = IF dones + 1 = Cardinality(Sender) THEN "closeStd" ELSE "await"
        /\ UNCHANGED <<closed, panic>>
    BY <1>3 DEF PollDone, AwaitDone
  <2>2. At({"exit"})' = At({"exit"}) \/ At({"exit"})' = At({"exit"}) + 1
    <3>1. PICK x \in {"exit", "get"} : rpc' = [rpc EXCEPT ![r] = x]
      BY <1>3 DEF PollDone, NextLoop
    <3>2. /\ At({"exit"})' = At({"exit"}) + (IF x \in {"exit"} THEN 1 ELSE 0)
                                - (IF rpc[r] \in {"exit"} THEN 1 ELSE 0)
          /\ At({"exit"}) \in Nat
      BY <1>2, <3>1, AtMoves
    <3>3. ~(rpc[r] \in {"exit"})
      BY <2>1
    <3>. QED
      BY <3>2, <3>3
  <2>3. PICK a \in Nat, b \in Nat, n \in Nat :
          /\ a = At({"exit"}) /\ b = At({"exit"})' /\ n = Cardinality(Sender)
          /\ b = a \/ b = a + 1
    BY <1>1, <2>2
  <2>4. /\ a <= dones /\ dones <= n /\ dones < n
        /\ closed <=> mpc \notin {"await", "closeStd"}
        /\ panic => a < dones
    BY <2>1, <2>3 DEF AnswerInv
  <2>5. /\ b <= dones' /\ dones' <= n /\ (panic' => b < dones')
        /\ mpc' = "await" <=> dones' < n
        /\ closed' <=> mpc' \notin {"await", "closeStd"}
    BY <1>1, <2>1, <2>3, <2>4
  <2>. QED
    BY <2>3, <2>5 DEF AnswerInv
<1>4. CASE PollSend(r) /\ SendRetry(r)
  <2>1. rpc[r] = "send" /\ UNCHANGED <<rpc, dones, mpc>>
    BY <1>4, RetryPanics DEF PollSend, SendEnqueue, SendPanic
  <2>2. closed /\ panic' = TRUE /\ UNCHANGED closed
    BY <1>4, <2>1, RetryPanics DEF SendPanic
  <2>3. At({"exit"})' = At({"exit"})
    BY <2>1 DEF At
  <2>4. At({"exit"}) # Cardinality(Sender)
    BY <1>1, <2>1
  <2>5. mpc # "await" /\ dones = Cardinality(Sender)
    BY <1>1, <2>2 DEF AnswerInv
  <2>6. At({"exit"}) < dones
    BY <1>1, <2>4, <2>5
  <2>. QED
    BY <2>1, <2>2, <2>3, <2>6 DEF AnswerInv
<1>5. CASE ~PollDone(r) /\ ~(PollSend(r) /\ SendRetry(r))
  <2>1. UNCHANGED <<dones, mpc, closed, panic>>
    BY <1>5 DEF Receiver, PollGet, ReadDatagram, CountSegment, CountInvalid, CountFallback, ReadNothing,
                ReadError, PollRelease, PollReject, PollSend, SendCall, SendEnqueue
  <2>2. /\ rpc[r] # "exit"
        /\ \E x \in {"get", "read", "count", "release", "reject", "send", "done"} : rpc' = [rpc EXCEPT ![r] = x]
    BY <1>5 DEF Receiver, PollGet, ReadDatagram, CountSegment, CountInvalid, CountFallback, ReadNothing,
                ReadError, PollRelease, PollReject, PollSend, NextLoop
  <2>3. PICK x \in {"get", "read", "count", "release", "reject", "send", "done"} : rpc' = [rpc EXCEPT ![r] = x]
    BY <2>2
  <2>4. At({"exit"})' = At({"exit"}) + (IF x \in {"exit"} THEN 1 ELSE 0)
                           - (IF rpc[r] \in {"exit"} THEN 1 ELSE 0)
    BY <1>2, <2>3, AtMoves
  <2>5. ~(x \in {"exit"}) /\ ~(rpc[r] \in {"exit"})
    BY <2>2
  <2>6. At({"exit"})' = At({"exit"})
    BY <1>1, <2>4, <2>5
  <2>. QED
    BY <2>1, <2>6, FrameAnswer
<1>. QED
  BY <1>3, <1>4, <1>5

\* Main closes the ring buffer once, after the last answer.
LEMMA MainAnswer ==
  ASSUME DaemonInv, AnswerInv, Stop \/ CloseStep \/ PushData
  PROVE  AnswerInv'
<1>1. UNCHANGED <<rpc, dones>>
  BY DEF Stop, CloseStep, CloseStd, CloseQuit, WaitProcessor, WaitTelemetry, PushData
<1>2. At({"exit"})' = At({"exit"})
  BY <1>1 DEF At
<1>3. CASE CloseStd
  <2>1. mpc = "closeStd" /\ mpc' = "quit" /\ closed' = TRUE /\ panic' = (panic \/ closed)
    BY <1>3 DEF CloseStd, Close
  <2>2. ~closed
    BY <2>1 DEF AnswerInv
  <2>. QED
    BY <1>1, <1>2, <2>1, <2>2 DEF AnswerInv
<1>4. CASE ~CloseStd
  <2>1. /\ UNCHANGED <<closed, panic>>
        /\ mpc' = mpc \/ {mpc, mpc'} \subseteq {"quit", "waitProc", "waitTel", "exit"}
    BY <1>4 DEF Stop, CloseStep, CloseQuit, WaitProcessor, WaitTelemetry, PushData
  <2>. QED
    BY <1>1, <1>2, <2>1 DEF AnswerInv
<1>. QED
  BY <1>3, <1>4

\* Neither processor nor workers answer.
LEMMA OthersAnswer ==
  ASSUME AnswerInv, UNCHANGED <<recvVars, mainVars>>,
         ProcStep \/ \E w \in Worker : UploadStep(w)
  PROVE  AnswerInv'
<1>1. UNCHANGED <<rpc, dones, mpc, closed, panic>>
  BY DEF ProcStep, receiveTraceSegment, Receive, CheckPool, ChannelClosed, ReceiveClosed, IdlePartial,
         IdleEmpty, CopySegment, ReturnBuffer, SendBatch, QueueFull, TruncateOldest, CloseBatches,
         WaitWorker, UploadStep
<1>2. At({"exit"})' = At({"exit"})
  BY <1>1 DEF At
<1>. QED
  BY <1>1, <1>2, FrameAnswer

\* At the start nobody has answered.
LEMMA AnswerInit == ASSUME Init PROVE AnswerInv
<1>1. {r \in Sender : rpc[r] \in {"exit"}} = {} /\ dones = 0 /\ mpc = "await" /\ ~closed /\ ~panic
  BY DEF Init, RingInit
<1>2. At({"exit"}) = 0
  BY <1>1, FS_EmptySet DEF At
<1>3. Cardinality(Sender) \in Nat /\ Cardinality(Sender) # 0
  BY SenderAssumption, FS_CardinalityType, FS_EmptySet
<1>. QED
  BY <1>1, <1>2, <1>3 DEF AnswerInv

\* What the answers say about a panic.
LEMMA AnswersPanic == ASSUME DaemonInv, AnswerInv PROVE OnlyEchoesPanic
<1>. SUFFICES ASSUME Echoes = 0 PROVE ~panic /\ (closed => \A r \in Sender : rpc[r] = "exit")
  BY DEF OnlyEchoesPanic
<1>1. /\ dones \in Nat /\ Cardinality(Sender) \in Nat /\ At({"exit"}) \in Nat
      /\ At({"exit"}) = Cardinality(Sender) => \A r \in Sender : rpc[r] = "exit"
  BY AnswerNumbers DEF DaemonInv
<1>2. At({"exit"}) = dones
  BY <1>1 DEF Echoes
<1>3. ~panic
  BY <1>1, <1>2 DEF AnswerInv
<1>4. closed => dones = Cardinality(Sender)
  BY <1>1 DEF AnswerInv
<1>. QED
  BY <1>1, <1>2, <1>3, <1>4

\* Every step of the goroutines keeps the answers in step with the receivers.
LEMMA AnswerStep ==
  ASSUME DaemonInv, AnswerInv, AnyStep
  PROVE  AnswerInv'
<1>1. CASE \E r \in Sender : Receiver(r)
  BY <1>1, ReceiverAnswer
<1>2. CASE UNCHANGED <<recvVars, mainVars>> /\ (ProcStep \/ \E w \in Worker : UploadStep(w))
  BY <1>2, OthersAnswer
<1>3. CASE Stop \/ CloseStep \/ PushData
  BY <1>3, MainAnswer
<1>4. CASE UNCHANGED vars
  <2>1. UNCHANGED <<dones, mpc, closed, panic>> /\ At({"exit"})' = At({"exit"})
    BY <1>4 DEF vars, At
  <2>. QED
    BY <2>1, FrameAnswer
<1>. QED
  BY <1>1, <1>2, <1>3, <1>4 DEF AnyStep

\* Shutdown panics, or closes the ring buffer under a receiver, only if a
\* receiver answered with its fallback buffer, for any number of receivers,
\* whenever the signal comes and whichever reads fail.
THEOREM EchoTheorem == Spec => []OnlyEchoesPanic
<1>1. DaemonInv /\ AnswerInv /\ [Next]_vars => AnswerInv'
  BY NextIsAnyStep, AnswerStep
<1>. QED
  BY <1>1, AnswerInit, AnswersPanic, Invariance, PTL DEF Spec

-----------------------------------------------------------------------------
(* Quit comes after the last received segment *)

\* A receiver's step counts a received segment only when it stands behind a read.
LEMMA ReceiverCounts ==
  ASSUME DaemonInv, NEW r \in Sender, Receiver(r), T'["received"] # T["received"]
  PROVE  rpc[r] = "count"
<1>1. T \in [CounterNames -> Nat]
  BY DEF DaemonInv, TypeOK, TelemetryTypeOK
<1>2. CASE CountSegment(r) \/ CountInvalid(r) \/ CountFallback(r)
  BY <1>2 DEF CountSegment, CountInvalid, CountFallback
<1>3. CASE PollDone(r)
  BY <1>1, <1>3 DEF PollDone, SegmentSpillover, Counted, CounterNames
<1>4. CASE PollReject(r)
  BY <1>1, <1>4 DEF PollReject, SegmentRejected, Counted, CounterNames
<1>5. CASE PollSend(r) /\ SendDrop(r)
  BY <1>1, <1>5 DEF SendDrop, SegmentSpillover, Counted, CounterNames
<1>6. CASE PollGet(r) \/ ReadDatagram(r) \/ ReadNothing(r) \/ ReadError(r) \/ PollRelease(r)
             \/ (PollSend(r) /\ ~SendDrop(r))
  BY <1>6 DEF PollGet, ReadDatagram, ReadNothing, ReadError, PollRelease, PollSend, SendEnqueue,
              SendRetry, SendPanic, SendFull, SendTruncate, SendDequeued
<1>. QED
  BY <1>2, <1>3, <1>4, <1>5, <1>6 DEF Receiver

\* No other goroutine counts a received segment.
LEMMA OthersCountNone ==
  ASSUME DaemonInv, [Next]_vars, ~\E r \in Sender : Receiver(r)
  PROVE  T'["received"] = T["received"]
<1>1. T \in [CounterNames -> Nat]
  BY DEF DaemonInv, TypeOK, TelemetryTypeOK
<1>2. CASE ProcStep /\ UNCHANGED <<recvVars, mainVars>>
  <2>2. CASE TruncateOldest
    BY <1>1, <2>2 DEF TruncateOldest, BatchTruncate, BatchDequeued, SegmentSpillover, Counted,
                      CounterNames
  <2>3. CASE ~TruncateOldest
    BY <1>2, <2>3 DEF ProcStep, receiveTraceSegment, CheckPool, ChannelClosed, IdlePartial, IdleEmpty,
                CopySegment, ReturnBuffer, SendBatch, BatchEnqueue, QueueFull, BatchFull,
                CloseBatches, WaitWorker
  <2>. QED
    BY <2>2, <2>3
<1>3. ASSUME NEW w \in Worker, UploadStep(w) /\ UNCHANGED <<recvVars, mainVars>>
      PROVE  T'["received"] = T["received"]
  <2>2. CASE \E resp \in Responses : PollSuccess(w, resp)
    BY <1>1, <2>2 DEF PollSuccess, CounterNames
  <2>3. CASE PollReceive(w) \/ PollError(w) \/ PollClosed(w)
    BY <2>3 DEF PollReceive, PollError, PollClosed
  <2>. QED
    BY <1>3, <2>2, <2>3 DEF UploadStep, WorkerStep
<1>4. CASE Stop \/ CloseStep \/ PushData
  BY <1>4 DEF Stop, CloseStep, CloseStd, CloseQuit, WaitProcessor, WaitTelemetry, PushData
<1>5. CASE UNCHANGED vars
  BY <1>5 DEF vars
<1>. QED
  BY <1>2, <1>3, <1>4, <1>5 DEF Next, Terminated

\* A receiver that has not returned, and for which no other answered, keeps main
\* in its wait.
LEMMA WaitsForAll ==
  ASSUME DaemonInv, AnswerInv, NEW r \in Sender, rpc[r] # "exit"
  PROVE  mpc = "await" \/ Echoes > 0
<1>1. /\ dones \in Nat /\ Cardinality(Sender) \in Nat /\ At({"exit"}) \in Nat
      /\ At({"exit"}) <= Cardinality(Sender)
      /\ At({"exit"}) = Cardinality(Sender) => \A s \in Sender : rpc[s] = "exit"
  BY AnswerNumbers DEF DaemonInv
<1>2. At({"exit"}) < Cardinality(Sender)
  BY <1>1
<1>3. CASE mpc # "await"
  <2>1. dones = Cardinality(Sender)
    BY <1>1, <1>3 DEF AnswerInv
  <2>. QED
    BY <1>1, <1>2, <2>1 DEF Echoes
<1>. QED
  BY <1>3

\* Once close() has gone past the receivers no segment is counted as received,
\* unless a receiver answered for another, for any number of receivers, wherever
\* in poll() the signal or a permanent error of the socket finds them.
THEOREM QuitTheorem == Spec => ReceivedBeforeQuit
<1>1. DaemonInv /\ AnswerInv /\ [Next]_vars
        => AnswerInv' /\ [T'["received"] # T["received"] => mpc = "await" \/ Echoes > 0]_vars
  <2>. SUFFICES ASSUME DaemonInv, AnswerInv, [Next]_vars
                PROVE  AnswerInv' /\ (T'["received"] # T["received"] => mpc = "await" \/ Echoes > 0)
    OBVIOUS
  <2>1. CASE \E r \in Sender : Receiver(r)
    <3>1. PICK r \in Sender : Receiver(r)
      BY <2>1
    <3>2. ASSUME T'["received"] # T["received"] PROVE mpc = "await" \/ Echoes > 0
      <4>1. rpc[r] = "count"
        BY <3>1, <3>2, ReceiverCounts
      <4>. QED
        BY <4>1, WaitsForAll
    <3>. QED
      BY <3>2, NextIsAnyStep, AnswerStep
  <2>2. CASE ~\E r \in Sender : Receiver(r)
    BY <2>2, OthersCountNone, NextIsAnyStep, AnswerStep
  <2>. QED
    BY <2>1, <2>2
<1>. QED
  BY <1>1, AnswerInit, Invariance, PTL DEF Spec, ReceivedBeforeQuit

-----------------------------------------------------------------------------
(* The relay *)

\* The receivers that hold a datagram nothing is decided about.
Holding == {r \in Sender : rpc[r] \in {"count", "send"} /\ rbuf[r] # nil}

\* They hold datagrams that have arrived, and no two of them the same one.
ArrivalInv ==
  /\ \A r \in Holding : mem[rbuf[r]] \in 1 .. arrived
  /\ \A r, s \in Holding : mem[rbuf[r]] = mem[rbuf[s]] => r = s

Undecided == {mem[rbuf[r]] : r \in Holding}

\* What waits is what the segments of batch and ring buffer were made from.
Raws ==
  [i \in 1 .. Len(batch) + Len(c) |->
     IF i <= Len(batch) THEN batch[i].Raw ELSE c[i - Len(batch)].Raw]

\* The processor has copied no more than there is.
LEMMA DocsWithin ==
  ASSUME DaemonInv
  PROVE  Len(docs) \in 0 .. Len(batch) /\ Len(batch) \in Nat /\ Len(c) \in Nat
<1>1. Len(docs) \in Nat /\ Len(batch) \in Nat /\ Len(c) \in Nat
  BY DEF DaemonInv, TypeOK, ProcTypeOK, RingTypeOK
<1>2. Len(<< >>) = 0
  OBVIOUS
<1>3. Len(docs) <= Len(batch)
  BY <1>1, <1>2 DEF DaemonInv, TypeOK, ProcTypeOK, ProcessorInv
<1>. QED
  BY <1>1, <1>3

\* Payloads being intact, reading through the buffers gives the datagrams.
LEMMA WaitingIsRaws == DaemonInv => Waiting = Raws
<1>. SUFFICES ASSUME DaemonInv PROVE Waiting = Raws
  OBVIOUS
<1>1. Len(docs) \in 0 .. Len(batch) /\ Len(batch) \in Nat /\ Len(c) \in Nat
  BY DocsWithin
<1>2. batch \in Seq(TraceSegment) /\ c \in Seq(TraceSegment)
  BY DEF DaemonInv, TypeOK, ProcTypeOK, RingTypeOK
<1>3. DOMAIN batch = 1 .. Len(batch) /\ DOMAIN c = 1 .. Len(c)
  BY <1>2
<1>4. ASSUME NEW i \in 1 .. Len(batch) + Len(c)
      PROVE  (IF i <= Len(docs) THEN docs[i]
              ELSE IF i <= Len(batch) THEN mem[batch[i].PoolBuf]
              ELSE mem[c[i - Len(batch)].PoolBuf])
             = IF i <= Len(batch) THEN batch[i].Raw ELSE c[i - Len(batch)].Raw
  <2>1. CASE i <= Len(batch)
    <3>1. i \in DOMAIN batch
      BY <1>1, <1>3, <2>1
    <3>2. IF i <= Len(docs) THEN docs[i] = batch[i].Raw
                            ELSE mem[batch[i].PoolBuf] = batch[i].Raw
      BY <3>1 DEF DaemonInv, PayloadIntact
    <3>. QED
      BY <2>1, <3>2
  <2>2. CASE ~(i <= Len(batch))
    <3>1. i - Len(batch) \in DOMAIN c /\ ~(i <= Len(docs))
      BY <1>1, <1>3, <2>2
    <3>2. mem[c[i - Len(batch)].PoolBuf] = c[i - Len(batch)].Raw
      BY <3>1 DEF DaemonInv, PayloadIntact
    <3>. QED
      BY <2>2, <3>1, <3>2
  <2>. QED
    BY <2>1, <2>2
<1>. QED
  BY <1>4 DEF Waiting, Raws

\* The same after a step.
LEMMA WaitingIsRawsNext == DaemonInv' => Waiting' = Raws'
<1>1. (DaemonInv => Waiting = Raws)'
  BY WaitingIsRaws, PTL
<1>. QED
  BY <1>1

\* A step that leaves batch and ring buffer alone leaves alone what waits.
LEMMA WaitingStays ==
  ASSUME DaemonInv, DaemonInv', UNCHANGED <<batch, c>>
  PROVE  Waiting' = Waiting
<1>1. Raws' = Raws
  BY DEF Raws
<1>. QED
  BY <1>1, WaitingIsRaws, WaitingIsRawsNext

\* What waits is a sequence of datagrams.
LEMMA RawsType ==
  ASSUME DaemonInv
  PROVE  Raws \in Seq(Payload) /\ Len(Raws) = Len(batch) + Len(c)
<1>1. Len(batch) \in Nat /\ Len(c) \in Nat /\ Len(batch) + Len(c) \in Nat
  BY DocsWithin
<1>2. batch \in Seq(TraceSegment) /\ c \in Seq(TraceSegment)
  BY DEF DaemonInv, TypeOK, ProcTypeOK, RingTypeOK
<1>3. ASSUME NEW i \in 1 .. Len(batch) + Len(c)
      PROVE  (IF i <= Len(batch) THEN batch[i].Raw ELSE c[i - Len(batch)].Raw) \in Payload
  <2>1. CASE i <= Len(batch)
    <3>1. i \in DOMAIN batch
      BY <1>1, <1>2, <2>1
    <3>. QED
      BY <1>2, <2>1, <3>1, ElementOfSegments
  <2>2. CASE ~(i <= Len(batch))
    <3>1. i - Len(batch) \in DOMAIN c
      BY <1>1, <1>2, <2>2
    <3>. QED
      BY <1>2, <2>2, <3>1, ElementOfSegments
  <2>. QED
    BY <2>1, <2>2
<1>4. Raws \in [1 .. Len(batch) + Len(c) -> Payload]
  BY <1>3 DEF Raws
<1>. QED
  BY <1>1, <1>4

\* A segment that enters the ring buffer waits behind all others.
LEMMA WaitingAppend ==
  ASSUME DaemonInv, DaemonInv', UNCHANGED batch,
         NEW seg \in TraceSegment, c' = Append(c, seg)
  PROVE  Waiting' = Append(Waiting, seg.Raw)
<1>1. c \in Seq(TraceSegment) /\ Len(batch) \in Nat /\ Len(c) \in Nat /\ seg.Raw \in Payload
  BY DocsWithin DEF DaemonInv, TypeOK, RingTypeOK, TraceSegment
<1>2. Len(c') = Len(c) + 1 /\ c'[Len(c) + 1] = seg /\ \A i \in 1 .. Len(c) : c'[i] = c[i]
  BY <1>1
<1>. DEFINE n == Len(batch) + Len(c)
<1>3. Raws \in Seq(Payload) /\ Len(Raws) = n /\ n \in Nat
  BY <1>1, RawsType
<1>4. Append(Raws, seg.Raw) = [i \in 1 .. n + 1 |-> IF i = n + 1 THEN seg.Raw ELSE Raws[i]]
  BY <1>1, <1>3
<1>5. Raws' = [i \in 1 .. n + 1 |->
                 IF i <= Len(batch) THEN batch[i].Raw ELSE c'[i - Len(batch)].Raw]
  <2>1. Len(batch') + Len(c') = n + 1 /\ batch' = batch
    BY <1>1, <1>2
  <2>. QED
    BY <2>1 DEF Raws
<1>6. ASSUME NEW i \in 1 .. n + 1
      PROVE  (IF i <= Len(batch) THEN batch[i].Raw ELSE c'[i - Len(batch)].Raw)
             = IF i = n + 1 THEN seg.Raw ELSE Raws[i]
  <2>1. CASE i = n + 1
    <3>1. ~(i <= Len(batch)) /\ i - Len(batch) = Len(c) + 1
      BY <1>1, <2>1
    <3>. QED
      BY <1>2, <2>1, <3>1
  <2>2. CASE i # n + 1
    <3>1. i \in 1 .. n
      BY <1>1, <2>2
    <3>2. Raws[i] = IF i <= Len(batch) THEN batch[i].Raw ELSE c[i - Len(batch)].Raw
      BY <3>1 DEF Raws
    <3>3. ~(i <= Len(batch)) => i - Len(batch) \in 1 .. Len(c)
      BY <1>1, <3>1
    <3>. QED
      BY <1>2, <2>2, <3>2, <3>3
  <2>. QED
    BY <2>1, <2>2
<1>7. Raws' = Append(Raws, seg.Raw)
  <2>. HIDE DEF n
  <2>. QED
    BY <1>4, <1>5, <1>6
<1>. QED
  BY <1>7, WaitingIsRaws, WaitingIsRawsNext

\* What waits stays in its order when the processor takes a segment into its
\* batch.
LEMMA WaitingShift ==
  ASSUME DaemonInv, DaemonInv', c # << >>, c' = Tail(c), batch' = Append(batch, Head(c))
  PROVE  Waiting' = Waiting
<1>1. /\ c \in Seq(TraceSegment) /\ batch \in Seq(TraceSegment)
      /\ Len(batch) \in Nat /\ Len(c) \in Nat
  BY DocsWithin DEF DaemonInv, TypeOK, RingTypeOK, ProcTypeOK
<1>2. /\ Len(c') = Len(c) - 1 /\ Len(c) >= 1 /\ Head(c) = c[1] /\ c[1] \in TraceSegment
      /\ \A i \in 1 .. Len(c) - 1 : c'[i] = c[i + 1]
  BY <1>1
<1>3. /\ Len(batch') = Len(batch) + 1 /\ batch'[Len(batch) + 1] = c[1]
      /\ \A i \in 1 .. Len(batch) : batch'[i] = batch[i]
  BY <1>1, <1>2
<1>4. Len(batch') + Len(c') = Len(batch) + Len(c)
  BY <1>1, <1>2, <1>3
<1>5. ASSUME NEW i \in 1 .. Len(batch) + Len(c)
      PROVE  (IF i <= Len(batch') THEN batch'[i].Raw ELSE c'[i - Len(batch')].Raw)
             = IF i <= Len(batch) THEN batch[i].Raw ELSE c[i - Len(batch)].Raw
  <2>1. CASE i <= Len(batch)
    <3>1. i \in 1 .. Len(batch) /\ i <= Len(batch')
      BY <1>1, <1>3, <2>1
    <3>. QED
      BY <1>3, <2>1, <3>1
  <2>2. CASE i = Len(batch) + 1
    <3>1. ~(i <= Len(batch)) /\ i <= Len(batch') /\ i - Len(batch) = 1
      BY <1>1, <1>3, <2>2
    <3>. QED
      BY <1>3, <2>2, <3>1
  <2>3. CASE i > Len(batch) + 1
    <3>1. /\ ~(i <= Len(batch)) /\ ~(i <= Len(batch'))
          /\ i - Len(batch') \in 1 .. Len(c) - 1 /\ (i - Len(batch')) + 1 = i - Len(batch)
      BY <1>1, <1>3, <2>3
    <3>2. c'[i - Len(batch')] = c[i - Len(batch)]
      BY <1>2, <3>1
    <3>. QED
      BY <3>1, <3>2
  <2>. QED
    BY <1>1, <2>1, <2>2, <2>3
<1>6. Raws' = [i \in 1 .. Len(batch) + Len(c) |->
                 IF i <= Len(batch') THEN batch'[i].Raw ELSE c'[i - Len(batch')].Raw]
  BY <1>4 DEF Raws
<1>7. Raws' = Raws
  BY <1>5, <1>6 DEF Raws
<1>. QED
  BY <1>7, WaitingIsRaws, WaitingIsRawsNext

\* The batch that is sent is what has waited longest.
LEMMA WaitingCut ==
  ASSUME DaemonInv, DaemonInv', Len(docs) = Len(batch), batch' = << >>, UNCHANGED c
  PROVE  /\ Len(docs) <= Len(Waiting)
         /\ SubSeq(Waiting, 1, Len(docs)) = docs
         /\ Waiting' = SubSeq(Waiting, Len(docs) + 1, Len(Waiting))
<1>. DEFINE n == Len(batch)
            m == n + Len(c)
<1>1. /\ c \in Seq(TraceSegment) /\ docs \in Seq(Payload) /\ batch \in Seq(TraceSegment)
      /\ n \in Nat /\ Len(c) \in Nat
  BY DocsWithin DEF DaemonInv, TypeOK, RingTypeOK, ProcTypeOK
<1>2. Raws \in Seq(Payload) /\ Len(Raws) = m /\ m \in Nat /\ Waiting = Raws
  BY <1>1, RawsType, WaitingIsRaws
<1>3. SubSeq(Raws, 1, n) \in Seq(Payload) /\ Len(SubSeq(Raws, 1, n)) = n
      /\ \A i \in 1 .. n : SubSeq(Raws, 1, n)[i] = Raws[i]
  BY <1>1, <1>2
<1>4. \A i \in 1 .. n : Raws[i] = docs[i]
  <2>. SUFFICES ASSUME NEW i \in 1 .. n PROVE Raws[i] = docs[i]
    OBVIOUS
  <2>1. i \in 1 .. m /\ i <= n /\ i \in DOMAIN batch /\ i <= Len(docs)
    BY <1>1
  <2>2. Raws[i] = batch[i].Raw
    BY <2>1 DEF Raws
  <2>3. docs[i] = batch[i].Raw
    BY <2>1 DEF DaemonInv, PayloadIntact
  <2>. QED
    BY <2>2, <2>3
<1>5. SubSeq(Raws, 1, n) = docs
  <2>. DEFINE q == SubSeq(Raws, 1, n)
  <2>1. q \in Seq(Payload) /\ Len(q) = n /\ \A i \in 1 .. n : q[i] = docs[i]
    BY <1>3, <1>4
  <2>. HIDE DEF q
  <2>2. DOMAIN q = 1 .. n /\ DOMAIN docs = 1 .. n
    BY <1>1, <2>1
  <2>3. q = docs
    BY <1>1, <2>1, <2>2
  <2>. QED
    BY <2>3 DEF q
<1>6. Raws' = [i \in 1 .. Len(c) |-> c[i].Raw]
  <2>1. Len(batch') = 0 /\ 0 + Len(c) = Len(c) /\ \A i \in 1 .. Len(c) : ~(i <= 0) /\ i - 0 = i
    BY <1>1
  <2>2. Raws' = [i \in 1 .. 0 + Len(c) |-> IF i <= 0 THEN batch'[i].Raw ELSE c[i - 0].Raw]
    BY <2>1 DEF Raws
  <2>. QED
    BY <2>1, <2>2
<1>7. SubSeq(Raws, n + 1, m) = [i \in 1 .. Len(c) |-> c[i].Raw]
  <2>1. SubSeq(Raws, n + 1, m) = [i \in 1 .. m - (n + 1) + 1 |-> Raws[i + (n + 1) - 1]]
    BY <1>1, <1>2
  <2>2. m - (n + 1) + 1 = Len(c)
    BY <1>1
  <2>3. \A i \in 1 .. Len(c) : Raws[i + (n + 1) - 1] = c[i].Raw
    <3>. SUFFICES ASSUME NEW i \in 1 .. Len(c) PROVE Raws[i + (n + 1) - 1] = c[i].Raw
      OBVIOUS
    <3>1. i + (n + 1) - 1 = i + n /\ i + n \in 1 .. m /\ ~(i + n <= n) /\ (i + n) - n = i
      BY <1>1
    <3>. QED
      BY <3>1 DEF Raws
  <2>. QED
    BY <2>1, <2>2, <2>3
<1>8. Raws' = SubSeq(Raws, n + 1, m)
  BY <1>6, <1>7, Zenon
<1>9. Waiting' = Raws' /\ n <= m /\ Len(docs) = n
  BY <1>1, WaitingIsRawsNext
<1>. HIDE DEF n, m
<1>. QED
  BY <1>2, <1>5, <1>8, <1>9, Zenon

\* A step that changes nobody's datagram leaves alone what is decided.
LEMMA ArrivalStays ==
  ASSUME UNCHANGED <<arrived, mem>>, Holding' = Holding,
         \A r \in Holding : rbuf'[r] = rbuf[r]
  PROVE  (ArrivalInv => ArrivalInv') /\ Decided' = Decided
<1>1. Undecided' = Undecided
  BY DEF Undecided
<1>2. Decided = (1 .. arrived) \ Undecided /\ Decided' = (1 .. arrived') \ Undecided'
  BY DEF Decided, Undecided, Holding
<1>3. ArrivalInv => ArrivalInv'
  BY DEF ArrivalInv
<1>. QED
  BY <1>1, <1>2, <1>3

\* A step of another goroutine in particular.
LEMMA ArrivalFrame ==
  ASSUME UNCHANGED <<arrived, rpc, rbuf, mem>>
  PROVE  (ArrivalInv => ArrivalInv') /\ Decided' = Decided
<1>1. Holding' = Holding
  BY DEF Holding
<1>. QED
  BY <1>1, ArrivalStays

\* A datagram in the fallback buffer is decided about as it arrives.
LEMMA ArrivalRefused ==
  ASSUME DaemonInv, ArrivalInv, arrived' = arrived + 1, UNCHANGED <<rbuf, mem>>, Holding' = Holding
  PROVE  ArrivalInv' /\ arrived + 1 \notin Decided /\ Decided' = Decided \cup {arrived + 1}
<1>1. arrived \in Nat
  BY DatagramAssumption DEF DaemonInv, TypeOK, RecvTypeOK
<1>2. /\ 1 .. arrived + 1 = (1 .. arrived) \cup {arrived + 1}
      /\ arrived + 1 \notin 1 .. arrived
  BY <1>1
<1>3. Undecided' = Undecided /\ Undecided \subseteq 1 .. arrived
  BY DEF Undecided, ArrivalInv
<1>4. ArrivalInv'
  BY <1>2, <1>3 DEF ArrivalInv
<1>5. Decided = (1 .. arrived) \ Undecided /\ Decided' = (1 .. arrived + 1) \ Undecided'
  BY DEF Decided, Undecided, Holding
<1>. QED
  BY <1>2, <1>3, <1>4, <1>5

\* A datagram in a pool buffer is not decided about before its Send returns or
\* it turns out to be malformed.
LEMMA ArrivalHeld ==
  ASSUME DaemonInv, ArrivalInv, NEW r \in Sender, ReadDatagram(r), rbuf[r] # nil
  PROVE  ArrivalInv' /\ Decided' = Decided
<1>1. arrived \in Nat
  BY DatagramAssumption DEF DaemonInv, TypeOK, RecvTypeOK
<1>2. /\ 1 .. arrived + 1 = (1 .. arrived) \cup {arrived + 1}
      /\ arrived + 1 \notin 1 .. arrived
  BY <1>1
<1>3. /\ arrived' = arrived + 1 /\ rpc[r] = "read" /\ rpc' = [rpc EXCEPT ![r] = "count"]
      /\ mem' = [mem EXCEPT ![rbuf[r]] = arrived + 1] /\ UNCHANGED <<rbuf, c, batch, docs>>
  BY DEF ReadDatagram
<1>4. /\ mem'[rbuf[r]] = arrived + 1
      /\ \A s \in Sender : s # r /\ rbuf[s] # nil => mem'[rbuf[s]] = mem[rbuf[s]]
  BY <1>3, MemWrite
<1>5. /\ Holding' = Holding \cup {r} /\ r \notin Holding /\ Holding \subseteq Sender
      /\ \A s \in Holding : mem'[rbuf'[s]] = mem[rbuf[s]]
      /\ mem'[rbuf'[r]] = arrived + 1
  BY <1>3, <1>4 DEF Holding, DaemonInv, TypeOK, RecvTypeOK
<1>6. Undecided' = Undecided \cup {arrived + 1} /\ Undecided \subseteq 1 .. arrived
  BY <1>5 DEF Undecided, ArrivalInv
<1>7. ArrivalInv'
  BY <1>2, <1>3, <1>5 DEF ArrivalInv
<1>8. Decided = (1 .. arrived) \ Undecided /\ Decided' = (1 .. arrived + 1) \ Undecided'
  BY <1>3 DEF Decided, Undecided, Holding
<1>. QED
  BY <1>2, <1>6, <1>7, <1>8

\* It is decided about when its receiver has no more to do with it.
LEMMA ArrivalEnds ==
  ASSUME ArrivalInv, NEW r \in Holding, Holding' = Holding \ {r},
         \A s \in Holding' : rbuf'[s] = rbuf[s], UNCHANGED <<arrived, mem>>
  PROVE  /\ ArrivalInv'
         /\ mem[rbuf[r]] \notin Decided
         /\ Decided' = Decided \cup {mem[rbuf[r]]}
<1>1. /\ Undecided' = Undecided \ {mem[rbuf[r]]} /\ mem[rbuf[r]] \in Undecided
      /\ mem[rbuf[r]] \in 1 .. arrived
  BY DEF Undecided, ArrivalInv
<1>2. ArrivalInv'
  BY DEF ArrivalInv
<1>3. Decided = (1 .. arrived) \ Undecided /\ Decided' = (1 .. arrived) \ Undecided'
  BY DEF Decided, Undecided, Holding
<1>. QED
  BY <1>1, <1>2, <1>3

\* A step that touches nothing of the relay.
LEMMA RelayStutters ==
  ASSUME DaemonInv, DaemonInv', Decided' = Decided,
         UNCHANGED <<batch, c, batches, inflight, mpc>>
  PROVE  [Relay!RelayNext]_(Relay!relayVars)
<1>1. Waiting' = Waiting
  BY WaitingStays
<1>. QED
  BY <1>1 DEF Relay!relayVars

\* A receiver takes segments, refuses them, or does nothing to the relay.
LEMMA ReceiverRelay ==
  ASSUME DaemonInv, DaemonInv', ArrivalInv, NEW r \in Sender, Receiver(r)
  PROVE  ArrivalInv' /\ [Relay!RelayNext]_(Relay!relayVars)
<1>. rpc \in [Sender -> {"get", "read", "count", "release", "reject", "send", "done", "exit"}] /\ DOMAIN rbuf = Sender
  BY DEF DaemonInv, TypeOK, RecvTypeOK
<1>1. CASE ReadDatagram(r)
  <2>1. UNCHANGED <<batch, c, batches, inflight, mpc>>
    BY <1>1 DEF ReadDatagram
  <2>2. CASE rbuf[r] # nil
    BY <1>1, <2>1, <2>2, ArrivalHeld, RelayStutters
  <2>3. CASE rbuf[r] = nil
    <3>1. /\ UNCHANGED <<rbuf, mem>> /\ rpc' = [rpc EXCEPT ![r] = "count"]
          /\ arrived < MaxDatagrams /\ arrived' = arrived + 1
      BY <1>1, <2>3 DEF ReadDatagram
    <3>2. Holding' = Holding
      BY <2>3, <3>1 DEF Holding
    <3>3. arrived + 1 \in Payload
      BY <3>1, DatagramAssumption DEF DaemonInv, TypeOK, RecvTypeOK
    <3>4. /\ ArrivalInv' /\ arrived + 1 \notin Decided
          /\ Decided' = Decided \cup {arrived + 1}
      BY <3>1, <3>2, ArrivalRefused
    <3>5. Waiting' = Waiting
      BY <2>1, WaitingStays
    <3>6. Relay!Refuse(arrived + 1)
      BY <2>1, <3>4, <3>5 DEF Relay!Refuse, Relay!Decide
    <3>. QED
      BY <3>3, <3>4, <3>6 DEF Relay!RelayNext
  <2>. QED
    BY <2>2, <2>3
<1>2. CASE CountInvalid(r)
  <2>1. /\ UNCHANGED <<batch, c, batches, inflight, mpc, arrived, rbuf, mem>>
        /\ rpc[r] = "count" /\ rbuf[r] # nil /\ rpc' = [rpc EXCEPT ![r] = "reject"]
    BY <1>2 DEF CountInvalid
  <2>2. r \in Holding /\ Holding' = Holding \ {r}
    BY <2>1 DEF Holding
  <2>3. mem[rbuf[r]] \in Payload
    BY <2>1 DEF DaemonInv, ReceiverInv
  <2>4. /\ ArrivalInv' /\ mem[rbuf[r]] \notin Decided
        /\ Decided' = Decided \cup {mem[rbuf[r]]}
    BY <2>1, <2>2, ArrivalEnds
  <2>5. Waiting' = Waiting
    BY <2>1, WaitingStays
  <2>6. Relay!Refuse(mem[rbuf[r]])
    BY <2>1, <2>4, <2>5 DEF Relay!Refuse, Relay!Decide
  <2>. QED
    BY <2>3, <2>4, <2>6 DEF Relay!RelayNext
<1>7. CASE CountSegment(r) \/ CountFallback(r)
  <2>1. /\ UNCHANGED <<batch, c, batches, inflight, mpc, arrived, mem>>
        /\ rpc[r] = "count"
        /\ \/ rbuf[r] # nil /\ rpc' = [rpc EXCEPT ![r] = "send"] /\ rbuf' = rbuf
           \/ rbuf[r] = nil /\ rpc' = [rpc EXCEPT ![r] = "get"] /\ rbuf' = [rbuf EXCEPT ![r] = nil]
    BY <1>7 DEF CountSegment, CountFallback, SendCall, NextLoop
  <2>2. Holding' = Holding /\ \A s \in Holding : rbuf'[s] = rbuf[s]
    BY <2>1 DEF Holding
  <2>. QED
    BY <2>1, <2>2, ArrivalStays, RelayStutters
<1>3. CASE PollSend(r) /\ SendEnqueue(r) /\ NextLoop(r)
  <2>1. /\ UNCHANGED <<batch, batches, inflight, mpc, arrived, mem>>
        /\ rpc[r] = "send" /\ ~closed /\ c' = Append(c, sendSeg[r])
        /\ rpc' = [rpc EXCEPT ![r] = "get"] /\ rbuf' = [rbuf EXCEPT ![r] = nil]
    BY <1>3 DEF PollSend, SendEnqueue, NextLoop
  <2>2. /\ sendSeg[r] \in TraceSegment /\ sendSeg[r].Raw \in Payload
        /\ sendSeg[r].Raw = mem[rbuf[r]] /\ rbuf[r] # nil
    BY <2>1 DEF DaemonInv, ReceiverInv, TraceSegment
  <2>7. r \in Holding /\ Holding' = Holding \ {r} /\ \A s \in Holding' : rbuf'[s] = rbuf[s]
    BY <2>1, <2>2 DEF Holding
  <2>3. /\ ArrivalInv' /\ sendSeg[r].Raw \notin Decided
        /\ Decided' = Decided \cup {sendSeg[r].Raw}
    BY <2>1, <2>2, <2>7, ArrivalEnds
  <2>4. Waiting' = Append(Waiting, sendSeg[r].Raw)
    BY <2>1, <2>2, WaitingAppend
  <2>5. ~(mpc \in {"waitTel", "exit"})
    BY <2>1, DrainedInv DEF ExitDrained
  <2>6. Relay!Take(sendSeg[r].Raw)
    BY <2>1, <2>3, <2>4, <2>5 DEF Relay!Take, Relay!Decide
  <2>. QED
    BY <2>2, <2>3, <2>6 DEF Relay!RelayNext
<1>4. CASE PollSend(r) /\ SendRetry(r) /\ UNCHANGED <<rpc, rbuf>>
  <2>1. SendPanic(r)
    BY <1>4, RetryPanics DEF PollSend
  <2>2. UNCHANGED <<batch, c, batches, inflight, mpc, arrived, rpc, rbuf, mem>>
    BY <1>4, <2>1 DEF PollSend, SendPanic
  <2>. QED
    BY <2>2, ArrivalFrame, RelayStutters
<1>5. CASE PollDone(r)
  <2>1. /\ UNCHANGED <<batch, c, batches, inflight, arrived, mem>>
        /\ rpc[r] = "done"
        /\ \/ rpc' = [rpc EXCEPT ![r] = "exit"] /\ rbuf' = rbuf
           \/ rpc' = [rpc EXCEPT ![r] = "get"] /\ rbuf' = [rbuf EXCEPT ![r] = nil]
    BY <1>5 DEF PollDone, NextLoop
  <2>4. Holding' = Holding /\ \A s \in Holding : rbuf'[s] = rbuf[s]
    BY <2>1 DEF Holding
  <2>2. mpc \notin {"waitTel", "exit"} /\ mpc' \notin {"waitTel", "exit"}
    BY <1>5 DEF PollDone, AwaitDone
  <2>3. Waiting' = Waiting
    BY <2>1, WaitingStays
  <2>. QED
    BY <2>1, <2>2, <2>3, <2>4, ArrivalStays DEF Relay!relayVars
<1>6. CASE PollGet(r) \/ ReadNothing(r) \/ ReadError(r) \/ PollRelease(r) \/ PollReject(r)
  <2>1. UNCHANGED <<batch, c, batches, inflight, mpc, arrived, mem>>
    BY <1>6 DEF PollGet, ReadNothing, ReadError, PollRelease, PollReject
  <2>2. /\ rpc[r] \in {"get", "read", "release", "reject"}
        /\ \E x \in {"get", "read", "release", "done"} : rpc' = [rpc EXCEPT ![r] = x]
        /\ \E b \in Buffer \cup {nil} : rbuf' = [rbuf EXCEPT ![r] = b]
    <3>1. rbuf[r] \in Buffer \cup {nil} /\ [rbuf EXCEPT ![r] = rbuf[r]] = rbuf
      BY DEF DaemonInv, TypeOK, RecvTypeOK
    <3>. QED
      BY <1>6, <3>1 DEF PollGet, ReadNothing, ReadError, PollRelease, PollReject, NextLoop
  <2>3. Holding' = Holding /\ \A s \in Holding : rbuf'[s] = rbuf[s]
    BY <2>2 DEF Holding
  <2>. QED
    BY <2>1, <2>3, ArrivalStays, RelayStutters
<1>. QED
  BY <1>1, <1>2, <1>3, <1>4, <1>5, <1>6, <1>7 DEF Receiver, PollSend

\* The processor cuts a group, spills one over, or does nothing to the relay.
LEMMA ProcRelay ==
  ASSUME DaemonInv, DaemonInv', ProcStep, UNCHANGED <<recvVars, mainVars>>
  PROVE  UNCHANGED <<arrived, rpc, rbuf, mem>> /\ [Relay!RelayNext]_(Relay!relayVars)
<1>1. UNCHANGED <<arrived, rpc, rbuf, mem, mpc>>
  BY DEF ProcStep, receiveTraceSegment, Receive, CheckPool, ChannelClosed, ReceiveClosed, IdlePartial,
         IdleEmpty, CopySegment, ReturnBuffer, SendBatch, QueueFull, TruncateOldest, CloseBatches,
         WaitWorker
<1>2. Decided' = Decided
  BY <1>1, ArrivalFrame
<1>3. CASE receiveTraceSegment
  <2>1. /\ c # << >> /\ c' = Tail(c) /\ batch' = Append(batch, Head(c))
        /\ UNCHANGED <<batches, inflight>>
    BY <1>3 DEF receiveTraceSegment, Receive
  <2>2. Waiting' = Waiting
    BY <2>1, WaitingShift
  <2>. QED
    BY <1>1, <1>2, <2>1, <2>2 DEF Relay!relayVars
<1>4. CASE SendBatch
  <2>1. /\ ppc = "send" /\ batches' = Append(batches, docs) /\ batch' = << >>
        /\ UNCHANGED <<c, inflight>>
    BY <1>4 DEF SendBatch, BatchEnqueue
  <2>2. Len(docs) = Len(batch) /\ docs # << >> /\ Len(batch) <= batchSize
    BY <2>1 DEF DaemonInv, ProcessorInv
  <2>3. Len(docs) \in 1 .. batchSize
    BY <2>2, batchSizeAssumption DEF DaemonInv, TypeOK, ProcTypeOK
  <2>4. /\ Len(docs) <= Len(Waiting) /\ SubSeq(Waiting, 1, Len(docs)) = docs
        /\ Waiting' = SubSeq(Waiting, Len(docs) + 1, Len(Waiting))
    BY <2>1, <2>2, WaitingCut
  <2>5. Relay!Cut(Len(docs))
    BY <1>1, <1>2, <2>1, <2>4 DEF Relay!Cut
  <2>. QED
    BY <1>1, <2>3, <2>5 DEF Relay!RelayNext
<1>5. CASE TruncateOldest
  <2>1. UNCHANGED <<batch, c, inflight>>
    BY <1>5 DEF TruncateOldest, BatchTruncate, BatchDequeued
  <2>2. Waiting' = Waiting
    BY <2>1, WaitingStays
  <2>3. CASE BatchTruncate
    <3>1. Relay!Spill
      BY <1>1, <1>2, <2>1, <2>2, <2>3 DEF BatchTruncate, Relay!Spill, Relay!TakeGroup
    <3>. QED
      BY <1>1, <3>1 DEF Relay!RelayNext
  <2>4. CASE BatchDequeued
    <3>1. UNCHANGED batches
      BY <2>4 DEF BatchDequeued
    <3>. QED
      BY <1>1, <1>2, <2>1, <3>1, RelayStutters
  <2>. QED
    BY <1>5, <2>3, <2>4 DEF TruncateOldest
<1>6. CASE ~receiveTraceSegment /\ ~SendBatch /\ ~TruncateOldest
  <2>1. UNCHANGED <<batch, c, batches, inflight>>
    BY <1>6 DEF ProcStep, CheckPool, ChannelClosed, ReceiveClosed, IdlePartial, IdleEmpty, CopySegment,
                ReturnBuffer, QueueFull, BatchFull, CloseBatches, BatchClose, WaitWorker, WorkerDone
  <2>. QED
    BY <1>1, <1>2, <2>1, RelayStutters
<1>. QED
  BY <1>3, <1>4, <1>5, <1>6

\* A worker starts or ends an upload, or does nothing to the relay.
LEMMA UploadRelay ==
  ASSUME DaemonInv, DaemonInv', NEW w \in Worker, UploadStep(w), UNCHANGED <<recvVars, mainVars>>
  PROVE  UNCHANGED <<arrived, rpc, rbuf, mem>> /\ [Relay!RelayNext]_(Relay!relayVars)
<1>1. UNCHANGED <<arrived, rpc, rbuf, mem, mpc, batch, c>> /\ WorkerStep(w)
  BY DEF UploadStep
<1>2. Decided' = Decided /\ Waiting' = Waiting
  BY <1>1, ArrivalFrame, WaitingStays
<1>3. CASE PollReceive(w)
  <2>1. /\ batches # << >> /\ batches' = Tail(batches)
        /\ inflight' = [inflight EXCEPT ![w] = Head(batches)] /\ inflight[w] = << >>
    BY <1>3 DEF PollReceive, DaemonInv, WorkerInv
  <2>2. Relay!StartUpload(w)
    BY <1>1, <1>2, <2>1 DEF Relay!StartUpload, Relay!TakeGroup
  <2>. QED
    BY <1>1, <2>2 DEF Relay!RelayNext
<1>4. CASE PollError(w) \/ \E resp \in Responses : PollSuccess(w, resp)
  <2>1. /\ UNCHANGED batches /\ wpc[w] = "sending"
        /\ inflight' = [inflight EXCEPT ![w] = << >>]
    BY <1>4 DEF PollError, PollSuccess
  <2>2. inflight[w] # << >>
    <3>1. Len(inflight[w]) \in 1 .. batchSize /\ Len(<< >>) = 0
      BY <2>1 DEF DaemonInv, UploadSize
    <3>. QED
      BY <3>1, batchSizeAssumption
  <2>3. Relay!EndUpload(w)
    BY <1>1, <1>2, <2>1, <2>2 DEF Relay!EndUpload
  <2>. QED
    BY <1>1, <2>3 DEF Relay!RelayNext
<1>5. CASE PollClosed(w)
  <2>1. UNCHANGED <<batches, inflight>>
    BY <1>5 DEF PollClosed
  <2>. QED
    BY <1>1, <1>2, <2>1, RelayStutters
<1>. QED
  BY <1>1, <1>3, <1>4, <1>5 DEF WorkerStep

\* main stops the relay when <-processor.Done goes through; its other steps,
\* the signal and the telemetry goroutine do nothing to it.
LEMMA MainRelay ==
  ASSUME DaemonInv, DaemonInv', Stop \/ CloseStep \/ PushData
  PROVE  UNCHANGED <<arrived, rpc, rbuf, mem>> /\ [Relay!RelayNext]_(Relay!relayVars)
<1>1. UNCHANGED <<arrived, rpc, rbuf, mem, batch, c, batches, inflight>>
  BY DEF Stop, CloseStep, CloseStd, Close, CloseQuit, WaitProcessor, WaitTelemetry, PushData
<1>2. Decided' = Decided /\ Waiting' = Waiting
  BY <1>1, ArrivalFrame, WaitingStays
<1>3. CASE WaitProcessor
  <2>1. mpc' = "waitTel"
    BY <1>3 DEF WaitProcessor
  <2>2. ExitDrained'
    <3>1. (DaemonInv => ExitDrained)'
      BY DrainedInv, PTL
    <3>. QED
      BY <3>1
  <2>3. c = << >> /\ batch = << >> /\ batches = << >> /\ \A w \in Worker : inflight[w] = << >>
    BY <1>1, <2>1, <2>2 DEF ExitDrained
  <2>4. Waiting = << >>
    <3>1. Len(batch) = 0 /\ Len(c) = 0
      BY <2>3
    <3>2. Raws \in Seq(Payload) /\ Len(Raws) = 0
      BY <3>1, RawsType
    <3>. QED
      BY <3>2, WaitingIsRaws
  <2>5. Relay!StopRelay
    BY <1>1, <1>2, <2>1, <2>3, <2>4 DEF Relay!StopRelay
  <2>. QED
    BY <1>1, <2>5 DEF Relay!RelayNext
<1>4. CASE ~WaitProcessor
  <2>1. \/ mpc' = mpc
        \/ mpc' \in {"quit", "waitProc"} /\ mpc \in {"closeStd", "quit"}
        \/ mpc' = "exit" /\ mpc = "waitTel"
    BY <1>4 DEF Stop, CloseStep, CloseStd, CloseQuit, WaitTelemetry, PushData
  <2>2. (mpc' \in {"waitTel", "exit"}) = (mpc \in {"waitTel", "exit"})
    BY <2>1
  <2>. QED
    BY <1>1, <1>2, <2>2 DEF Relay!relayVars
<1>. QED
  BY <1>3, <1>4

\* At the start the relay has nothing and has decided nothing.
LEMMA RelayStart == ASSUME Init PROVE Relay!RelayInit /\ ArrivalInv
<1>1. /\ arrived = 0 /\ c = << >> /\ batch = << >> /\ batches = << >> /\ mpc = "await"
      /\ inflight = [w \in Worker |-> << >>] /\ rpc = [r \in Sender |-> "get"]
  BY DEF Init, RingInit, ProcInit, BatchInit
<1>2. Decided = {} /\ ArrivalInv
  BY <1>1 DEF Decided, ArrivalInv, Holding
<1>3. Waiting = << >>
  <2>1. Len(batch) + Len(c) = 0 /\ DaemonInv
    BY <1>1, InitInv
  <2>2. Raws \in Seq(Payload) /\ Len(Raws) = 0
    BY <2>1, RawsType
  <2>. QED
    BY <2>1, <2>2, WaitingIsRaws
<1>. QED
  BY <1>1, <1>2, <1>3 DEF Relay!RelayInit

\* Every step of the goroutines is a step of the relay or none to it.
LEMMA RelayStep ==
  ASSUME DaemonInv, DaemonInv', ArrivalInv, AnyStep
  PROVE  ArrivalInv' /\ [Relay!RelayNext]_(Relay!relayVars)
<1>1. CASE \E r \in Sender : Receiver(r)
  BY <1>1, ReceiverRelay
<1>2. CASE ProcStep /\ UNCHANGED <<recvVars, mainVars>>
  BY <1>2, ProcRelay, ArrivalFrame
<1>3. CASE \E w \in Worker : UploadStep(w) /\ UNCHANGED <<recvVars, mainVars>>
  BY <1>3, UploadRelay, ArrivalFrame
<1>4. CASE Stop \/ CloseStep \/ PushData
  BY <1>4, MainRelay, ArrivalFrame
<1>5. CASE UNCHANGED vars
  <2>1. UNCHANGED <<batch, c, batches, inflight, mpc, arrived, rpc, rbuf, mem>>
    BY <1>5 DEF vars
  <2>. QED
    BY <2>1, ArrivalFrame, RelayStutters
<1>. QED
  BY <1>1, <1>2, <1>3, <1>4, <1>5 DEF AnyStep

\* Daemon implements TraceRelay, with any number of receivers, workers, buffers
\* and datagrams: pool, ring buffer, processor and workers together are a relay
\* that keeps order and contents, drops what it has taken only as a whole group
\* from the front of its queue, and stops empty.
THEOREM RelayTheorem == Spec => ImplementsRelay
<1>1. DaemonInv /\ DaemonInv' /\ ArrivalInv /\ [Next]_vars
        => ArrivalInv' /\ [Relay!RelayNext]_(Relay!relayVars)
  BY NextIsAnyStep, RelayStep
<1>. QED
  BY <1>1, RelayStart, Invariance, PTL DEF Spec, ImplementsRelay, Relay!RelaySpec
=============================================================================
