------------------------------ MODULE Processor ------------------------------
(***************************************************************************)
(* The goroutine that turns segments into batches                          *)
(* (src/pkg/processor/processor.go).  It takes segments from the ring      *)
(* buffer into batch; when the batch is complete, when the pool has run    *)
(* out of buffers, when the idle timer fires or when the ring buffer is    *)
(* closed it copies every payload into a document, gives the buffer back   *)
(* and queues the documents for the upload workers.                        *)
(*                                                                         *)
(* ppc is where the goroutine is:                                          *)
(*   "select"   waiting for a segment or the idle timer                    *)
(*   "check"    about to call pool.CurrentBuffersLen                       *)
(*   "copy"     in sendBatchAsync, about to copy payload Len(docs) + 1     *)
(*   "return"   about to return the buffer of the payload just copied      *)
(*   "send"     in segmentsBatch.send, about to try the channel            *)
(*   "full"     the queue was full; about to take the oldest batch         *)
(*   "close"    about to close the channel batches                         *)
(*   "wait"     receiving from s.done, once per worker                     *)
(*   "done"     about to send on p.Done                                    *)
(*   "exit"     returned                                                   *)
(* mem is the memory of the pool's buffers: Raw is a slice into it, so     *)
(* what sendBatchAsync copies is what the buffer holds at that moment.     *)
(***************************************************************************)
EXTENDS RingBuffer, SegmentsBatch

CONSTANT batchSize

ASSUME batchSizeAssumption == batchSize \in Nat \ {0}

VARIABLES ppc, batch, docs,
          idleTimer,  \* "armed": the timer will fire; "spent": it has fired
          Empty,      \* std.Empty
          processed,  \* p.count
          wdone,      \* answers received from s.done
          mem

procVars == <<ppc, batch, docs, idleTimer, Empty, processed, wdone>>

ProcInit ==
  /\ ppc = "select"
  /\ batch = << >>
  /\ docs = << >>
  /\ idleTimer = "armed"
  /\ Empty = FALSE
  /\ processed = 0
  /\ wdone = 0
  /\ mem = [b \in Buffer |-> nil]

SetIdleTimer == idleTimer' = "armed"

\* Mutant of receiveTraceSegment: the segment is not counted.
receiveUncounted ==
  /\ ppc = "select"
  /\ \E seg \in TraceSegment : Receive(seg) /\ batch' = Append(batch, seg)
  /\ ppc' = IF Len(batch) + 1 >= batchSize THEN "copy" ELSE "check"
  /\ UNCHANGED <<docs, idleTimer, Empty, processed, wdone, mem, poolVars, T, batchVars>>

\* Mutant of receiveTraceSegment: the buffer is returned before it is copied.
receiveReturnsEarly ==
  /\ ppc = "select"
  /\ \E seg \in TraceSegment :
       Receive(seg) /\ batch' = Append(batch, seg) /\ Return(seg.PoolBuf)
  /\ processed' = processed + 1
  /\ ppc' = IF Len(batch) + 1 >= batchSize THEN "copy" ELSE "check"
  /\ UNCHANGED <<docs, idleTimer, Empty, wdone, mem, T, batchVars>>

\* case segment, ok := <-p.std.Channel with ok, up to the length test.
receiveTraceSegment ==
  /\ ppc = "select"
  /\ \E seg \in TraceSegment : Receive(seg) /\ batch' = Append(batch, seg)
  /\ processed' = processed + 1
  /\ ppc' = IF Len(batch) + 1 >= batchSize THEN "copy" ELSE "check"
  /\ UNCHANGED <<docs, idleTimer, Empty, wdone, mem, poolVars, T, batchVars>>

\* A pool without buffers sends the batch early.
CheckPool ==
  /\ ppc = "check"
  /\ ppc' = IF CurrentBuffersLen = 0 THEN "copy" ELSE "select"
  /\ UNCHANGED <<batch, docs, idleTimer, Empty, processed, wdone, mem,
                 poolVars, T, ringVars, batchVars>>

\* The ring buffer is closed and drained: the loop ends.
ChannelClosed ==
  /\ ppc = "select"
  /\ ReceiveClosed
  /\ Empty' = TRUE
  /\ ppc' = IF batch # << >> THEN "copy" ELSE "close"
  /\ UNCHANGED <<batch, docs, idleTimer, processed, wdone, mem, poolVars, T, batchVars>>

\* Mutant of IdlePartial: an empty batch is sent too.
IdleAlwaysSends ==
  /\ ppc = "select"
  /\ idleTimer = "armed"
  /\ idleTimer' = "spent"
  /\ ppc' = IF batch = << >> THEN "send" ELSE "copy"
  /\ UNCHANGED <<batch, docs, Empty, processed, wdone, mem, poolVars, T, ringVars, batchVars>>

\* case <-p.idleTimer with a partial batch.
IdlePartial ==
  /\ ppc = "select"
  /\ idleTimer = "armed"
  /\ batch # << >>
  /\ idleTimer' = "spent"
  /\ ppc' = "copy"
  /\ UNCHANGED <<batch, docs, Empty, processed, wdone, mem, poolVars, T, ringVars, batchVars>>

\* Mutant of IdleEmpty: the timer is not armed again.
IdleEmptyForgets ==
  /\ ppc = "select"
  /\ idleTimer = "armed"
  /\ batch = << >>
  /\ idleTimer' = "spent"
  /\ UNCHANGED <<ppc, batch, docs, Empty, processed, wdone, mem,
                 poolVars, T, ringVars, batchVars>>

\* case <-p.idleTimer with nothing to send.
IdleEmpty ==
  /\ ppc = "select"
  /\ idleTimer = "armed"
  /\ batch = << >>
  /\ SetIdleTimer
  /\ UNCHANGED <<ppc, batch, docs, Empty, processed, wdone, mem,
                 poolVars, T, ringVars, batchVars>>

-----------------------------------------------------------------------------
(* sendBatchAsync *)

\* x := string(rawBytes[:])
CopySegment ==
  /\ ppc = "copy"
  /\ docs' = Append(docs, mem[batch[Len(docs) + 1].PoolBuf])
  /\ ppc' = "return"
  /\ UNCHANGED <<batch, idleTimer, Empty, processed, wdone, mem,
                 poolVars, T, ringVars, batchVars>>

\* p.pool.Return(segment.PoolBuf), and the next segment or the send.
ReturnBuffer ==
  /\ ppc = "return"
  /\ Return(batch[Len(docs)].PoolBuf)
  /\ ppc' = IF Len(docs) < Len(batch) THEN "copy" ELSE "send"
  /\ UNCHANGED <<batch, docs, idleTimer, Empty, processed, wdone, mem,
                 T, ringVars, batchVars>>

\* send succeeds; the timer is armed, flushBatch empties the batch, and the
\* caller goes on with its loop or, after it, with the close.
SendBatch ==
  /\ ppc = "send"
  /\ BatchEnqueue(docs)
  /\ SetIdleTimer
  /\ batch' = << >>
  /\ docs' = << >>
  /\ ppc' = IF Empty THEN "close" ELSE "select"
  /\ UNCHANGED <<Empty, processed, wdone, mem, poolVars, ringVars>>

QueueFull ==
  /\ ppc = "send"
  /\ BatchFull
  /\ ppc' = "full"
  /\ UNCHANGED <<batch, docs, idleTimer, Empty, processed, wdone, mem, poolVars, ringVars>>

\* Mutant of TruncateOldest: the new batch is given up instead of the oldest.
TruncateNewest ==
  /\ ppc = "full"
  /\ SegmentSpillover(Len(docs))
  /\ SetIdleTimer
  /\ batch' = << >>
  /\ docs' = << >>
  /\ ppc' = IF Empty THEN "close" ELSE "select"
  /\ UNCHANGED <<Empty, processed, wdone, mem, poolVars, ringVars, batchVars>>

\* The oldest batch makes room, unless a worker has taken it; then send again.
TruncateOldest ==
  /\ ppc = "full"
  /\ BatchTruncate \/ BatchDequeued
  /\ ppc' = "send"
  /\ UNCHANGED <<batch, docs, idleTimer, Empty, processed, wdone, mem, poolVars, ringVars>>

-----------------------------------------------------------------------------
(* The end of poll *)

CloseBatches ==
  /\ ppc = "close"
  /\ BatchClose
  /\ ppc' = "wait"
  /\ UNCHANGED <<batch, docs, idleTimer, Empty, processed, wdone, mem, poolVars, T, ringVars>>

WaitWorker(w) ==
  /\ ppc = "wait"
  /\ WorkerDone(w)
  /\ wdone' = wdone + 1
  /\ ppc' = IF wdone + 1 = Cardinality(Worker) THEN "done" ELSE "wait"
  /\ UNCHANGED <<batch, docs, idleTimer, Empty, processed, mem, poolVars, T, ringVars>>

\* Every step of the processor but the last one, which hands over to close().
ProcStep ==
  \/ receiveTraceSegment
  \/ CheckPool
  \/ ChannelClosed
  \/ IdlePartial
  \/ IdleEmpty
  \/ CopySegment
  \/ ReturnBuffer
  \/ SendBatch
  \/ QueueFull
  \/ TruncateOldest
  \/ CloseBatches
  \/ \E w \in Worker : WaitWorker(w)

\* A step of an upload worker.
UploadStep(w) == WorkerStep(w) /\ UNCHANGED <<procVars, mem, poolVars, ringVars>>
=============================================================================
