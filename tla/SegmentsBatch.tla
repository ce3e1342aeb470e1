---------------------------- MODULE SegmentsBatch ----------------------------
(***************************************************************************)
(* The queue of batches and the workers that upload them                   *)
(* (src/pkg/processor/batchprocessor.go).                                  *)
(*                                                                         *)
(* The processor is the only sender on the channel batches.  send never    *)
(* waits: when the queue is full it drops the oldest batch, counts its     *)
(* documents as spillover and tries again; the test and the drop are two   *)
(* channel operations with workers running in between.  A worker takes a   *)
(* batch and calls PutTraceSegments, which ends in an error or in a        *)
(* response that may name unprocessed segments.                            *)
(*                                                                         *)
(* wpc[w] is where worker w is:                                            *)
(*   "idle"     waiting on the channel                                     *)
(*   "sending"  in PutTraceSegments with the batch inflight[w]             *)
(*   "done"     the channel is closed and empty; about to send on s.done   *)
(*   "exit"     returned                                                   *)
(***************************************************************************)
EXTENDS TelemetryRecord, Sequences, FiniteSets

CONSTANTS Worker,     \* the goroutines of segmentsBatch.poll
          QueueSize,  \* capacity of the channel batches
          Responses   \* lists of unprocessed segments a response may carry

\* An unprocessed segment of a response has an id or the id nil.
ASSUME WorkerAssumption == IsFiniteSet(Worker) /\ Worker # {}
ASSUME QueueSizeAssumption == QueueSize \in Nat \ {0}
ASSUME ResponsesAssumption == Responses \subseteq Seq({"id", "nil"})

VARIABLES batches,         \* the batches in the channel, oldest first
          batchesClosed,   \* the channel is closed
          wpc, inflight,   \* the workers
          failed,          \* documents of failed calls; the code counts none
          serviceRejected  \* the rejections that came from responses

batchVars == <<batches, batchesClosed, wpc, inflight, failed, serviceRejected>>

BatchInit ==
  /\ batches = << >>
  /\ batchesClosed = FALSE
  /\ wpc = [w \in Worker |-> "idle"]
  /\ inflight = [w \in Worker |-> << >>]
  /\ failed = 0
  /\ serviceRejected = 0

\* case s.batches <- batch: send returns.
BatchEnqueue(docs) ==
  /\ Len(batches) < QueueSize
  /\ batches' = Append(batches, docs)
  /\ UNCHANGED <<batchesClosed, wpc, inflight, failed, serviceRejected, T>>

\* default: the queue is full.
BatchFull == Len(batches) >= QueueSize /\ UNCHANGED <<batchVars, T>>

\* Mutant of BatchTruncate: a batch counts as one segment.
BatchTruncateCountsOne ==
  /\ batches # << >>
  /\ SegmentSpillover(1)
  /\ batches' = Tail(batches)
  /\ UNCHANGED <<batchesClosed, wpc, inflight, failed, serviceRejected>>

\* case batchTruncated := <-s.batches: the oldest batch spills over.
BatchTruncate ==
  /\ batches # << >>
  /\ SegmentSpillover(Len(Head(batches)))
  /\ batches' = Tail(batches)
  /\ UNCHANGED <<batchesClosed, wpc, inflight, failed, serviceRejected>>

\* default: the workers emptied the queue in between.
BatchDequeued == batches = << >> /\ UNCHANGED <<batchVars, T>>

BatchClose ==
  /\ batchesClosed' = TRUE
  /\ UNCHANGED <<batches, wpc, inflight, failed, serviceRejected>>

-----------------------------------------------------------------------------
\* batch, ok := <-s.batches with ok, and the call of PutTraceSegments.
PollReceive(w) ==
  /\ wpc[w] = "idle"
  /\ batches # << >>
  /\ inflight' = [inflight EXCEPT ![w] = Head(batches)]
  /\ batches' = Tail(batches)
  /\ wpc' = [wpc EXCEPT ![w] = "sending"]
  /\ UNCHANGED <<batchesClosed, failed, serviceRejected, T>>

\* The call failed: the batch is not retried and no segment counter moves
\* (the connection error counters are those of Telemetry).
PollError(w) ==
  /\ wpc[w] = "sending"
  /\ failed' = failed + Len(inflight[w])
  /\ inflight' = [inflight EXCEPT ![w] = << >>]
  /\ wpc' = [wpc EXCEPT ![w] = "idle"]
  /\ UNCHANGED <<batches, batchesClosed, serviceRejected, T>>

\* SegmentRejected(1) for every unprocessed segment up to the first nil id.
RejectedCount(resp) ==
  Cardinality({i \in DOMAIN resp : \A j \in 1 .. i - 1 : resp[j] # "nil"})

\* The call succeeded; the service answers at most one entry per document.
PollSuccess(w, resp) ==
  /\ wpc[w] = "sending"
  /\ Len(resp) <= Len(inflight[w])
  /\ T' = [T EXCEPT !["sent"] = @ + Len(inflight[w]),
                    !["rejected"] = @ + RejectedCount(resp)]
  /\ serviceRejected' = serviceRejected + RejectedCount(resp)
  /\ inflight' = [inflight EXCEPT ![w] = << >>]
  /\ wpc' = [wpc EXCEPT ![w] = "idle"]
  /\ UNCHANGED <<batches, batchesClosed, failed>>

\* The channel is closed and empty.
PollClosed(w) ==
  /\ wpc[w] = "idle"
  /\ batchesClosed
  /\ batches = << >>
  /\ wpc' = [wpc EXCEPT ![w] = "done"]
  /\ UNCHANGED <<batches, batchesClosed, inflight, failed, serviceRejected, T>>

WorkerStep(w) ==
  \/ PollReceive(w)
  \/ PollError(w)
  \/ \E resp \in Responses : PollSuccess(w, resp)
  \/ PollClosed(w)

\* s.done <- true, received by the processor in the same step.
WorkerDone(w) ==
  /\ wpc[w] = "done"
  /\ wpc' = [wpc EXCEPT ![w] = "exit"]
  /\ UNCHANGED <<batches, batchesClosed, inflight, failed, serviceRejected>>
=============================================================================
